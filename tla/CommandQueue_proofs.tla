------------------------ MODULE CommandQueue_proofs -------------------------
(***************************************************************************)
(* CommandQueue uses nothing that was freed and implements InOrder, proved *)
(* for any number of threads, queues, commands and user events.            *)
(*                                                                         *)
(* The two depend on each other: a queue thread skips the wait for an      *)
(* event that was freed, so commands run after the events they wait for    *)
(* only because their references keep the events alive.  The invariant     *)
(* says who holds the references to an event (Counts), which part of the   *)
(* commands a queue has executed (Order), and that a queue that has been   *)
(* released is not used any more (Closed).                                 *)
(***************************************************************************)
EXTENDS CommandQueue, FiniteSetTheorems, SequenceTheorems, TLAPS

HostPlace == {"idle", "flush", "sleep", "await", "release", "end", "join"}
Waiting == {"flush", "sleep", "await"}
\* A queue thread that has a command it has not executed,
Pending == {"verify", "run"} \cup Waiting
\* and one that has executed it as well.
Busy == Pending \cup {"free"}
Over == {"ended", "freed"}
QueuePlace == {"dequeue", "asleep"} \cup Busy \cup Over

Places ==
  /\ pc \in [Thread -> HostPlace \cup QueuePlace]
  /\ \A h \in Host : pc[h] \in HostPlace
  /\ \A q \in Queue : pc[q] \in QueuePlace

TypeOK ==
  /\ Places
  /\ commands \in 0 .. MaxCommands
  /\ queueOf \in [Command -> Queue \cup {None}]
  /\ waits \in [Command -> SUBSET Event]
  /\ list \in [Queue -> Seq(Command \cup {End})]
  /\ process \in [Queue -> BOOLEAN]
  /\ refs \in [Event -> Int]
  /\ complete \subseteq Event
  /\ doing \in [Thread -> Command \cup Queue \cup {None}]
  /\ left \in [Thread -> SUBSET Event]
  /\ target \in [Thread -> Event \cup {None}]
  /\ handles \subseteq Command /\ open \subseteq Queue
  /\ enqueued \in [Queue -> Seq(Command)]

\* What exists is numbered up to commands; a command waits for older ones.
Numbered ==
  /\ handles \subseteq 1 .. commands
  /\ complete \subseteq (1 .. commands) \cup User
  /\ \A c \in Command :
       /\ c <= commands => queueOf[c] \in Queue
       /\ c > commands => waits[c] = {}
       /\ \A e \in waits[c] : e \in User \/ e < c
  /\ \A q \in Queue : \A i \in 1 .. Len(enqueued[q]) :
       /\ enqueued[q][i] \in 1 .. commands
       /\ queueOf[enqueued[q][i]] = q
       /\ \A j \in 1 .. Len(enqueued[q]) :
            i < j => enqueued[q][i] < enqueued[q][j]

\* What a thread of the program is in the middle of.
HostAt(h) ==
  /\ pc[h] \notin Waiting => left[h] = {}
  /\ pc[h] = "idle" => doing[h] = None
  /\ pc[h] \in {"end", "join"} <=> doing[h] \in Queue
  /\ pc[h] = "release" => doing[h] \in Command
  /\ doing[h] \in Command => doing[h] <= commands /\ left[h] \subseteq {doing[h]}
  /\ doing[h] = None => left[h] \subseteq handles

Hosts == \A h \in Host : HostAt(h)

\* The event a thread sleeps for is one of those it waits for.
TargetAt(t) == pc[t] \in {"sleep", "await"} => target[t] \in left[t]

Targets == \A t \in Thread : TargetAt(t)

\* The END command is in the list of a queue that was released.
Ending(q) == q \notin open /\ pc[q] \notin Over

\* How many commands have been taken from the list of a queue.
Gone(q) ==
  (Len(enqueued[q]) - Len(list[q])) + IF Ending(q) THEN 1 ELSE 0

\* The list is the part of the commands that have not been taken, and the
\* commands before them are executed, all but the one that the thread has.
OrderAt(q) ==
  /\ Gone(q) \in 0 .. Len(enqueued[q])
  /\ \A j \in 1 .. Len(enqueued[q]) - Gone(q) :
       list[q][j] = enqueued[q][Gone(q) + j]
  /\ Ending(q) => list[q][Len(list[q])] = End
  /\ pc[q] \in Over => q \notin open /\ list[q] = <<>>
  /\ pc[q] \in Busy => Gone(q) > 0 /\ doing[q] = enqueued[q][Gone(q)]
  /\ \A j \in 1 .. Len(enqueued[q]) :
       enqueued[q][j] \in complete <=>
         j < Gone(q) \/ (j = Gone(q) /\ pc[q] \notin Pending)

Order == \A q \in Queue : OrderAt(q)

\* A queue thread waits for the events of its command that it has not seen
\* completed.
WaitAt(q) ==
  /\ pc[q] \notin Waiting \cup {"verify"} => left[q] = {}
  /\ pc[q] \in Pending =>
       /\ left[q] \subseteq waits[doing[q]]
       /\ waits[doing[q]] \subseteq complete \cup left[q]

Waits == \A q \in Queue : WaitAt(q)

\* The commands whose memory is not freed.
Live ==
  {c \in 1 .. commands :
     c \notin complete \/ \E q \in Queue : pc[q] = "free" /\ doing[q] = c}

\* Who has a reference to event e: commands, threads in clFinish, and the
\* program (None).
Holders(e) ==
  {c \in Live : e \in waits[c] \/ e = c}
    \cup {h \in Host : doing[h] = e}
    \cup {n \in {None} : e \in handles \cup User}

Counts == \A e \in Event : refs[e] = Cardinality(Holders(e))

\* Nothing uses the events of a queue that was released.
Closed == \A q \in Queue \ open : InUse(q) = {}

IInv ==
  /\ TypeOK /\ Numbered /\ Hosts /\ Targets /\ Order /\ Waits /\ Counts
  /\ Closed

-----------------------------------------------------------------------------
(***************************************************************************)
(* Sequences, constants and references.                                    *)
(***************************************************************************)

\* What Dequeue leaves of a list.
LEMMA Rest ==
  ASSUME NEW S, NEW s \in Seq(S), s # <<>>
  PROVE  LET r == SubSeq(s, 1, 0) \o SubSeq(s, 2, Len(s)) IN
         /\ r \in Seq(S) /\ Len(r) = Len(s) - 1
         /\ \A j \in 1 .. Len(s) - 1 : r[j] = s[j + 1]
<1>1. SubSeq(s, 1, 0) = <<>>
  BY SubSeqEmpty
<1>2. SubSeq(s, 2, Len(s)) = Tail(s)
  BY TailIsSubSeq
<1>3. /\ Tail(s) \in Seq(S) /\ Len(Tail(s)) = Len(s) - 1
      /\ \A j \in 1 .. Len(Tail(s)) : Tail(s)[j] = s[j + 1]
  BY HeadTailProperties
<1>4. <<>> \o Tail(s) = Tail(s)
  BY <1>3, ConcatEmptySeq
<1> QED
  BY <1>1, <1>2, <1>3, <1>4

\* What adding a command to a list does.
LEMMA Appended ==
  ASSUME NEW S, NEW s \in Seq(S), NEW x \in S
  PROVE  /\ Append(s, x) \in Seq(S) /\ Len(Append(s, x)) = Len(s) + 1
         /\ \A j \in 1 .. Len(s) : Append(s, x)[j] = s[j]
         /\ Append(s, x)[Len(s) + 1] = x
OBVIOUS

\* Threads, commands and events are different things.
LEMMA Apart ==
  /\ Command \subseteq Nat \ {0} /\ End \notin Command
  /\ Host \cap Queue = {} /\ None \notin Thread /\ None \notin Event
  /\ \A t \in Thread : t \notin Event /\ t \notin Nat
  /\ User \cap Command = {}
BY CommandQueueAssumption DEF Command, Event, Thread, End

\* The holders of an event can be counted.
LEMMA HoldersFinite ==
  ASSUME TypeOK, NEW e \in Event
  PROVE  IsFiniteSet(Holders(e))
<1>1. IsFiniteSet({c \in Live : e \in waits[c] \/ e = c})
  <2>1. {c \in Live : e \in waits[c] \/ e = c} \subseteq 1 .. commands
    BY DEF Live
  <2>2. IsFiniteSet(1 .. commands)
    BY FS_Interval DEF TypeOK
  <2> QED
    BY <2>1, <2>2, FS_Subset
<1>2. IsFiniteSet({h \in Host : doing[h] = e})
  BY FS_Subset, CommandQueueAssumption
<1>3. IsFiniteSet({n \in {None} : e \in handles \cup User})
  BY FS_Subset, FS_Singleton
<1> QED
  BY <1>1, <1>2, <1>3, FS_Union DEF Holders

\* An event that somebody refers to is not freed.
LEMMA Held ==
  ASSUME IInv, NEW e \in Event
  PROVE  refs[e] \in Nat /\ (Holders(e) # {} => refs[e] > 0)
<1>1. IsFiniteSet(Holders(e)) /\ refs[e] = Cardinality(Holders(e))
  BY HoldersFinite DEF IInv, Counts
<1> QED
  BY <1>1, FS_CardinalityType, FS_EmptySet

\* The command that a queue thread has is the last one taken from the list.
LEMMA InHand ==
  ASSUME IInv, NEW q \in Queue, pc[q] \in Busy
  PROVE  /\ doing[q] \in Command /\ doing[q] \in 1 .. commands
         /\ queueOf[doing[q]] = q
         /\ doing[q] \in Live
         /\ pc[q] \in Pending => doing[q] \notin complete
         /\ pc[q] = "free" => doing[q] \in complete
<1>1. TypeOK /\ Numbered /\ Order
  BY DEF IInv
<1>2. /\ Gone(q) \in 1 .. Len(enqueued[q])
      /\ doing[q] = enqueued[q][Gone(q)]
  BY <1>1 DEF Order, OrderAt, TypeOK
<1>3. /\ doing[q] \in 1 .. commands /\ queueOf[doing[q]] = q
  BY <1>1, <1>2 DEF Numbered
<1>4. doing[q] \in Command
  BY <1>1, <1>3, CommandQueueAssumption DEF TypeOK, Command
<1>5. doing[q] \in complete <=> pc[q] \notin Pending
  BY <1>1, <1>2 DEF Order, OrderAt, TypeOK
<1> QED
  BY <1>3, <1>4, <1>5 DEF Live, Busy, Pending, Waiting

\* The references of its command keep what a queue thread waits for.
LEMMA WaitedForHeld ==
  ASSUME IInv, NEW t \in Thread, NEW e \in left[t]
  PROVE  refs[e] > 0
<1>1. TypeOK /\ Hosts /\ Waits
  BY DEF IInv
<1>2. e \in Event
  BY <1>1 DEF TypeOK
<1>3. CASE t \in Host
  <2>1. doing[t] \in Command \/ doing[t] = None
    BY <1>1, <1>3 DEF TypeOK, Hosts, HostAt, Waiting
  <2>2. CASE doing[t] = None
    BY <1>1, <1>2, <1>3, <2>2, Held DEF Hosts, HostAt, Holders
  <2>3. CASE doing[t] \in Command
    <3>1. doing[t] = e
      BY <1>1, <1>3, <2>3 DEF Hosts, HostAt
    <3> QED
      BY <1>2, <1>3, <3>1, Held DEF Holders
  <2> QED
    BY <2>1, <2>2, <2>3
<1>4. CASE t \in Queue
  <2>1. pc[t] \in Pending /\ e \in waits[doing[t]]
    BY <1>1, <1>4 DEF Waits, WaitAt, Pending
  <2>2. doing[t] \in Live
    BY <1>4, <2>1, InHand DEF Busy
  <2> QED
    BY <1>2, <2>1, <2>2, Held DEF Holders
<1> QED
  BY <1>3, <1>4 DEF Thread

\* Nobody waits for an event of a queue that was released.
LEMMA WaitedForOpen ==
  ASSUME IInv, NEW t \in Thread, NEW e \in left[t] \cap Command
  PROVE  queueOf[e] \in open
<1>1. TypeOK /\ Hosts /\ Waits /\ Closed /\ Numbered
  BY DEF IInv
<1> SUFFICES \E q \in Queue : queueOf[e] = q /\ e \in InUse(q)
  BY <1>1 DEF Closed
<1>2. CASE t \in Host
  <2>1. doing[t] \in Command \/ doing[t] = None
    BY <1>1, <1>2 DEF TypeOK, Hosts, HostAt, Waiting
  <2>2. CASE doing[t] = None
    <3>1. e \in handles
      BY <1>1, <1>2, <2>2 DEF Hosts, HostAt
    <3>2. queueOf[e] \in Queue
      BY <1>1, <3>1, Apart DEF Numbered, TypeOK, Command
    <3> QED
      BY <3>1, <3>2 DEF InUse
  <2>3. CASE doing[t] \in Command
    <3>1. doing[t] = e /\ e <= commands
      BY <1>1, <1>2, <2>3 DEF Hosts, HostAt
    <3>2. queueOf[e] \in Queue
      BY <1>1, <3>1 DEF Numbered
    <3> QED
      BY <1>2, <3>1, <3>2 DEF InUse
  <2> QED
    BY <2>1, <2>2, <2>3
<1>3. CASE t \in Queue
  <2>1. pc[t] \in Pending /\ e \in waits[doing[t]]
    BY <1>1, <1>3 DEF Waits, WaitAt, Pending
  <2>2. doing[t] \in 1 .. commands /\ doing[t] \notin complete
        /\ doing[t] \in Command
    BY <1>3, <2>1, InHand DEF Busy
  <2>3. e < doing[t]
    BY <1>1, <2>1, <2>2, Apart DEF Numbered
  <2>4. e <= commands
    BY <1>1, <2>2, <2>3, Apart DEF TypeOK, Command
  <2>5. queueOf[e] \in Queue
    BY <1>1, <2>4 DEF Numbered
  <2> QED
    BY <2>1, <2>2, <2>5 DEF InUse
<1> QED
  BY <1>2, <1>3 DEF Thread

\* The invariant implies that nothing is used after it was freed.
LEMMA NothingFreed == IInv => NothingFreedInUse
<1> SUFFICES ASSUME IInv PROVE NothingFreedInUse
  OBVIOUS
<1>1. \A e \in Event : refs[e] >= 0
  BY Held
<1>2. ASSUME NEW t \in Thread, NEW e \in left[t]
      PROVE  refs[e] > 0 /\ (e \in Command => pc[queueOf[e]] # "freed")
  <2>1. e \in Command => queueOf[e] \in open
    BY WaitedForOpen
  <2>2. \A q \in Queue : q \in open => pc[q] # "freed"
    BY DEF IInv, Order, OrderAt, Over
  <2> QED
    BY <2>1, <2>2, WaitedForHeld DEF IInv, TypeOK
<1>3. ASSUME NEW q \in Queue
      PROVE  /\ pc[q] \in {"run", "free"} => refs[doing[q]] > 0
             /\ pc[q] \in {"ended", "freed"} => list[q] = <<>>
  <2>1. ASSUME pc[q] \in {"run", "free"}
        PROVE  refs[doing[q]] > 0
    <3>1. doing[q] \in Live /\ doing[q] \in Event
      BY <2>1, InHand DEF Busy, Pending, Event
    <3> QED
      BY <3>1, Held DEF Holders
  <2> QED
    BY <2>1 DEF IInv, Order, OrderAt, Over
<1> QED
  BY <1>1, <1>2, <1>3 DEF NothingFreedInUse

-----------------------------------------------------------------------------
(***************************************************************************)
(* What a step leaves alone.                                               *)
(***************************************************************************)

\* What a step of another thread may do to where thread u is.
Moved(u) ==
  \/ pc'[u] = pc[u]
  \/ pc[u] = "sleep" /\ pc'[u] = "await"
  \/ u \in Queue /\ pc[u] = "asleep" /\ pc'[u] = "dequeue"
  \/ u \in Queue /\ pc[u] = "ended" /\ pc'[u] = "freed"

\* A step of thread t, and of no other: of what the others depend on nothing is
\* lost.
StepOf(t) ==
  /\ commands <= commands' /\ complete \subseteq complete'
  /\ \A c \in 1 .. commands : waits'[c] = waits[c]
  /\ \A u \in Thread \ {t} :
       /\ left'[u] = left[u] /\ target'[u] = target[u] /\ doing'[u] = doing[u]
       /\ u \in Host => left[u] \cap handles \subseteq handles'
       /\ Moved(u)

\* Such a step leaves the other threads consistent.
LEMMA OthersKeep ==
  ASSUME IInv, TypeOK', NEW t, StepOf(t), NEW u \in Thread \ {t}
  PROVE  /\ u \in Host => HostAt(u)'
         /\ u \in Queue => WaitAt(u)'
         /\ TargetAt(u)'
<1>1. TypeOK /\ Hosts /\ Waits /\ Targets
  BY DEF IInv
<1>2. /\ left'[u] = left[u] /\ target'[u] = target[u] /\ doing'[u] = doing[u]
      /\ Moved(u) /\ (u \in Host => left[u] \cap handles \subseteq handles')
  BY DEF StepOf
<1>3. ASSUME u \in Host PROVE HostAt(u)'
  <2>1. HostAt(u) /\ u \notin Queue
    BY <1>1, <1>3, Apart DEF Hosts
  <2>2. commands \in Int /\ commands' \in Int /\ commands <= commands'
    BY <1>1 DEF TypeOK, StepOf
  <2>3. Command \subseteq Int
    BY Apart
  <2>4. \/ pc'[u] = pc[u]
        \/ pc[u] = "sleep" /\ pc'[u] = "await"
    BY <1>2, <2>1 DEF Moved
  <2>5. doing[u] \in Command => doing[u] <= commands'
    <3> SUFFICES ASSUME doing[u] \in Command PROVE doing[u] <= commands'
      OBVIOUS
    <3>1. doing[u] \in Int /\ doing[u] <= commands
      BY <2>1, <2>3 DEF HostAt
    <3> QED
      BY <2>2, <3>1
  <2>6. doing[u] \in Command => left'[u] \subseteq {doing[u]}
    BY <1>2, <2>1 DEF HostAt
  <2>7. doing[u] = None => left'[u] \subseteq handles'
    BY <1>2, <1>3, <2>1 DEF HostAt
  <2> QED
    BY <1>2, <2>1, <2>4, <2>5, <2>6, <2>7 DEF HostAt, Waiting
<1>4. ASSUME u \in Queue PROVE WaitAt(u)'
  <2>1. WaitAt(u)
    BY <1>1, <1>4 DEF Waits
  <2>2. pc'[u] \in Pending => pc[u] \in Pending
    BY <1>2 DEF Moved, Pending, Waiting
  <2>3. pc'[u] \notin Waiting \cup {"verify"} => pc[u] \notin Waiting \cup {"verify"}
    BY <1>2 DEF Moved, Waiting
  <2>4. pc[u] \in Pending => waits'[doing[u]] = waits[doing[u]]
    BY <1>4, InHand DEF StepOf, Busy
  <2>5. complete \subseteq complete'
    BY DEF StepOf
  <2> QED
    BY <1>2, <2>1, <2>2, <2>3, <2>4, <2>5 DEF WaitAt
<1>5. TargetAt(u)'
  <2>1. TargetAt(u)
    BY <1>1 DEF Targets
  <2> QED
    BY <1>2, <2>1 DEF TargetAt, Moved
<1> QED
  BY <1>3, <1>4, <1>5

\* So only the thread that moves has to be looked at.
LEMMA ThreadsKeep ==
  ASSUME IInv, TypeOK', NEW t, StepOf(t),
         t \in Host => HostAt(t)',
         t \in Queue => WaitAt(t)',
         t \in Thread => TargetAt(t)'
  PROVE  Hosts' /\ Waits' /\ Targets'
BY OthersKeep DEF Hosts, Waits, Targets, Thread

\* The classes of places that tell how far a queue is.
SamePart(q) ==
  /\ doing'[q] = doing[q]
  /\ pc'[q] \in Pending <=> pc[q] \in Pending
  /\ pc'[q] = "free" <=> pc[q] = "free"
  /\ pc'[q] \in Over <=> pc[q] \in Over

\* A queue keeps its order if none of its commands comes, goes or completes.
LEMMA OrderKeeps ==
  ASSUME NEW q \in Queue, OrderAt(q), SamePart(q),
         list'[q] = list[q], enqueued'[q] = enqueued[q],
         q \in open' <=> q \in open,
         \A j \in 1 .. Len(enqueued[q]) :
           enqueued[q][j] \in complete' <=> enqueued[q][j] \in complete
  PROVE  OrderAt(q)'
<1>1. Ending(q)' <=> Ending(q)
  BY DEF Ending, SamePart
<1>2. Gone(q)' = Gone(q)
  BY <1>1 DEF Gone
<1>3. pc'[q] \in Busy <=> pc[q] \in Busy
  BY DEF SamePart, Busy
<1> QED
  BY <1>1, <1>2, <1>3 DEF OrderAt, SamePart

\* The counts are right as long as no reference comes or goes.
LEMMA CountsKeep ==
  ASSUME Counts, Live' = Live, UNCHANGED <<waits, refs, handles>>,
         \A h \in Host, e \in Event : doing'[h] = e <=> doing[h] = e
  PROVE  Counts'
<1>1. \A e \in Event : Holders(e)' = Holders(e)
  BY DEF Holders
<1> QED
  BY <1>1 DEF Counts

\* Steps that create no reference give a released queue no new use.
LEMMA ClosedKeeps ==
  ASSUME Closed, UNCHANGED <<commands, queueOf, waits>>,
         handles' \subseteq handles, complete \subseteq complete',
         \A h \in Host, e \in Event : doing'[h] = e => doing[h] = e,
         \A q \in Queue \ open' : q \in Queue \ open \/ InUse(q) = {}
  PROVE  Closed'
<1>1. Command \subseteq Event
  BY DEF Event
<1>2. \A q : InUse(q)' \subseteq InUse(q)
  BY <1>1 DEF InUse
<1> QED
  BY <1>2 DEF Closed

\* A step that creates, executes, releases and frees nothing.
Quiet(t) ==
  /\ StepOf(t)
  /\ UNCHANGED <<commandVars, list, enqueued, refs, complete, handles, open>>
  /\ t \in Queue => SamePart(t)
  /\ t \in Host => \A e \in Event : doing'[t] = e <=> doing[t] = e

LEMMA QuietKeeps ==
  ASSUME IInv, TypeOK', NEW t \in Thread, Quiet(t)
  PROVE  Numbered' /\ Order' /\ Counts' /\ Closed'
<1>1. TypeOK /\ Numbered /\ Order /\ Counts /\ Closed
  BY DEF IInv
<1>2. UNCHANGED <<commands, queueOf, waits, list, enqueued, refs, complete,
                  handles, open>>
  BY DEF Quiet, commandVars
<1>3. \A q \in Queue : SamePart(q)
  BY DEF Quiet, StepOf, SamePart, Moved, Pending, Waiting, Over, Thread
<1>4. \A h \in Host, e \in Event : doing'[h] = e <=> doing[h] = e
  BY DEF Quiet, StepOf, Thread
<1>5. Numbered'
  BY <1>1, <1>2 DEF Numbered
<1>6. Order'
  BY <1>1, <1>2, <1>3, OrderKeeps DEF Order
<1>7. Live' = Live
  BY <1>2, <1>3 DEF Live, SamePart
<1>8. Counts' /\ Closed'
  BY <1>1, <1>2, <1>4, <1>7, CountsKeep, ClosedKeeps
<1> QED
  BY <1>5, <1>6, <1>8

-----------------------------------------------------------------------------
(***************************************************************************)
(* The steps that are quiet.                                               *)
(***************************************************************************)

\* A thread goes to a place of its own, and wakes others at most.
LEMMA PlacesKeep ==
  ASSUME Places, NEW t, pc' = [u \in Thread |-> pc'[u]],
         \A u \in Thread \ {t} : Moved(u),
         t \in Host => pc'[t] \in HostPlace,
         t \in Queue => pc'[t] \in QueuePlace
  PROVE  Places'
<1>1. ASSUME NEW h \in Host PROVE pc'[h] \in HostPlace
  <2>1. h \in Thread /\ h \notin Queue
    BY Apart DEF Thread
  <2> QED
    BY <2>1 DEF Places, Moved, HostPlace
<1>2. ASSUME NEW q \in Queue PROVE pc'[q] \in QueuePlace
  <2>1. q \in Thread
    BY DEF Thread
  <2> QED
    BY <2>1 DEF Places, Moved, QueuePlace, Busy, Pending, Waiting, Over
<1>3. \A u \in Thread : pc'[u] \in HostPlace \cup QueuePlace
  BY <1>1, <1>2 DEF Thread
<1>4. pc' \in [Thread -> HostPlace \cup QueuePlace]
  BY <1>3
<1> QED
  BY <1>1, <1>2, <1>4 DEF Places

\* Going somewhere, with or without a flush.
LEMMA Flushed ==
  ASSUME TypeOK, NEW t \in Thread, NEW place,
         t \in Host => place \in HostPlace,
         t \in Queue => place \in QueuePlace,
         \/ \E q \in Queue : FlushAnd(t, q, place)
         \/ Goto(t, place) /\ UNCHANGED listVars
  PROVE  /\ pc'[t] = place /\ Places'
         /\ \A u \in Thread \ {t} : Moved(u)
         /\ process' \in [Queue -> BOOLEAN]
         /\ UNCHANGED <<list, enqueued>>
<1>1. Places /\ process \in [Queue -> BOOLEAN]
  BY DEF TypeOK
<1>2. CASE Goto(t, place) /\ UNCHANGED listVars
  <2>1. /\ pc' = [u \in Thread |-> pc'[u]] /\ pc'[t] = place
        /\ \A u \in Thread \ {t} : Moved(u)
    BY <1>1, <1>2 DEF Places, Goto, Moved
  <2> QED
    BY <1>1, <1>2, <2>1, PlacesKeep DEF listVars
<1>3. ASSUME NEW q \in Queue, FlushAnd(t, q, place)
      PROVE  /\ pc'[t] = place /\ Places'
             /\ \A u \in Thread \ {t} : Moved(u)
             /\ process' \in [Queue -> BOOLEAN]
             /\ UNCHANGED <<list, enqueued>>
  <2>1. /\ pc' = [u \in Thread |-> pc'[u]] /\ pc'[t] = place
        /\ \A u \in Thread \ {t} : Moved(u)
    BY <1>1, <1>3 DEF FlushAnd, Moved
  <2>2. Signals(q) \in BOOLEAN
    BY <1>1 DEF Signals
  <2>3. process' \in [Queue -> BOOLEAN]
    BY <1>1, <1>3, <2>2 DEF FlushAnd
  <2> QED
    BY <1>1, <1>3, <2>1, <2>3, PlacesKeep DEF FlushAnd
<1> QED
  BY <1>2, <1>3

\* Everything follows for a quiet step from what its thread does.
LEMMA QuietStep ==
  ASSUME IInv, TypeOK', NEW t \in Thread, Quiet(t),
         t \in Host => HostAt(t)', t \in Queue => WaitAt(t)', TargetAt(t)'
  PROVE  IInv'
BY ThreadsKeep, QuietKeeps DEF IInv, Quiet

LEMMA FlushKeeps ==
  ASSUME IInv, NEW h \in Host, NEW q \in Queue, Flush(h, q)
  PROVE  IInv'
<1>1. TypeOK /\ Hosts /\ h \in Thread /\ h \notin Queue
  BY Apart DEF IInv, Thread
<1>2. /\ pc'[h] = "idle" /\ Places' /\ \A u \in Thread \ {h} : Moved(u)
      /\ process' \in [Queue -> BOOLEAN] /\ UNCHANGED <<list, enqueued>>
  BY <1>1, Flushed DEF Flush, HostPlace
<1>3. TypeOK'
  BY <1>1, <1>2 DEF TypeOK, Flush, commandVars
<1>4. Quiet(h)
  BY <1>1, <1>2 DEF Flush, Quiet, StepOf, commandVars, TypeOK
<1>5. HostAt(h)' /\ TargetAt(h)'
  BY <1>1, <1>2 DEF Flush, Hosts, HostAt, TargetAt, commandVars, Waiting
<1> QED
  BY <1>1, <1>3, <1>4, <1>5, QuietStep

LEMMA FlushEndKeeps ==
  ASSUME IInv, NEW h \in Host, FlushEnd(h)
  PROVE  IInv'
<1>1. TypeOK /\ Hosts /\ h \in Thread /\ h \notin Queue
  BY Apart DEF IInv, Thread
<1>2. doing[h] \in Queue
  BY <1>1 DEF FlushEnd, Hosts, HostAt
<1>3. /\ pc'[h] = "join" /\ Places' /\ \A u \in Thread \ {h} : Moved(u)
      /\ process' \in [Queue -> BOOLEAN] /\ UNCHANGED <<list, enqueued>>
  BY <1>1, <1>2, Flushed DEF FlushEnd, HostPlace
<1>4. TypeOK'
  BY <1>1, <1>3 DEF TypeOK, FlushEnd, commandVars
<1>5. Quiet(h)
  BY <1>1, <1>3 DEF FlushEnd, Quiet, StepOf, commandVars, TypeOK
<1>6. HostAt(h)' /\ TargetAt(h)'
  BY <1>1, <1>2, <1>3 DEF FlushEnd, Hosts, HostAt, TargetAt, commandVars, Waiting
<1> QED
  BY <1>1, <1>4, <1>5, <1>6, QuietStep

LEMMA WaitForEventsKeeps ==
  ASSUME IInv, NEW h \in Host, WaitForEvents(h)
  PROVE  IInv'
<1>1. TypeOK /\ Hosts /\ h \in Thread /\ h \notin Queue
  BY Apart DEF IInv, Thread
<1>2. PICK e \in handles : left' = [left EXCEPT ![h] = {e}]
  BY DEF WaitForEvents
<1>3. e \in Event
  BY <1>1 DEF TypeOK, Event
<1>4. /\ pc'[h] = "flush" /\ Places' /\ \A u \in Thread \ {h} : Moved(u)
      /\ process' \in [Queue -> BOOLEAN] /\ UNCHANGED <<list, enqueued>>
  BY <1>1, Flushed DEF WaitForEvents, HostPlace, Waiting
<1>5. TypeOK'
  BY <1>1, <1>2, <1>3, <1>4 DEF TypeOK, WaitForEvents, commandVars
<1>6. Quiet(h)
  BY <1>1, <1>2, <1>4 DEF WaitForEvents, Quiet, StepOf, commandVars, TypeOK
<1>7. doing'[h] = None /\ None \notin Queue /\ None \notin Command
  BY <1>1, Apart DEF WaitForEvents, Hosts, HostAt, Thread, Event
<1>8. left'[h] = {e} /\ handles' = handles
  BY <1>1, <1>2 DEF WaitForEvents, TypeOK
<1>9. HostAt(h)' /\ TargetAt(h)'
  BY <1>4, <1>7, <1>8 DEF HostAt, TargetAt, Waiting
<1> QED
  BY <1>1, <1>5, <1>6, <1>9, QuietStep

LEMMA IdleKeeps ==
  ASSUME IInv, NEW q \in Queue, Idle(q)
  PROVE  IInv'
<1>1. TypeOK /\ Waits /\ q \in Thread /\ q \notin Host
  BY Apart DEF IInv, Thread
<1>2. /\ pc'[q] = "asleep" /\ Places' /\ \A u \in Thread \ {q} : Moved(u)
      /\ process' \in [Queue -> BOOLEAN] /\ UNCHANGED <<list, enqueued>>
  BY <1>1, Flushed DEF Idle, QueuePlace
<1>3. TypeOK'
  BY <1>1, <1>2 DEF TypeOK, Idle, commandVars
<1>4. Quiet(q)
  BY <1>1, <1>2
     DEF Idle, Quiet, StepOf, SamePart, commandVars, TypeOK, Pending, Waiting, Over
<1>5. WaitAt(q)' /\ TargetAt(q)'
  BY <1>1, <1>2 DEF Idle, Waits, WaitAt, TargetAt, commandVars, Waiting, Pending
<1> QED
  BY <1>1, <1>3, <1>4, <1>5, QuietStep

\* No event of the list has been freed, so a queue thread does not skip the wait.
LEMMA VerifyKeeps ==
  ASSUME IInv, NEW q \in Queue, Verify(q)
  PROVE  IInv'
<1>1. TypeOK /\ Waits /\ q \in Thread /\ q \notin Host
  BY Apart DEF IInv, Thread
<1>2. Goto(q, "flush") /\ UNCHANGED left
  BY <1>1, WaitedForHeld DEF Verify
<1>3. /\ pc'[q] = "flush" /\ Places' /\ \A u \in Thread \ {q} : Moved(u)
      /\ process' \in [Queue -> BOOLEAN] /\ UNCHANGED <<list, enqueued>>
  BY <1>1, <1>2, Flushed DEF Verify, QueuePlace, Busy, Pending, Waiting
<1>4. TypeOK'
  BY <1>1, <1>2, <1>3 DEF TypeOK, Verify, commandVars
<1>5. Quiet(q)
  BY <1>1, <1>2, <1>3
     DEF Verify, Quiet, StepOf, SamePart, commandVars, TypeOK, Pending, Waiting, Over
<1>6. WaitAt(q)' /\ TargetAt(q)'
  BY <1>1, <1>2, <1>3
     DEF Verify, Waits, WaitAt, TargetAt, commandVars, Waiting, Pending
<1> QED
  BY <1>1, <1>4, <1>5, <1>6, QuietStep

\* A flush on the way to an event finds its queue.
LEMMA WaitFlushed ==
  ASSUME IInv, NEW t \in Thread, NEW e \in left[t], NEW place,
         t \in Host => place \in HostPlace,
         t \in Queue => place \in QueuePlace,
         WaitFlush(t, e, place)
  PROVE  /\ pc'[t] = place /\ Places'
         /\ \A u \in Thread \ {t} : Moved(u)
         /\ process' \in [Queue -> BOOLEAN]
         /\ UNCHANGED <<list, enqueued>>
<1>1. TypeOK
  BY DEF IInv
<1>2. \/ \E q \in Queue : FlushAnd(t, q, place)
      \/ Goto(t, place) /\ UNCHANGED listVars
  <2>1. e \in Event
    BY <1>1 DEF TypeOK
  <2>2. e \notin User => queueOf[e] \in Queue
    BY <1>1, <2>1, WaitedForOpen DEF TypeOK, Event
  <2> QED
    BY <2>2 DEF WaitFlush
<1> QED
  BY <1>1, <1>2, Flushed

\* Where a thread goes that waits for event e.
LEMMA PastPlace ==
  ASSUME IInv, NEW t \in Thread, NEW e \in left[t]
  PROVE  /\ t \in Host => /\ Past(t, e) \in {"flush", "release", "idle"}
                          /\ Past(t, e) = "release" => doing[t] \in Command
                          /\ Past(t, e) = "idle" => doing[t] = None
         /\ t \in Queue => Past(t, e) \in {"flush", "run"}
         /\ Past(t, e) # "flush" => left[t] = {e}
<1>1. TypeOK /\ Hosts /\ (t \in Host => t \notin Queue)
  BY Apart DEF IInv
<1>2. t \in Host => doing[t] \in Command \cup {None}
  BY <1>1 DEF TypeOK, Hosts, HostAt, Waiting
<1> QED
  BY <1>1, <1>2 DEF Past, AfterWait

\* A host thread is through with event e and goes on, or not yet.
LEMMA HostWaits ==
  ASSUME IInv, TypeOK', NEW h \in Host, NEW e \in left[h],
         doing'[h] = doing[h], commands' = commands, handles' = handles,
         \/ left'[h] = left[h] /\ pc'[h] \in Waiting
         \/ left'[h] = left[h] \ {e} /\ pc'[h] = Past(h, e)
  PROVE  HostAt(h)'
<1>1. HostAt(h) /\ pc[h] \in Waiting /\ h \in Thread
  BY DEF IInv, Hosts, HostAt, Thread
<1>2. /\ Past(h, e) \in {"flush", "release", "idle"}
      /\ Past(h, e) = "release" => doing[h] \in Command
      /\ Past(h, e) = "idle" => doing[h] = None
      /\ Past(h, e) # "flush" => left[h] = {e}
  BY <1>1, PastPlace
<1>3. /\ pc'[h] \notin {"end", "join"} /\ doing[h] \notin Queue
  BY <1>1, <1>2 DEF HostAt, Waiting
<1>4. left'[h] \subseteq left[h]
  OBVIOUS
<1>5. pc'[h] \notin Waiting => left'[h] = {}
  BY <1>2 DEF Waiting
<1>6. /\ pc'[h] = "idle" => doing'[h] = None
      /\ pc'[h] = "release" => doing'[h] \in Command
  BY <1>2 DEF Waiting
<1> QED
  BY <1>1, <1>3, <1>4, <1>5, <1>6 DEF HostAt

\* The same for a queue thread.
LEMMA QueueWaits ==
  ASSUME IInv, TypeOK', NEW q \in Queue, NEW e \in left[q],
         doing'[q] = doing[q], waits' = waits, complete' = complete,
         \/ left'[q] = left[q] /\ pc'[q] \in Waiting
         \/ /\ left'[q] = left[q] \ {e} /\ pc'[q] = Past(q, e)
            /\ e \in complete
  PROVE  /\ WaitAt(q)'
         /\ pc[q] \in Waiting => SamePart(q)
<1>1. WaitAt(q) /\ q \in Thread
  BY DEF IInv, Waits, Thread
<1>2. /\ Past(q, e) \in {"flush", "run"}
      /\ Past(q, e) # "flush" => left[q] = {e}
  BY <1>1, PastPlace
<1>3. pc[q] \in Pending
  BY <1>1 DEF WaitAt, Pending
<1>4. pc'[q] \notin Waiting \cup {"verify"} => left'[q] = {}
  BY <1>2 DEF Waiting
<1>5. waits[doing[q]] \subseteq complete \cup left'[q]
  BY <1>1, <1>3 DEF WaitAt
<1>6. left'[q] \subseteq waits[doing[q]]
  BY <1>1, <1>3 DEF WaitAt
<1>7. WaitAt(q)'
  BY <1>4, <1>5, <1>6 DEF WaitAt
<1>8. pc'[q] \in Pending
  BY <1>2 DEF Pending, Waiting
<1> QED
  BY <1>3, <1>7, <1>8 DEF SamePart, Pending, Waiting, Over

LEMMA StartWaitKeeps ==
  ASSUME IInv, NEW t \in Thread, StartWait(t)
  PROVE  IInv'
<1>1. TypeOK /\ Hosts /\ Waits
  BY DEF IInv
<1>2. PICK e \in left[t] :
        \/ /\ e \in complete /\ WaitFlush(t, e, Past(t, e))
           /\ left' = [left EXCEPT ![t] = @ \ {e}] /\ UNCHANGED target
        \/ /\ WaitFlush(t, e, "sleep")
           /\ target' = [target EXCEPT ![t] = e] /\ UNCHANGED left
  BY DEF StartWait
<1>3. e \in Event
  BY <1>1 DEF TypeOK
<1>4. \/ /\ e \in complete /\ left'[t] = left[t] \ {e}
         /\ left' = [left EXCEPT ![t] = @ \ {e}] /\ UNCHANGED target
         /\ pc'[t] = Past(t, e)
      \/ /\ pc'[t] = "sleep" /\ target'[t] = e /\ UNCHANGED left
         /\ target' = [target EXCEPT ![t] = e]
  <2>1. /\ t \in Host => Past(t, e) \in HostPlace
        /\ t \in Queue => Past(t, e) \in QueuePlace
    BY PastPlace DEF HostPlace, QueuePlace, Busy, Pending, Waiting
  <2>2. WaitFlush(t, e, Past(t, e)) => pc'[t] = Past(t, e)
    BY <2>1, WaitFlushed
  <2>3. WaitFlush(t, e, "sleep") => pc'[t] = "sleep"
    BY WaitFlushed DEF HostPlace, QueuePlace, Busy, Pending, Waiting
  <2> QED
    BY <1>1, <1>2, <2>2, <2>3 DEF TypeOK
<1>5. /\ Places' /\ \A u \in Thread \ {t} : Moved(u)
      /\ process' \in [Queue -> BOOLEAN] /\ UNCHANGED <<list, enqueued>>
  <2>1. /\ t \in Host => Past(t, e) \in HostPlace
        /\ t \in Queue => Past(t, e) \in QueuePlace
    BY PastPlace DEF HostPlace, QueuePlace, Busy, Pending, Waiting
  <2>2. CASE WaitFlush(t, e, Past(t, e))
    BY <2>1, <2>2, WaitFlushed
  <2>3. CASE WaitFlush(t, e, "sleep")
    BY <2>3, WaitFlushed DEF HostPlace, QueuePlace, Busy, Pending, Waiting
  <2> QED
    BY <1>2, <2>2, <2>3
<1>6. UNCHANGED <<commandVars, refs, complete, doing, handles, open>>
  BY DEF StartWait
<1>7. TypeOK'
  BY <1>1, <1>3, <1>4, <1>5, <1>6 DEF TypeOK, commandVars
<1>8. StepOf(t)
  BY <1>1, <1>4, <1>5, <1>6 DEF StepOf, commandVars, TypeOK
<1>9. t \in Host => HostAt(t)'
  BY <1>4, <1>6, <1>7, HostWaits DEF commandVars, Waiting
<1>10. t \in Queue => WaitAt(t)' /\ SamePart(t)
  BY <1>4, <1>6, <1>7, QueueWaits DEF commandVars, Waiting, StartWait
<1>11. TargetAt(t)'
  <2>1. Past(t, e) \notin {"sleep", "await"}
    BY PastPlace DEF Thread
  <2> QED
    BY <1>4, <2>1 DEF TargetAt
<1>12. Quiet(t)
  BY <1>5, <1>6, <1>8, <1>10 DEF Quiet
<1> QED
  BY <1>7, <1>9, <1>10, <1>11, <1>12, QuietStep

LEMMA EndWaitKeeps ==
  ASSUME IInv, NEW t \in Thread, EndWait(t)
  PROVE  IInv'
<1>1. TypeOK /\ Targets
  BY DEF IInv
<1> DEFINE e == target[t]
<1>2. e \in left[t] /\ e \in complete
  BY <1>1 DEF EndWait, Targets, TargetAt
<1>3. e \in Event
  BY <1>1, <1>2 DEF TypeOK
<1> HIDE DEF e
<1>4. /\ left' = [left EXCEPT ![t] = @ \ {e}] /\ left'[t] = left[t] \ {e}
      /\ target' = [target EXCEPT ![t] = None]
      /\ Goto(t, Past(t, e)) /\ UNCHANGED listVars
  BY <1>1 DEF EndWait, TypeOK, e
<1>5. /\ pc'[t] = Past(t, e)
      /\ Places' /\ \A u \in Thread \ {t} : Moved(u)
      /\ process' \in [Queue -> BOOLEAN] /\ UNCHANGED <<list, enqueued>>
  <2>1. /\ t \in Host => Past(t, e) \in HostPlace
        /\ t \in Queue => Past(t, e) \in QueuePlace
    BY <1>2, PastPlace DEF HostPlace, QueuePlace, Busy, Pending, Waiting
  <2> QED
    BY <1>1, <1>4, <2>1, Flushed
<1>6. UNCHANGED <<commandVars, refs, complete, doing, handles, open>>
  BY DEF EndWait
<1>7. TypeOK'
  BY <1>1, <1>4, <1>5, <1>6 DEF TypeOK, commandVars
<1>8. StepOf(t)
  BY <1>1, <1>4, <1>5, <1>6 DEF StepOf, commandVars, TypeOK
<1>9. t \in Host => HostAt(t)'
  BY <1>2, <1>4, <1>5, <1>6, <1>7, HostWaits DEF commandVars
<1>10. t \in Queue => WaitAt(t)' /\ SamePart(t)
  BY <1>2, <1>4, <1>5, <1>6, <1>7, QueueWaits DEF commandVars, Waiting, EndWait
<1>11. TargetAt(t)'
  <2>1. Past(t, e) \notin {"sleep", "await"}
    BY <1>2, PastPlace DEF Thread
  <2> QED
    BY <1>5, <2>1 DEF TargetAt
<1>12. Quiet(t)
  BY <1>5, <1>6, <1>8, <1>10 DEF Quiet
<1> QED
  BY <1>7, <1>9, <1>10, <1>11, <1>12, QuietStep

LEMMA JoinKeeps ==
  ASSUME IInv, NEW h \in Host, Join(h)
  PROVE  IInv'
<1>1. TypeOK /\ Hosts /\ h \in Thread /\ h \notin Queue
  BY Apart DEF IInv, Thread
<1>2. doing[h] \in Queue /\ left[h] = {}
  BY <1>1 DEF Join, Hosts, HostAt, Waiting
<1>3. /\ pc' = [u \in Thread |-> pc'[u]] /\ pc'[h] = "idle"
      /\ \A u \in Thread \ {h} : Moved(u)
  BY <1>1, <1>2 DEF Join, TypeOK, Places, Moved
<1>4. Places'
  BY <1>1, <1>3, PlacesKeep DEF TypeOK, HostPlace
<1>5. doing' = [doing EXCEPT ![h] = None]
  BY DEF Join
<1>6. TypeOK'
  BY <1>1, <1>4, <1>5 DEF TypeOK, Join, commandVars, listVars
<1>7. \A e \in Event : doing'[h] = e <=> doing[h] = e
  BY <1>1, <1>2, <1>5, Apart DEF TypeOK, Thread
<1>8. Quiet(h)
  BY <1>1, <1>3, <1>5, <1>7
     DEF Join, Quiet, StepOf, commandVars, listVars, TypeOK
<1>9. doing'[h] = None /\ None \notin Queue /\ None \notin Command
  BY <1>1, <1>5, Apart DEF TypeOK, Thread, Event
<1>10. HostAt(h)' /\ TargetAt(h)'
  BY <1>2, <1>3, <1>9 DEF Join, HostAt, TargetAt, Waiting
<1> QED
  BY <1>1, <1>6, <1>8, <1>10, QuietStep

-----------------------------------------------------------------------------
(***************************************************************************)
(* Events become complete.                                                 *)
(***************************************************************************)

LEMMA SetUserKeeps ==
  ASSUME IInv, NEW u \in User, SetUser(u)
  PROVE  IInv'
<1>1. /\ TypeOK /\ Numbered /\ Order /\ Counts /\ Closed
      /\ u \in Event /\ u \notin Command /\ None \notin Thread
  BY Apart DEF IInv, Event
<1>2. /\ UNCHANGED <<commandVars, listVars, refs, doing, left, target, handles,
                     open>>
      /\ complete' = complete \cup {u}
  BY DEF SetUser, Complete
<1>3. pc' = [t \in Thread |-> pc'[t]] /\ \A t \in Thread : Moved(t)
  BY <1>1 DEF SetUser, Complete, Moved
<1>4. Places'
  BY <1>1, <1>3, PlacesKeep DEF TypeOK, Thread
<1>5. TypeOK'
  BY <1>1, <1>2, <1>4 DEF TypeOK, commandVars, listVars
<1>6. StepOf(None)
  BY <1>1, <1>2, <1>3 DEF StepOf, commandVars, TypeOK
<1>7. Hosts' /\ Waits' /\ Targets'
  BY <1>1, <1>5, <1>6, ThreadsKeep DEF Thread
<1>8. \A q \in Queue : SamePart(q)
  <2>1. ASSUME NEW t \in Thread
        PROVE  \/ pc'[t] = pc[t]
               \/ pc[t] = "sleep" /\ pc'[t] = "await"
    BY DEF SetUser, Complete
  <2> QED
    BY <1>2, <2>1 DEF SamePart, Pending, Waiting, Over, Thread
<1>9. Order'
  <2>1. \A q \in Queue : \A j \in 1 .. Len(enqueued[q]) : enqueued[q][j] # u
    BY <1>1 DEF TypeOK
  <2> QED
    BY <1>1, <1>2, <1>8, <2>1, OrderKeeps DEF Order, listVars
<1>10. Live' = Live
  <2>1. \A c \in 1 .. commands : c # u
    BY <1>1, CommandQueueAssumption DEF TypeOK, Command
  <2> QED
    BY <1>2, <1>8, <2>1 DEF Live, SamePart, commandVars
<1>11. Counts' /\ Closed'
  BY <1>1, <1>2, <1>10, CountsKeep, ClosedKeeps DEF commandVars
<1>12. Numbered'
  BY <1>1, <1>2 DEF Numbered, commandVars, listVars
<1> QED
  BY <1>5, <1>7, <1>9, <1>11, <1>12 DEF IInv

\* The commands of a queue are different from each other and from those of
\* another queue.
LEMMA Distinct ==
  ASSUME IInv, NEW q \in Queue, NEW j \in 1 .. Len(enqueued[q])
  PROVE  /\ queueOf[enqueued[q][j]] = q
         /\ \A i \in 1 .. Len(enqueued[q]) :
              enqueued[q][i] = enqueued[q][j] => i = j
<1>1. TypeOK /\ Numbered
  BY DEF IInv
<1>2. \A i \in 1 .. Len(enqueued[q]) : enqueued[q][i] \in Int
  BY <1>1 DEF Numbered, TypeOK
<1>3. \A i, k \in 1 .. Len(enqueued[q]) :
        i < k => enqueued[q][i] < enqueued[q][k]
  BY <1>1 DEF Numbered
<1>4. ASSUME NEW i \in 1 .. Len(enqueued[q]), i # j
      PROVE  enqueued[q][i] # enqueued[q][j]
  <2>1. i < j \/ j < i
    BY <1>4
  <2> QED
    BY <1>2, <1>3, <2>1
<1> QED
  BY <1>1, <1>4 DEF Numbered

LEMMA RunKeeps ==
  ASSUME IInv, NEW q \in Queue, Run(q)
  PROVE  IInv'
<1> DEFINE c == doing[q]
<1>1. /\ TypeOK /\ Numbered /\ Order /\ Counts /\ Closed /\ Waits
      /\ q \in Thread /\ q \notin Host
  BY Apart DEF IInv, Thread
<1>2. /\ UNCHANGED <<commandVars, listVars, refs, doing, left, target, handles,
                     open>>
      /\ complete' = complete \cup {c}
  BY DEF Run, Complete
<1>3. /\ pc[q] = "run" /\ pc'[q] = "free" /\ pc' = [t \in Thread |-> pc'[t]]
      /\ \A t \in Thread \ {q} : \/ pc'[t] = pc[t]
                                 \/ pc[t] = "sleep" /\ pc'[t] = "await"
  BY <1>1 DEF Run, Complete, TypeOK, Places
<1>4. /\ c \in Command /\ c \in 1 .. commands /\ queueOf[c] = q
      /\ c \notin complete
  BY <1>3, InHand DEF Busy, Pending
<1> HIDE DEF c
<1>5. \A t \in Thread \ {q} : Moved(t)
  BY <1>3 DEF Moved
<1>6. Places'
  BY <1>1, <1>3, <1>5, PlacesKeep DEF TypeOK, QueuePlace, Busy
<1>7. TypeOK'
  BY <1>1, <1>2, <1>4, <1>6 DEF TypeOK, commandVars, listVars, Event
<1>8. StepOf(q)
  BY <1>1, <1>2, <1>5 DEF StepOf, commandVars, TypeOK
<1>9. WaitAt(q)' /\ TargetAt(q)'
  BY <1>1, <1>2, <1>3 DEF Waits, WaitAt, TargetAt, Waiting, Pending
<1>10. Hosts' /\ Waits' /\ Targets'
  BY <1>1, <1>7, <1>8, <1>9, ThreadsKeep
<1>11. \A r \in Queue \ {q} : SamePart(r)
  BY <1>2, <1>3 DEF SamePart, Pending, Waiting, Over, Thread
<1>12. Order'
  <2>1. ASSUME NEW r \in Queue \ {q} PROVE OrderAt(r)'
    <3>1. \A j \in 1 .. Len(enqueued[r]) : enqueued[r][j] # c
      BY <1>4, Distinct
    <3> QED
      BY <1>1, <1>2, <1>11, <3>1, OrderKeeps DEF Order, listVars
  <2>2. OrderAt(q)'
    <3>1. OrderAt(q) /\ pc[q] \in Busy /\ pc'[q] \in Busy
      BY <1>1, <1>3 DEF Order, Busy, Pending
    <3>2. Gone(q)' = Gone(q) /\ (Ending(q)' <=> Ending(q))
      BY <1>2, <1>3 DEF Gone, Ending, Over, listVars
    <3>3. /\ Gone(q) \in 1 .. Len(enqueued[q])
          /\ c = enqueued[q][Gone(q)]
      BY <1>1, <3>1 DEF OrderAt, c, TypeOK
    <3>4. \A j \in 1 .. Len(enqueued[q]) :
            enqueued[q][j] \in complete' <=>
              enqueued[q][j] \in complete \/ j = Gone(q)
      BY <1>2, <3>3, Distinct
    <3>5. \A j \in 1 .. Len(enqueued[q]) :
            enqueued[q][j] \in complete' <=> j < Gone(q) \/ j = Gone(q)
      BY <1>3, <3>1, <3>4 DEF OrderAt, Pending
    <3>6. pc'[q] \notin Pending /\ pc'[q] \notin Over
      BY <1>3 DEF Pending, Waiting, Over
    <3> QED
      BY <1>2, <3>1, <3>2, <3>5, <3>6 DEF OrderAt, listVars
  <2> QED
    BY <2>1, <2>2 DEF Order
<1>13. Live' = Live
  <2>1. \A r \in Queue \ {q} : doing'[r] = doing[r] /\ (pc'[r] = "free" <=> pc[r] = "free")
    BY <1>11 DEF SamePart
  <2>2. doing'[q] = c /\ doing[q] = c
    BY <1>2 DEF c
  <2> QED
    BY <1>2, <1>3, <1>4, <2>1, <2>2 DEF Live, commandVars
<1>14. Counts' /\ Closed'
  BY <1>1, <1>2, <1>13, CountsKeep, ClosedKeeps DEF commandVars
<1>15. Numbered'
  BY <1>1, <1>2, <1>4 DEF Numbered, commandVars, listVars
<1> QED
  BY <1>7, <1>10, <1>12, <1>14, <1>15 DEF IInv

-----------------------------------------------------------------------------
(***************************************************************************)
(* Commands are taken from a list.                                         *)
(***************************************************************************)

\* The END command is the last one that is taken; what is taken otherwise is the
\* first command that is not gone.
LEMMA FirstOfList ==
  ASSUME IInv, NEW q \in Queue, pc[q] = "dequeue", list[q] # <<>>
  PROVE  /\ list[q][1] = End =>
              Ending(q) /\ Len(list[q]) = 1 /\ Gone(q) = Len(enqueued[q])
         /\ list[q][1] # End =>
              /\ Gone(q) < Len(enqueued[q])
              /\ list[q][1] = enqueued[q][Gone(q) + 1]
              /\ Ending(q) => Len(list[q]) > 1
<1>1. TypeOK /\ OrderAt(q)
  BY DEF IInv, Order
<1> DEFINE n == Len(enqueued[q])
           l == Len(list[q])
           g == Gone(q)
<1>2. n \in Nat /\ l \in Nat /\ l > 0 /\ g \in 0 .. n
  BY <1>1 DEF TypeOK, OrderAt
<1>3. IF Ending(q) THEN g = n - l + 1 ELSE g = n - l
  BY <1>2 DEF Gone
<1>4. g < n => list[q][1] = enqueued[q][g + 1]
  BY <1>1, <1>2 DEF OrderAt
<1>5. g < n => list[q][1] # End
  <2>1. g < n => enqueued[q][g + 1] \in Command
    BY <1>1, <1>2 DEF TypeOK
  <2> QED
    BY <1>4, <2>1, Apart
<1>6. Ending(q) => list[q][l] = End
  BY <1>1 DEF OrderAt
<1> HIDE DEF n, l, g
<1>7. CASE g < n
  <2>1. Ending(q) => l > 1
    BY <1>2, <1>3, <1>7
  <2> QED
    BY <1>4, <1>5, <1>7, <2>1 DEF n, l, g
<1>8. CASE g = n
  <2>1. Ending(q) /\ l = 1
    BY <1>2, <1>3, <1>8
  <2> QED
    BY <1>6, <1>8, <2>1 DEF n, l, g
<1> QED
  BY <1>2, <1>7, <1>8

LEMMA DequeueKeeps ==
  ASSUME IInv, NEW q \in Queue, Dequeue(q)
  PROVE  IInv'
<1> DEFINE c == list[q][1]
<1>1. /\ TypeOK /\ Numbered /\ Order /\ Counts /\ Closed /\ Waits
      /\ q \in Thread /\ q \notin Host
  BY Apart DEF IInv, Thread
<1>2. /\ UNCHANGED <<enqueued, commandVars, refs, complete, target, handles,
                     open>>
      /\ pc[q] = "dequeue" /\ list[q] # <<>> /\ left[q] = {}
  BY <1>1 DEF Dequeue, Waits, WaitAt, Waiting
<1>3. /\ list' = [list EXCEPT ![q] = list'[q]]
      /\ list'[q] \in Seq(Command \cup {End}) /\ Len(list'[q]) = Len(list[q]) - 1
      /\ \A j \in 1 .. Len(list[q]) - 1 : list'[q][j] = list[q][j + 1]
  <2>1. list' = [list EXCEPT ![q] =
                  SubSeq(list[q], 1, 0) \o SubSeq(list[q], 2, Len(list[q]))]
    BY DEF Dequeue, Taken
  <2>2. list'[q] = SubSeq(list[q], 1, 0) \o SubSeq(list[q], 2, Len(list[q]))
    BY <1>1, <2>1 DEF TypeOK
  <2>3. list[q] \in Seq(Command \cup {End})
    BY <1>1 DEF TypeOK
  <2> QED
    BY <1>2, <2>1, <2>2, <2>3, Rest
<1>4. \/ /\ c = End /\ Goto(q, "ended") /\ UNCHANGED <<doing, left>>
      \/ /\ c # End /\ doing' = [doing EXCEPT ![q] = c]
         /\ left' = [left EXCEPT ![q] = waits[c]]
         /\ Goto(q, IF waits[c] = {} THEN "run" ELSE "verify")
  BY DEF Dequeue, Taken
<1>5. /\ c = End =>
           Ending(q) /\ Len(list[q]) = 1 /\ Gone(q) = Len(enqueued[q])
      /\ c # End =>
           /\ Gone(q) < Len(enqueued[q]) /\ c = enqueued[q][Gone(q) + 1]
           /\ Ending(q) => Len(list[q]) > 1
  BY <1>2, FirstOfList
<1>6. c # End => c \in Command
  <2>1. Len(list[q]) > 0
    BY <1>1, <1>2 DEF TypeOK
  <2> QED
    BY <1>1, <2>1 DEF TypeOK
<1> HIDE DEF c
<1>7. /\ pc' = [t \in Thread |-> pc'[t]]
      /\ \A t \in Thread \ {q} : pc'[t] = pc[t]
      /\ c = End => pc'[q] = "ended"
      /\ c # End => pc'[q] \in {"run", "verify"}
  BY <1>1, <1>4 DEF Goto, TypeOK, Places
<1>8. \A t \in Thread \ {q} : Moved(t)
  BY <1>7 DEF Moved
<1>9. Places'
  <2>1. pc'[q] \in QueuePlace
    BY <1>7 DEF QueuePlace, Busy, Pending, Over
  <2> QED
    BY <1>1, <1>7, <1>8, <2>1, PlacesKeep DEF TypeOK
<1>10. TypeOK'
  <2>1. list' \in [Queue -> Seq(Command \cup {End})]
    BY <1>1, <1>3 DEF TypeOK
  <2>2. doing' \in [Thread -> Command \cup Queue \cup {None}]
    BY <1>1, <1>4, <1>6 DEF TypeOK
  <2>3. left' \in [Thread -> SUBSET Event]
    <3>1. c # End => waits[c] \in SUBSET Event
      BY <1>1, <1>6 DEF TypeOK
    <3> QED
      BY <1>1, <1>4, <3>1 DEF TypeOK
  <2>4. process' \in [Queue -> BOOLEAN]
    <3>1. MoreToProcess(q) \in BOOLEAN
      BY <1>1 DEF MoreToProcess, TypeOK
    <3> QED
      BY <1>1, <3>1 DEF Dequeue, TypeOK
  <2> QED
    BY <1>1, <1>2, <1>9, <2>1, <2>2, <2>3, <2>4 DEF TypeOK, commandVars
<1>11. StepOf(q)
  BY <1>1, <1>2, <1>4, <1>8 DEF StepOf, commandVars, TypeOK
<1>12. WaitAt(q)' /\ TargetAt(q)'
  <2>1. CASE c = End
    BY <1>2, <1>4, <1>7, <2>1 DEF WaitAt, TargetAt, Waiting, Pending
  <2>2. CASE c # End
    <3>1. doing'[q] = c /\ left'[q] = waits[c] /\ waits' = waits
      BY <1>1, <1>2, <1>4, <2>2 DEF TypeOK, commandVars
    <3>2. pc'[q] = IF waits[c] = {} THEN "run" ELSE "verify"
      BY <1>1, <1>4, <2>2 DEF Goto, TypeOK, Places
    <3> QED
      BY <3>1, <3>2 DEF WaitAt, TargetAt, Waiting
  <2> QED
    BY <2>1, <2>2
<1>13. Hosts' /\ Waits' /\ Targets'
  BY <1>1, <1>10, <1>11, <1>12, ThreadsKeep
<1>14. \A r \in Queue \ {q} : SamePart(r)
  BY <1>1, <1>4, <1>7 DEF SamePart, Thread, TypeOK
<1>15. Order'
  <2>1. ASSUME NEW r \in Queue \ {q} PROVE OrderAt(r)'
    BY <1>1, <1>2, <1>3, <1>14, OrderKeeps DEF Order, TypeOK
  <2>2. OrderAt(q)'
    <3> DEFINE n == Len(enqueued[q])
               l == Len(list[q])
               g == Gone(q)
    <3>1. OrderAt(q)
      BY <1>1 DEF Order
    <3>2. n \in Nat /\ l \in Nat /\ g \in 0 .. n
      BY <1>1, <3>1 DEF OrderAt, TypeOK
    <3>3. /\ Ending(q) => g = n - l + 1
          /\ ~Ending(q) => g = n - l
      <4>1. g = (n - l) + IF Ending(q) THEN 1 ELSE 0
        BY DEF Gone
      <4> HIDE DEF n, l, g
      <4> QED
        BY <3>2, <4>1
    <3>4. enqueued'[q] = enqueued[q] /\ Len(list'[q]) = l - 1
          /\ complete' = complete
      BY <1>2, <1>3
    <3>5. CASE c = End
      <4>1. /\ Ending(q) /\ l = 1 /\ g = n
        BY <1>5, <3>5
      <4>2. list'[q] = <<>>
        BY <1>3, <4>1
      <4>3. pc'[q] = "ended" /\ q \notin open'
        BY <1>2, <1>7, <3>5, <4>1 DEF Ending
      <4>4. ~Ending(q)' /\ Gone(q)' = n
        BY <3>2, <3>4, <4>1, <4>3 DEF Ending, Gone, Over
      <4>5. \A j \in 1 .. n :
              enqueued[q][j] \in complete <=> j < n \/ j = n
        BY <1>2, <3>1, <4>1 DEF OrderAt, Pending, Waiting
      <4>6. pc'[q] \notin Busy /\ pc'[q] \notin Pending
        BY <4>3 DEF Busy, Pending, Waiting
      <4> QED
        BY <3>2, <3>4, <4>2, <4>3, <4>4, <4>5, <4>6 DEF OrderAt
    <3>6. CASE c # End
      <4>1. /\ g < n /\ c = enqueued[q][g + 1]
            /\ Ending(q) => l > 1
        BY <1>5, <3>6
      <4>2. /\ pc'[q] \in Busy /\ pc'[q] \in Pending /\ pc'[q] \notin Over
            /\ doing'[q] = c
        BY <1>1, <1>4, <1>7, <3>6 DEF Busy, Pending, Waiting, Over, TypeOK
      <4>3. Ending(q)' <=> Ending(q)
        BY <1>2, <4>2 DEF Ending, Over
      <4>4. Gone(q)' = g + 1
        <5>1. Gone(q)' = (n - (l - 1)) + IF Ending(q) THEN 1 ELSE 0
          BY <3>4, <4>3 DEF Gone
        <5> HIDE DEF n, l, g
        <5> QED
          BY <3>2, <3>3, <5>1
      <4>5. \A j \in 1 .. n - (g + 1) :
              list'[q][j] = enqueued[q][(g + 1) + j]
        <5> TAKE j \in 1 .. n - (g + 1)
        <5>1. j + 1 \in 1 .. n - g /\ g + (j + 1) = (g + 1) + j
          BY <3>2
        <5>2. list[q][j + 1] = enqueued[q][g + (j + 1)]
          BY <3>1, <5>1 DEF OrderAt
        <5>3. j \in 1 .. l - 1
          <6> HIDE DEF n, l, g
          <6> QED
            BY <3>2, <3>3
        <5> QED
          BY <1>3, <5>1, <5>2, <5>3
      <4>6. Ending(q)' => list'[q][Len(list'[q])] = End
        <5> SUFFICES ASSUME Ending(q) PROVE list'[q][l - 1] = End
          BY <3>4, <4>3
        <5>1. l - 1 \in 1 .. l - 1 /\ (l - 1) + 1 = l
          BY <3>2, <4>1
        <5> QED
          BY <1>3, <3>1, <5>1 DEF OrderAt
      <4>7. \A j \in 1 .. n :
              enqueued[q][j] \in complete <=> j < g \/ j = g
        BY <1>2, <3>1 DEF OrderAt, Pending, Waiting
      <4>8. \A j \in 1 .. n : j < g \/ j = g <=> j < g + 1
        BY <3>2
      <4> HIDE DEF n, g
      <4> QED
        BY <3>2, <3>4, <4>1, <4>2, <4>4, <4>5, <4>6, <4>7, <4>8, SMTT(30)
           DEF OrderAt, n
    <3> QED
      BY <3>5, <3>6
  <2> QED
    BY <2>1, <2>2 DEF Order
<1>16. Live' = Live
  <2>1. \A r \in Queue \ {q} : doing'[r] = doing[r] /\ (pc'[r] = "free" <=> pc[r] = "free")
    BY <1>14 DEF SamePart
  <2>2. pc[q] # "free" /\ pc'[q] # "free"
    BY <1>2, <1>7
  <2> QED
    BY <1>2, <2>1, <2>2 DEF Live, commandVars
<1>17. \A h \in Host : doing'[h] = doing[h]
  BY <1>1, <1>4 DEF Thread, TypeOK
<1>18. Counts' /\ Closed'
  BY <1>1, <1>2, <1>16, <1>17, CountsKeep, ClosedKeeps DEF commandVars
<1>19. Numbered'
  BY <1>1, <1>2 DEF Numbered, commandVars
<1> QED
  BY <1>10, <1>13, <1>15, <1>18, <1>19 DEF IInv

-----------------------------------------------------------------------------
(***************************************************************************)
(* References are released.                                                *)
(***************************************************************************)

LEMMA ReleaseLastKeeps ==
  ASSUME IInv, NEW h \in Host, ReleaseLast(h)
  PROVE  IInv'
<1> DEFINE c == doing[h]
<1>1. /\ TypeOK /\ Numbered /\ Order /\ Counts /\ Closed /\ Hosts
      /\ h \in Thread /\ h \notin Queue
  BY Apart DEF IInv, Thread
<1>2. /\ pc[h] = "release" /\ c \in Command /\ left[h] = {}
      /\ UNCHANGED <<commandVars, listVars, complete, left, target, handles,
                     open>>
      /\ refs' = [refs EXCEPT ![c] = @ - 1]
      /\ doing' = [doing EXCEPT ![h] = None] /\ doing'[h] = None
  BY <1>1 DEF ReleaseLast, Hosts, HostAt, Waiting, TypeOK
<1> HIDE DEF c
<1>3. /\ pc' = [t \in Thread |-> pc'[t]] /\ pc'[h] = "idle"
      /\ \A t \in Thread \ {h} : pc'[t] = pc[t]
  BY <1>1 DEF ReleaseLast, Goto, TypeOK, Places
<1>4. \A t \in Thread \ {h} : Moved(t)
  BY <1>3 DEF Moved
<1>5. Places'
  BY <1>1, <1>3, <1>4, PlacesKeep DEF TypeOK, HostPlace
<1>6. TypeOK'
  BY <1>1, <1>2, <1>5 DEF TypeOK, commandVars, listVars, Event
<1>7. StepOf(h)
  BY <1>1, <1>2, <1>4 DEF StepOf, commandVars, TypeOK
<1>8. HostAt(h)' /\ TargetAt(h)'
  <2>1. None \notin Queue /\ None \notin Command
    BY Apart DEF Thread, Event
  <2> QED
    BY <1>2, <1>3, <2>1 DEF HostAt, TargetAt, Waiting
<1>9. Hosts' /\ Waits' /\ Targets'
  BY <1>1, <1>6, <1>7, <1>8, ThreadsKeep
<1>10. \A q \in Queue : SamePart(q)
  BY <1>1, <1>2, <1>3 DEF SamePart, Thread, TypeOK
<1>11. Order'
  BY <1>1, <1>2, <1>10, OrderKeeps DEF Order, listVars
<1>12. Live' = Live
  BY <1>2, <1>10 DEF Live, SamePart, commandVars
<1>13. Counts'
  <2> SUFFICES ASSUME NEW e \in Event PROVE refs'[e] = Cardinality(Holders(e)')
    BY DEF Counts
  <2>1. \A g \in Host \ {h} : doing'[g] = doing[g]
    BY <1>1, <1>2 DEF Thread, TypeOK
  <2>2. IsFiniteSet(Holders(e)) /\ Cardinality(Holders(e)) \in Nat
    BY <1>1, HoldersFinite, FS_CardinalityType
  <2>3. e # None
    BY Apart
  <2>4. CASE e = c
    <3>1. Holders(e)' = Holders(e) \ {h}
      <4>1. h # None /\ h \notin Live
        BY <1>1, CommandQueueAssumption DEF Live, TypeOK
      <4> QED
        BY <1>2, <1>12, <2>1, <2>3, <2>4, <4>1 DEF Holders, commandVars
    <3>2. h \in Holders(e)
      BY <2>4 DEF Holders, c
    <3>3. Cardinality(Holders(e)') = Cardinality(Holders(e)) - 1
      BY <2>2, <3>1, <3>2, FS_RemoveElement
    <3>4. refs'[e] = refs[e] - 1
      BY <1>1, <1>2, <2>4 DEF TypeOK
    <3> QED
      BY <1>1, <3>3, <3>4 DEF Counts
  <2>5. CASE e # c
    <3>1. Holders(e)' = Holders(e)
      BY <1>2, <1>12, <2>1, <2>3, <2>5 DEF Holders, commandVars, c
    <3>2. refs'[e] = refs[e]
      BY <1>1, <1>2, <2>5 DEF TypeOK
    <3> QED
      BY <1>1, <3>1, <3>2 DEF Counts
  <2> QED
    BY <2>4, <2>5
<1>14. Closed'
  <2>1. \A g \in Host, e \in Event : doing'[g] = e => doing[g] = e
    BY <1>1, <1>2, Apart DEF Thread, TypeOK
  <2> QED
    BY <1>1, <1>2, <2>1, ClosedKeeps DEF commandVars
<1>15. Numbered'
  BY <1>1, <1>2 DEF Numbered, commandVars, listVars
<1> QED
  BY <1>6, <1>9, <1>11, <1>13, <1>14, <1>15 DEF IInv

LEMMA ReleaseKeeps ==
  ASSUME IInv, NEW h \in Host, NEW c \in Command, Release(h, c)
  PROVE  IInv'
<1>1. /\ TypeOK /\ Numbered /\ Order /\ Counts /\ Closed /\ Hosts /\ Waits
      /\ Targets
  BY DEF IInv
<1>2. /\ UNCHANGED <<pc, commandVars, listVars, complete, doing, left, target,
                     open>>
      /\ c \in handles /\ \A g \in Host : c \notin left[g]
      /\ handles' = handles \ {c}
      /\ refs' = [refs EXCEPT ![c] = @ - 1]
  BY DEF Release
<1>3. TypeOK'
  BY <1>1, <1>2 DEF TypeOK, Places, commandVars, listVars, Event
<1>4. StepOf(None)
  <2>1. /\ commands <= commands' /\ complete \subseteq complete'
        /\ waits' = waits /\ \A t \in Thread : Moved(t)
    BY <1>1, <1>2 DEF commandVars, TypeOK, Moved
  <2> QED
    BY <1>2, <2>1 DEF StepOf
<1>5. Hosts' /\ Waits' /\ Targets'
  BY <1>3, <1>4, ThreadsKeep, Apart DEF Thread
<1>6. \A q \in Queue : SamePart(q)
  BY <1>2 DEF SamePart
<1>7. Order'
  BY <1>1, <1>2, <1>6, OrderKeeps DEF Order, listVars
<1>8. Live' = Live
  BY <1>2 DEF Live, commandVars
<1>9. Counts'
  <2> SUFFICES ASSUME NEW e \in Event PROVE refs'[e] = Cardinality(Holders(e)')
    BY DEF Counts
  <2>1. IsFiniteSet(Holders(e)) /\ Cardinality(Holders(e)) \in Nat
    BY <1>1, HoldersFinite, FS_CardinalityType
  <2>2. CASE e = c
    <3>1. Holders(e)' = Holders(e) \ {None}
      <4>1. None \notin Host /\ None \notin Live /\ c \notin User
        BY <1>1, Apart, CommandQueueAssumption DEF Live, TypeOK, Thread
      <4> QED
        BY <1>2, <1>8, <2>2, <4>1 DEF Holders, commandVars
    <3>2. None \in Holders(e)
      BY <1>2, <2>2 DEF Holders
    <3>3. Cardinality(Holders(e)') = Cardinality(Holders(e)) - 1
      BY <2>1, <3>1, <3>2, FS_RemoveElement
    <3>4. refs'[e] = refs[e] - 1
      BY <1>1, <1>2, <2>2 DEF TypeOK
    <3> QED
      BY <1>1, <3>3, <3>4 DEF Counts
  <2>3. CASE e # c
    <3>1. Holders(e)' = Holders(e)
      BY <1>2, <1>8, <2>3 DEF Holders, commandVars
    <3>2. refs'[e] = refs[e]
      BY <1>1, <1>2, <2>3 DEF TypeOK
    <3> QED
      BY <1>1, <3>1, <3>2 DEF Counts
  <2> QED
    BY <2>2, <2>3
<1>10. Closed'
  BY <1>1, <1>2, ClosedKeeps DEF commandVars
<1>11. Numbered'
  BY <1>1, <1>2 DEF Numbered, commandVars, listVars
<1> QED
  BY <1>3, <1>5, <1>7, <1>9, <1>10, <1>11 DEF IInv

LEMMA FreeCommandKeeps ==
  ASSUME IInv, NEW q \in Queue, FreeCommand(q)
  PROVE  IInv'
<1> DEFINE c == doing[q]
<1>1. /\ TypeOK /\ Numbered /\ Order /\ Counts /\ Closed /\ Waits
      /\ q \in Thread /\ q \notin Host
  BY Apart DEF IInv, Thread
<1>2. /\ UNCHANGED <<commandVars, listVars, complete, left, target, handles,
                     open>>
      /\ refs' = [e \in Event |-> refs[e] - IF e \in waits[c] \cup {c} THEN 1 ELSE 0]
      /\ doing' = [doing EXCEPT ![q] = None]
      /\ pc[q] = "free" /\ left[q] = {}
  BY <1>1 DEF FreeCommand, Waits, WaitAt, Waiting
<1>3. /\ pc' = [t \in Thread |-> pc'[t]] /\ pc'[q] = "dequeue"
      /\ \A t \in Thread \ {q} : pc'[t] = pc[t]
  BY <1>1 DEF FreeCommand, Goto, TypeOK, Places
<1>4. /\ c \in Command /\ c \in Live /\ queueOf[c] = q /\ c \in complete
  BY <1>2, InHand DEF Busy
<1>5. \A t \in Thread \ {q} : Moved(t) /\ doing'[t] = doing[t]
  BY <1>1, <1>2, <1>3 DEF Moved, TypeOK
<1>6. Places'
  BY <1>1, <1>3, <1>5, PlacesKeep DEF TypeOK, QueuePlace
<1>7. TypeOK'
  <2>1. refs' \in [Event -> Int]
    BY <1>1, <1>2 DEF TypeOK
  <2> QED
    BY <1>1, <1>2, <1>6, <2>1 DEF TypeOK, commandVars, listVars
<1>8. StepOf(q)
  BY <1>1, <1>2, <1>5 DEF StepOf, commandVars, TypeOK
<1>9. WaitAt(q)' /\ TargetAt(q)'
  BY <1>2, <1>3 DEF WaitAt, TargetAt, Waiting, Pending
<1>10. Hosts' /\ Waits' /\ Targets'
  BY <1>1, <1>7, <1>8, <1>9, ThreadsKeep
<1>11. \A r \in Queue \ {q} : SamePart(r)
  BY <1>3, <1>5 DEF SamePart, Thread
<1>12. Order'
  <2>1. ASSUME NEW r \in Queue \ {q} PROVE OrderAt(r)'
    BY <1>1, <1>2, <1>11, OrderKeeps DEF Order, listVars
  <2>2. OrderAt(q)'
    <3>1. OrderAt(q)
      BY <1>1 DEF Order
    <3>2. Ending(q)' <=> Ending(q)
      BY <1>2, <1>3 DEF Ending, Over
    <3>3. Gone(q)' = Gone(q)
      BY <1>2, <3>2 DEF Gone, listVars
    <3>4. /\ pc[q] \notin Pending /\ pc'[q] \notin Pending
          /\ pc'[q] \notin Busy /\ pc'[q] \notin Over
      BY <1>2, <1>3 DEF Busy, Pending, Waiting, Over
    <3> QED
      BY <1>2, <3>1, <3>2, <3>3, <3>4 DEF OrderAt, listVars
  <2> QED
    BY <2>1, <2>2 DEF Order
<1>13. Live' = Live \ {c}
  <2>1. \A r \in Queue \ {q} :
          /\ doing'[r] = doing[r] /\ (pc'[r] = "free" <=> pc[r] = "free")
          /\ pc[r] = "free" => doing[r] # c
    <3>1. \A r \in Queue : pc[r] = "free" => queueOf[doing[r]] = r
      BY InHand DEF Busy
    <3> QED
      BY <1>4, <1>11, <3>1 DEF SamePart
  <2>2. pc'[q] # "free" /\ pc[q] = "free"
    BY <1>2, <1>3
  <2>3. ASSUME NEW d PROVE d \in Live' <=> d \in Live \ {c}
    <3>1. (\E r \in Queue : pc'[r] = "free" /\ doing'[r] = d)
            <=> d # c /\ \E r \in Queue : pc[r] = "free" /\ doing[r] = d
      BY <2>1, <2>2
    <3> QED
      BY <1>2, <1>4, <3>1 DEF Live, commandVars
  <2> QED
    BY <2>3
<1>14. Counts'
  <2> SUFFICES ASSUME NEW e \in Event PROVE refs'[e] = Cardinality(Holders(e)')
    BY DEF Counts
  <2>1. IsFiniteSet(Holders(e)) /\ Cardinality(Holders(e)) \in Nat
    BY <1>1, HoldersFinite, FS_CardinalityType
  <2>2. \A h \in Host : doing'[h] = doing[h] /\ h # c
    BY <1>1, <1>4, <1>5, Apart DEF Thread, Event
  <2>3. c # None
    BY <1>4, Apart DEF Event
  <2>4. Holders(e)' = Holders(e) \ {c}
    BY <1>2, <1>13, <2>2, <2>3 DEF Holders, commandVars
  <2>5. c \in Holders(e) <=> e \in waits[c] \cup {c}
    BY <1>4, <2>2, <2>3 DEF Holders
  <2>6. CASE e \in waits[c] \cup {c}
    <3>1. Cardinality(Holders(e)') = Cardinality(Holders(e)) - 1
      BY <2>1, <2>4, <2>5, <2>6, FS_RemoveElement
    <3>2. refs'[e] = refs[e] - 1
      BY <1>2, <2>6
    <3> QED
      BY <1>1, <3>1, <3>2 DEF Counts
  <2>7. CASE e \notin waits[c] \cup {c}
    <3>1. Holders(e)' = Holders(e)
      BY <2>4, <2>5, <2>7
    <3>2. refs'[e] = refs[e]
      BY <1>1, <1>2, <2>7 DEF TypeOK
    <3> QED
      BY <1>1, <3>1, <3>2 DEF Counts
  <2> QED
    BY <2>6, <2>7
<1>15. Closed'
  BY <1>1, <1>2, <1>5, ClosedKeeps DEF commandVars, Thread
<1>16. Numbered'
  BY <1>1, <1>2 DEF Numbered, commandVars, listVars
<1> QED
  BY <1>7, <1>10, <1>12, <1>14, <1>15, <1>16 DEF IInv

-----------------------------------------------------------------------------
(***************************************************************************)
(* Commands are added to a list.                                           *)
(***************************************************************************)

LEMMA ReleaseQueueKeeps ==
  ASSUME IInv, NEW h \in Host, NEW q \in Queue, ReleaseQueue(h, q)
  PROVE  IInv'
<1>1. /\ TypeOK /\ Numbered /\ Order /\ Counts /\ Closed /\ Hosts
      /\ h \in Thread /\ h \notin Queue
  BY Apart DEF IInv, Thread
<1>2. /\ UNCHANGED <<process, enqueued, commandVars, refs, complete, left,
                     target, handles>>
      /\ pc[h] = "idle" /\ q \in open /\ InUse(q) = {}
      /\ open' = open \ {q} /\ left[h] = {} /\ doing[h] = None
      /\ doing' = [doing EXCEPT ![h] = q] /\ doing'[h] = q
      /\ list' = [list EXCEPT ![q] = Append(@, End)]
  BY <1>1 DEF ReleaseQueue, Hosts, HostAt, Waiting, TypeOK
<1>3. /\ pc' = [t \in Thread |-> pc'[t]] /\ pc'[h] = "end"
      /\ \A t \in Thread \ {h} : pc'[t] = pc[t]
  BY <1>1 DEF ReleaseQueue, Goto, TypeOK, Places
<1>4. \A t \in Thread \ {h} : Moved(t) /\ doing'[t] = doing[t]
  BY <1>1, <1>2, <1>3 DEF Moved, TypeOK
<1>5. Places'
  BY <1>1, <1>3, <1>4, PlacesKeep DEF TypeOK, HostPlace
<1>6. /\ list'[q] \in Seq(Command \cup {End}) /\ Len(list'[q]) = Len(list[q]) + 1
      /\ \A j \in 1 .. Len(list[q]) : list'[q][j] = list[q][j]
      /\ list'[q][Len(list[q]) + 1] = End
      /\ \A r \in Queue \ {q} : list'[r] = list[r]
  <2>1. list[q] \in Seq(Command \cup {End}) /\ list'[q] = Append(list[q], End)
    BY <1>1, <1>2 DEF TypeOK
  <2>2. \A r \in Queue \ {q} : list'[r] = list[r]
    BY <1>1, <1>2 DEF TypeOK
  <2> QED
    BY <2>1, <2>2, Appended
<1>7. TypeOK'
  <2>1. list' \in [Queue -> Seq(Command \cup {End})]
    BY <1>1, <1>2, <1>6 DEF TypeOK
  <2> QED
    BY <1>1, <1>2, <1>5, <2>1 DEF TypeOK, commandVars
<1>8. StepOf(h)
  BY <1>1, <1>2, <1>4 DEF StepOf, commandVars, TypeOK
<1>9. q \notin Command /\ q # None /\ q \notin Event
  BY Apart DEF Thread, Event
<1>10. HostAt(h)' /\ TargetAt(h)'
  BY <1>2, <1>3, <1>9 DEF HostAt, TargetAt, Waiting
<1>11. Hosts' /\ Waits' /\ Targets'
  BY <1>1, <1>7, <1>8, <1>10, ThreadsKeep
<1>12. \A r \in Queue : SamePart(r) /\ pc'[r] = pc[r]
  BY <1>1, <1>3, <1>4 DEF SamePart, Thread
<1>13. Order'
  <2>1. ASSUME NEW r \in Queue \ {q} PROVE OrderAt(r)'
    BY <1>1, <1>2, <1>6, <1>12, OrderKeeps DEF Order
  <2>2. OrderAt(q)'
    <3> DEFINE n == Len(enqueued[q])
               l == Len(list[q])
               g == Gone(q)
    <3>1. OrderAt(q)
      BY <1>1 DEF Order
    <3>2. /\ ~Ending(q) /\ Ending(q)' /\ pc[q] \notin Over
      BY <1>2, <1>12, <3>1 DEF Ending, OrderAt
    <3>3. n \in Nat /\ l \in Nat /\ g = n - l
      BY <1>1, <3>2 DEF TypeOK, Gone
    <3>4. enqueued'[q] = enqueued[q] /\ complete' = complete /\ pc'[q] = pc[q]
          /\ doing'[q] = doing[q]
      BY <1>2, <1>12 DEF SamePart
    <3>5. Gone(q)' = g
      <4>1. Gone(q)' = (n - (l + 1)) + 1
        BY <1>6, <3>2, <3>4 DEF Gone
      <4> HIDE DEF n, l, g
      <4> QED
        BY <3>3, <4>1
    <3>6. \A j \in 1 .. n - g : list'[q][j] = enqueued[q][g + j]
      <4> TAKE j \in 1 .. n - g
      <4>1. list[q][j] = enqueued[q][g + j]
        BY <3>1 DEF OrderAt
      <4>2. j \in 1 .. l
        BY <3>3
      <4> QED
        BY <1>6, <4>1, <4>2
    <3>7. list'[q][Len(list'[q])] = End
      BY <1>6
    <3> HIDE DEF n, g
    <3> QED
      BY <3>1, <3>2, <3>4, <3>5, <3>6, <3>7 DEF OrderAt, n, g
  <2> QED
    BY <2>1, <2>2 DEF Order
<1>14. Live' = Live
  BY <1>2, <1>12 DEF Live, SamePart, commandVars
<1>15. \A g \in Host, e \in Event : doing'[g] = e <=> doing[g] = e
  BY <1>2, <1>4, <1>9, Apart DEF Thread
<1>16. Counts' /\ Closed'
  BY <1>1, <1>2, <1>14, <1>15, CountsKeep, ClosedKeeps DEF commandVars
<1>17. Numbered'
  BY <1>1, <1>2 DEF Numbered, commandVars
<1> QED
  BY <1>7, <1>11, <1>13, <1>16, <1>17 DEF IInv

\* A command is enqueued, and the program or clFinish gets a reference.
LEMMA EnqueueKeeps ==
  ASSUME IInv, NEW h \in Host, NEW q \in Queue,
         NEW W \in SUBSET (handles \cup User), Enqueue(h, q, W),
         Places', doing' \in [Thread -> Command \cup Queue \cup {None}],
         left' \in [Thread -> SUBSET Event],
         \A t \in Thread \ {h} :
           pc'[t] = pc[t] /\ doing'[t] = doing[t] /\ left'[t] = left[t],
         HostAt(h)', TargetAt(h)',
         \/ handles' = handles \cup {commands'} /\ doing'[h] = doing[h]
         \/ handles' = handles /\ doing'[h] = commands'
  PROVE  IInv'
<1> DEFINE c == commands + 1
<1>1. /\ TypeOK /\ Numbered /\ Order /\ Counts /\ Closed /\ Hosts
      /\ h \in Thread /\ h \notin Queue
  BY Apart DEF IInv, Thread
<1>2. /\ pc[h] = "idle" /\ q \in open /\ commands < MaxCommands
      /\ commands' = c
      /\ queueOf' = [queueOf EXCEPT ![c] = q]
      /\ waits' = [waits EXCEPT ![c] = W]
      /\ refs' = [Retained(W) EXCEPT ![c] = 2]
      /\ list' = [list EXCEPT ![q] = Append(@, c)]
      /\ enqueued' = [enqueued EXCEPT ![q] = Append(@, c)]
      /\ UNCHANGED <<process, complete, target, open>>
      /\ doing[h] = None
  BY <1>1 DEF Enqueue, Hosts, HostAt
<1>3. /\ c \in Command /\ c \in Nat /\ c > commands /\ commands \in Nat
      /\ c \notin User /\ c \notin Thread /\ c # None /\ c \in Event
      /\ 1 .. c = (1 .. commands) \cup {c} /\ c \notin 1 .. commands
  <2>1. c \in Command /\ c \in Nat /\ c > commands /\ commands \in Nat
    BY <1>1, <1>2, CommandQueueAssumption DEF TypeOK, Command
  <2>2. 1 .. c = (1 .. commands) \cup {c} /\ c \notin 1 .. commands
    BY <2>1
  <2> QED
    BY <2>1, <2>2, Apart DEF Event
<1>4. c \notin complete /\ c \notin handles /\ c \notin W /\ W \subseteq Event
  BY <1>1, <1>3 DEF Numbered, TypeOK, Event
<1> HIDE DEF c
<1>5. /\ list'[q] \in Seq(Command \cup {End}) /\ Len(list'[q]) = Len(list[q]) + 1
      /\ \A j \in 1 .. Len(list[q]) : list'[q][j] = list[q][j]
      /\ list'[q][Len(list[q]) + 1] = c
      /\ \A r \in Queue \ {q} : list'[r] = list[r]
  <2>1. list[q] \in Seq(Command \cup {End}) /\ list'[q] = Append(list[q], c)
    BY <1>1, <1>2 DEF TypeOK
  <2>2. \A r \in Queue \ {q} : list'[r] = list[r]
    BY <1>1, <1>2 DEF TypeOK
  <2> QED
    BY <1>3, <2>1, <2>2, Appended
<1>6. /\ enqueued'[q] \in Seq(Command) /\ Len(enqueued'[q]) = Len(enqueued[q]) + 1
      /\ \A j \in 1 .. Len(enqueued[q]) : enqueued'[q][j] = enqueued[q][j]
      /\ enqueued'[q][Len(enqueued[q]) + 1] = c
      /\ \A r \in Queue \ {q} : enqueued'[r] = enqueued[r]
  <2>1. enqueued[q] \in Seq(Command) /\ enqueued'[q] = Append(enqueued[q], c)
    BY <1>1, <1>2 DEF TypeOK
  <2>2. \A r \in Queue \ {q} : enqueued'[r] = enqueued[r]
    BY <1>1, <1>2 DEF TypeOK
  <2> QED
    BY <1>3, <2>1, <2>2, Appended
<1>7. /\ waits'[c] = W /\ \A d \in Command \ {c} : waits'[d] = waits[d]
      /\ queueOf'[c] = q /\ \A d \in Command \ {c} : queueOf'[d] = queueOf[d]
  BY <1>1, <1>2, <1>3 DEF TypeOK
<1>8. TypeOK'
  <2>1. list' \in [Queue -> Seq(Command \cup {End})]
    BY <1>1, <1>2, <1>5 DEF TypeOK
  <2>2. enqueued' \in [Queue -> Seq(Command)]
    BY <1>1, <1>2, <1>6 DEF TypeOK
  <2>3. refs' \in [Event -> Int]
    <3>1. \A e \in Event : refs[e] + (IF e \in W THEN 1 ELSE 0) \in Int
      BY <1>1 DEF TypeOK
    <3>2. Retained(W) \in [Event -> Int]
      BY <3>1 DEF Retained
    <3>3. \A x \in Int, f \in [Event -> Int] :
            [f EXCEPT ![c] = x] \in [Event -> Int]
      OBVIOUS
    <3>4. 2 \in Int
      OBVIOUS
    <3> QED
      BY <1>2, <3>2, <3>3, <3>4
  <2>4. /\ queueOf' \in [Command -> Queue \cup {None}]
        /\ waits' \in [Command -> SUBSET Event]
    BY <1>1, <1>2, <1>4 DEF TypeOK
  <2>5. commands' \in 0 .. MaxCommands
    BY <1>1, <1>2, <1>3, CommandQueueAssumption DEF c
  <2>6. handles' \subseteq Command
    BY <1>1, <1>2, <1>3 DEF TypeOK
  <2> QED
    BY <1>1, <1>2, <2>1, <2>2, <2>3, <2>4, <2>5, <2>6 DEF TypeOK
<1>9. StepOf(h)
  <2>1. \A d \in 1 .. commands : d \in Command /\ d # c
    BY <1>1, <1>3, CommandQueueAssumption DEF TypeOK, Command
  <2>2. \A t \in Thread : target'[t] = target[t]
    BY <1>2
  <2>3. commands <= commands' /\ complete \subseteq complete'
    BY <1>2, <1>3
  <2>4. handles \subseteq handles'
    OBVIOUS
  <2> QED
    BY <1>7, <2>1, <2>2, <2>3, <2>4 DEF StepOf, Moved
<1>10. Hosts' /\ Waits' /\ Targets'
  BY <1>1, <1>8, <1>9, ThreadsKeep
<1>11. \A r \in Queue : SamePart(r) /\ pc'[r] = pc[r] /\ doing'[r] = doing[r]
  BY <1>1 DEF SamePart, Thread
<1>12. Numbered'
  <2>1. handles' \subseteq 1 .. commands'
    BY <1>1, <1>2, <1>3 DEF Numbered
  <2>2. complete' \subseteq (1 .. commands') \cup User
    BY <1>1, <1>2, <1>3 DEF Numbered
  <2>3. ASSUME NEW d \in Command
        PROVE  /\ d <= commands' => queueOf'[d] \in Queue
               /\ d > commands' => waits'[d] = {}
               /\ \A e \in waits'[d] : e \in User \/ e < d
    <3>1. CASE d = c
      <4>1. d <= commands' /\ ~(d > commands')
        BY <1>2, <1>3, <3>1
      <4>2. \A e \in W : e \in User \/ e \in 1 .. commands
        BY <1>1 DEF Numbered
      <4> QED
        BY <1>3, <1>7, <3>1, <4>1, <4>2
    <3>2. CASE d # c
      <4>1. d \in Nat /\ (d <= commands' => d <= commands)
            /\ (d > commands' => d > commands)
        BY <1>2, <1>3, <3>2, Apart DEF c
      <4> QED
        BY <1>1, <1>7, <3>2, <4>1 DEF Numbered
    <3> QED
      BY <3>1, <3>2
  <2>4. ASSUME NEW r \in Queue, NEW i \in 1 .. Len(enqueued'[r])
        PROVE  /\ enqueued'[r][i] \in 1 .. commands'
               /\ queueOf'[enqueued'[r][i]] = r
               /\ \A j \in 1 .. Len(enqueued'[r]) :
                    i < j => enqueued'[r][i] < enqueued'[r][j]
    <3>1. \A k \in 1 .. Len(enqueued[r]) :
            /\ enqueued[r][k] \in 1 .. commands /\ queueOf[enqueued[r][k]] = r
            /\ enqueued[r][k] \in Command
            /\ \A j \in 1 .. Len(enqueued[r]) :
                 k < j => enqueued[r][k] < enqueued[r][j]
      BY <1>1 DEF Numbered, TypeOK
    <3>2. \A k \in 1 .. Len(enqueued[r]) :
            /\ enqueued[r][k] \in 1 .. commands' /\ enqueued[r][k] < c
            /\ queueOf'[enqueued[r][k]] = r
      BY <1>2, <1>3, <1>7, <3>1
    <3>3. CASE r # q
      BY <1>6, <3>1, <3>2, <3>3
    <3>4. CASE r = q
      <4>1. Len(enqueued[q]) \in Nat
        BY <1>1 DEF TypeOK
      <4>2. CASE i = Len(enqueued[q]) + 1
        BY <1>2, <1>3, <1>6, <1>7, <3>4, <4>1, <4>2
      <4>3. CASE i \in 1 .. Len(enqueued[q])
        <5>1. \A j \in 1 .. Len(enqueued'[q]) :
                i < j => enqueued'[q][i] < enqueued'[q][j]
          <6> TAKE j \in 1 .. Len(enqueued'[q])
          <6>1. CASE j \in 1 .. Len(enqueued[q])
            BY <1>6, <3>1, <3>4, <4>3, <6>1
          <6>2. CASE j = Len(enqueued[q]) + 1
            BY <1>6, <3>2, <3>4, <4>3, <6>2
          <6> QED
            BY <1>6, <4>1, <6>1, <6>2
        <5> QED
          BY <1>6, <3>2, <3>4, <4>3, <5>1
      <4> QED
        BY <1>6, <3>4, <4>1, <4>2, <4>3
    <3> QED
      BY <3>3, <3>4
  <2> QED
    BY <2>1, <2>2, <2>3, <2>4 DEF Numbered
<1>13. Order'
  <2>1. ASSUME NEW r \in Queue \ {q} PROVE OrderAt(r)'
    BY <1>1, <1>2, <1>5, <1>6, <1>11, OrderKeeps DEF Order
  <2>2. OrderAt(q)'
    <3> DEFINE n == Len(enqueued[q])
               l == Len(list[q])
               g == Gone(q)
    <3>1. OrderAt(q)
      BY <1>1 DEF Order
    <3>2. /\ ~Ending(q) /\ ~Ending(q)' /\ pc[q] \notin Over
      BY <1>2, <1>11, <3>1 DEF Ending, OrderAt
    <3>3. n \in Nat /\ l \in Nat /\ g = n - l /\ g \in 0 .. n
      BY <1>1, <3>1, <3>2 DEF TypeOK, Gone, OrderAt
    <3>4. Len(enqueued'[q]) = n + 1 /\ Len(list'[q]) = l + 1
      BY <1>5, <1>6
    <3>5. Gone(q)' = g
      <4>1. Gone(q)' = ((n + 1) - (l + 1)) + 0
        BY <3>2, <3>4 DEF Gone
      <4> HIDE DEF n, l, g
      <4> QED
        BY <3>3, <4>1
    <3> HIDE DEF n, l, g
    <3>6. \A j \in 1 .. (n + 1) - g : list'[q][j] = enqueued'[q][g + j]
      <4> TAKE j \in 1 .. (n + 1) - g
      <4>1. CASE j \in 1 .. n - g
        <5>1. list[q][j] = enqueued[q][g + j]
          BY <3>1, <4>1 DEF OrderAt, n, g
        <5>2. j \in 1 .. l /\ g + j \in 1 .. n
          BY <3>3, <4>1
        <5> QED
          BY <1>5, <1>6, <5>1, <5>2 DEF n, l
      <4>2. CASE j = (n + 1) - g
        <5>1. j = l + 1 /\ g + j = n + 1
          BY <3>3, <4>2
        <5> QED
          BY <1>5, <1>6, <5>1 DEF n, l
      <4> QED
        BY <3>3, <4>1, <4>2
    <3>7. pc[q] \in Busy => g > 0 /\ doing[q] = enqueued'[q][g]
      <4> SUFFICES ASSUME pc[q] \in Busy
                   PROVE  g > 0 /\ doing[q] = enqueued'[q][g]
        OBVIOUS
      <4>1. g > 0 /\ doing[q] = enqueued[q][g]
        BY <3>1 DEF OrderAt, g
      <4>2. g \in 1 .. n
        BY <3>3, <4>1
      <4> QED
        BY <1>6, <4>1, <4>2 DEF n
    <3>8. \A j \in 1 .. n + 1 :
            enqueued'[q][j] \in complete <=>
              j < g \/ (j = g /\ pc[q] \notin Pending)
      <4> TAKE j \in 1 .. n + 1
      <4>1. CASE j \in 1 .. n
        BY <1>6, <3>1, <4>1 DEF OrderAt, n, g
      <4>2. CASE j = n + 1
        <5>1. ~(j < g) /\ j # g
          BY <3>3, <4>2
        <5> QED
          BY <1>4, <1>6, <4>2, <5>1 DEF n
      <4> QED
        BY <3>3, <4>1, <4>2
    <3>9. g \in 0 .. n + 1
      BY <3>3
    <3>10. /\ pc'[q] = pc[q] /\ doing'[q] = doing[q] /\ complete' = complete
      BY <1>2, <1>11
    <3> QED
      BY <3>2, <3>4, <3>5, <3>6, <3>7, <3>8, <3>9, <3>10 DEF OrderAt
  <2> QED
    BY <2>1, <2>2 DEF Order
<1>14. Live' = Live \cup {c}
  <2>1. \A r \in Queue : pc'[r] = pc[r] /\ doing'[r] = doing[r]
    BY <1>11
  <2> QED
    BY <1>2, <1>3, <1>4, <2>1 DEF Live
<1>15. Live \subseteq Command /\ c \notin Live
  BY <1>1, <1>3, CommandQueueAssumption DEF Live, TypeOK, Command
<1>16. Counts'
  <2> SUFFICES ASSUME NEW e \in Event PROVE refs'[e] = Cardinality(Holders(e)')
    BY DEF Counts
  <2>1. IsFiniteSet(Holders(e)) /\ Cardinality(Holders(e)) \in Nat
    BY <1>1, HoldersFinite, FS_CardinalityType
  <2>2. \A g \in Host \ {h} : doing'[g] = doing[g]
    BY DEF Thread
  <2>3. e # None
    BY Apart
  <2>4. CASE e # c
    <3>1. \A g \in Host : doing'[g] = e <=> doing[g] = e
      BY <1>2, <2>2, <2>3, <2>4
    <3>2. \A d \in Live : waits'[d] = waits[d]
      BY <1>7, <1>15
    <3>3. CASE e \in W
      <4>1. Holders(e)' = Holders(e) \cup {c}
        BY <1>2, <1>7, <1>14, <2>4, <3>1, <3>2, <3>3 DEF Holders
      <4>2. c \notin Holders(e)
        BY <1>3, <1>15 DEF Holders, Thread
      <4>3. Cardinality(Holders(e)') = Cardinality(Holders(e)) + 1
        BY <2>1, <4>1, <4>2, FS_AddElement
      <4>4. refs'[e] = refs[e] + 1
        BY <1>2, <2>4, <3>3 DEF Retained
      <4> QED
        BY <1>1, <4>3, <4>4 DEF Counts
    <3>4. CASE e \notin W
      <4>1. Holders(e)' = Holders(e)
        BY <1>2, <1>7, <1>14, <2>4, <3>1, <3>2, <3>4 DEF Holders
      <4>2. refs'[e] = refs[e]
        BY <1>1, <1>2, <2>4, <3>4 DEF Retained, TypeOK
      <4> QED
        BY <1>1, <4>1, <4>2 DEF Counts
    <3> QED
      BY <3>3, <3>4
  <2>5. CASE e = c
    <3>1. \A d \in Live : c \notin waits'[d] /\ d # c
      <4>1. \A d \in Live : d \in 1 .. commands
        BY DEF Live
      <4>2. \A d \in Live : c \notin waits[d]
        BY <1>1, <1>3, <1>15, <4>1 DEF Numbered
      <4> QED
        BY <1>7, <1>15, <4>2
    <3>2. \A g \in Host \ {h} : doing'[g] # c
      BY <1>1, <1>3, <2>2 DEF Hosts, HostAt
    <3>3. h # c /\ None # c /\ h # None
      BY <1>1, <1>3, Apart
    <3>4. refs'[e] = 2
      BY <1>2, <2>5 DEF Retained
    <3>5. {d \in Live' : e \in waits'[d] \/ e = d} = {c}
      BY <1>4, <1>7, <1>14, <2>5, <3>1
    <3>6. Holders(e)' = {c, None} \/ Holders(e)' = {c, h}
      <4>1. CASE handles' = handles \cup {commands'} /\ doing'[h] = doing[h]
        <5>1. {g \in Host : doing'[g] = e} = {}
          BY <1>2, <2>3, <2>5, <3>2, <4>1
        <5>2. {n \in {None} : e \in handles' \cup User} = {None}
          BY <1>2, <2>5, <4>1
        <5> QED
          BY <3>5, <5>1, <5>2 DEF Holders
      <4>2. CASE handles' = handles /\ doing'[h] = commands'
        <5>1. {g \in Host : doing'[g] = e} = {h}
          BY <1>2, <2>5, <3>2, <4>2
        <5>2. {n \in {None} : e \in handles' \cup User} = {}
          BY <1>3, <1>4, <2>5, <4>2
        <5> QED
          BY <3>5, <5>1, <5>2 DEF Holders
      <4> QED
        BY <4>1, <4>2
    <3>7. ASSUME NEW x, x # c PROVE Cardinality({c, x}) = 2
      <4>1. {c, x} = {c} \cup {x}
        OBVIOUS
      <4>2. IsFiniteSet({c}) /\ Cardinality({c}) = 1
        BY FS_Singleton
      <4>3. x \notin {c}
        BY <3>7
      <4>4. Cardinality({c} \cup {x}) = Cardinality({c}) + 1
        BY <4>2, <4>3, FS_AddElement
      <4>5. Cardinality({c, x}) = 1 + 1
        BY <4>1, <4>2, <4>4
      <4>6. 1 + 1 = 2
        OBVIOUS
      <4> QED
        BY <4>5, <4>6
    <3> QED
      BY <3>3, <3>4, <3>6, <3>7
  <2> QED
    BY <2>4, <2>5
<1>17. Closed'
  <2> SUFFICES ASSUME NEW r \in Queue, r \notin open, NEW e \in InUse(r)'
               PROVE  FALSE
    BY <1>2 DEF Closed
  <2>1. e \in Command /\ queueOf'[e] = r /\ r # q
    BY <1>2 DEF InUse
  <2>2. e # c /\ queueOf[e] = r
    BY <1>7, <2>1
  <2>3. e \in handles' => e \in handles
    BY <1>2, <2>2
  <2>4. e # None /\ e \notin User
    BY <2>1, Apart DEF Event
  <2>5. \A g \in Host : doing'[g] = e => doing[g] = e
    BY <1>2, <2>2, <2>4 DEF Thread
  <2>6. ASSUME NEW d \in 1 .. c, e \in waits'[d], d \notin complete
        PROVE  e \in handles \/ (d \in 1 .. commands /\ e \in waits[d])
    <3>1. CASE d = c
      BY <1>7, <2>4, <2>6, <3>1
    <3>2. CASE d # c
      <4>1. d \in 1 .. commands /\ d \in Command
        BY <1>1, <1>3, <3>2, CommandQueueAssumption DEF TypeOK, Command
      <4> QED
        BY <1>7, <2>6, <3>2, <4>1
    <3> QED
      BY <3>1, <3>2
  <2>7. e \in InUse(r)
    BY <1>2, <2>1, <2>2, <2>3, <2>5, <2>6 DEF InUse
  <2> QED
    BY <1>1, <2>7 DEF Closed
<1> QED
  BY <1>8, <1>10, <1>12, <1>13, <1>16, <1>17 DEF IInv

LEMMA EnqueueCommandKeeps ==
  ASSUME IInv, NEW h \in Host, NEW q \in Queue, EnqueueCommand(h, q)
  PROVE  IInv'
<1>1. PICK W \in SUBSET (handles \cup User) : Enqueue(h, q, W)
  BY DEF EnqueueCommand
<1>2. /\ TypeOK /\ HostAt(h) /\ UNCHANGED <<pc, doing, left>>
      /\ handles' = handles \cup {commands'} /\ pc[h] = "idle"
  BY <1>1 DEF IInv, Hosts, EnqueueCommand, Enqueue
<1>3. /\ Places' /\ doing' \in [Thread -> Command \cup Queue \cup {None}]
      /\ left' \in [Thread -> SUBSET Event]
  BY <1>2 DEF TypeOK, Places
<1>4. doing[h] = None /\ left[h] = {} /\ None \notin Command
  BY <1>2, Apart DEF HostAt, Waiting, Event
<1>5. HostAt(h)' /\ TargetAt(h)'
  BY <1>2, <1>4 DEF HostAt, TargetAt
<1> QED
  BY <1>1, <1>2, <1>3, <1>5, EnqueueKeeps

LEMMA FinishKeeps ==
  ASSUME IInv, NEW h \in Host, NEW q \in Queue, Finish(h, q)
  PROVE  IInv'
<1>1. /\ TypeOK /\ h \in Thread /\ h \notin Queue
  BY Apart DEF IInv, Thread
<1>2. /\ Enqueue(h, q, {}) /\ handles' = handles
      /\ doing' = [doing EXCEPT ![h] = commands']
      /\ left' = [left EXCEPT ![h] = {commands'}]
      /\ pc' = [pc EXCEPT ![h] = "flush"]
  BY DEF Finish, Goto
<1>3. commands' \in Command /\ commands' \in Int
  BY <1>1, <1>2, CommandQueueAssumption DEF Enqueue, TypeOK, Command
<1>4. /\ Places' /\ doing' \in [Thread -> Command \cup Queue \cup {None}]
      /\ left' \in [Thread -> SUBSET Event]
  BY <1>1, <1>2, <1>3 DEF TypeOK, Places, Event, HostPlace, Waiting
<1>5. /\ pc'[h] = "flush" /\ doing'[h] = commands' /\ left'[h] = {commands'}
  BY <1>1, <1>2 DEF TypeOK, Places
<1>6. commands' \notin Queue /\ commands' # None /\ commands' <= commands'
  BY <1>3, Apart DEF Thread, Event
<1>7. HostAt(h)' /\ TargetAt(h)'
  BY <1>5, <1>6 DEF HostAt, TargetAt, Waiting
<1>8. \A t \in Thread \ {h} :
        pc'[t] = pc[t] /\ doing'[t] = doing[t] /\ left'[t] = left[t]
  BY <1>1, <1>2 DEF TypeOK, Places
<1> QED
  BY <1>2, <1>4, <1>5, <1>7, <1>8, EnqueueKeeps

-----------------------------------------------------------------------------
(***************************************************************************)
(* The invariant.                                                          *)
(***************************************************************************)

LEMMA InitIInv == Init => IInv
<1> SUFFICES ASSUME Init PROVE IInv
  OBVIOUS
<1>1. Places
  <2>1. \A h \in Host : h \notin Queue /\ h \in Thread
    BY Apart DEF Thread
  <2> QED
    BY <2>1 DEF Init, Places, HostPlace, QueuePlace, Thread
<1>2. 0 \in 0 .. MaxCommands
  BY CommandQueueAssumption
<1>3. TypeOK
  BY <1>1, <1>2 DEF Init, TypeOK
<1>4. \A q \in Queue : /\ enqueued[q] = <<>> /\ list[q] = <<>> /\ q \in open
                       /\ pc[q] = "dequeue" /\ left[q] = {}
  BY DEF Init, Thread
<1>5. \A h \in Host : pc[h] = "idle" /\ left[h] = {} /\ doing[h] = None
  BY Apart DEF Init, Thread
<1>6. Numbered
  <2>1. \A c \in Command : ~(c <= 0) /\ c > 0
    BY DEF Command
  <2> QED
    BY <1>4, <2>1 DEF Init, Numbered
<1>7. Hosts
  BY <1>5, Apart DEF Hosts, HostAt, Waiting, Thread, Event
<1>8. Targets
  BY <1>4, <1>5 DEF Targets, TargetAt, Thread
<1>9. Order
  <2> SUFFICES ASSUME NEW q \in Queue PROVE OrderAt(q)
    BY DEF Order
  <2>1. Len(enqueued[q]) = 0 /\ Len(list[q]) = 0 /\ ~Ending(q)
    BY <1>4 DEF Ending
  <2>2. Gone(q) = 0
    BY <2>1 DEF Gone
  <2> QED
    BY <1>4, <2>1, <2>2 DEF OrderAt, Busy, Pending, Waiting, Over
<1>10. Waits
  BY <1>4 DEF Waits, WaitAt, Pending, Waiting
<1>11. Counts
  <2> SUFFICES ASSUME NEW e \in Event PROVE refs[e] = Cardinality(Holders(e))
    BY DEF Counts
  <2>1. Live = {} /\ e # None /\ handles = {}
    BY Apart DEF Live, Init
  <2>2. Holders(e) = IF e \in User THEN {None} ELSE {}
    BY <1>5, <2>1 DEF Holders
  <2>3. refs[e] = IF e \in User THEN 1 ELSE 0
    BY DEF Init
  <2> QED
    BY <2>2, <2>3, FS_Singleton, FS_EmptySet
<1>12. Closed
  BY <1>4 DEF Closed
<1> QED
  BY <1>3, <1>6, <1>7, <1>8, <1>9, <1>10, <1>11, <1>12 DEF IInv

LEMMA Unchanged ==
  ASSUME IInv, UNCHANGED vars
  PROVE  IInv'
<1>1. /\ UNCHANGED <<pc, commands, queueOf, waits, list, process, enqueued>>
      /\ UNCHANGED <<refs, complete, doing, left, target, handles, open>>
  BY DEF vars, commandVars, listVars
<1>2. TypeOK' /\ Hosts' /\ Waits' /\ Targets'
  BY <1>1 DEF IInv, TypeOK, Places, Hosts, HostAt, Waits, WaitAt, Targets, TargetAt
<1>3. \A q \in Queue : SamePart(q)
  BY <1>1 DEF SamePart
<1>4. Order'
  BY <1>1, <1>3, OrderKeeps DEF IInv, Order
<1>5. Live' = Live
  BY <1>1 DEF Live
<1>6. Counts' /\ Closed'
  BY <1>1, <1>5, CountsKeep, ClosedKeeps DEF IInv
<1>7. Numbered'
  BY <1>1 DEF IInv, Numbered
<1> QED
  BY <1>2, <1>4, <1>6, <1>7 DEF IInv

LEMMA StepIInv == IInv /\ [Next]_vars => IInv'
<1> SUFFICES ASSUME IInv, [Next]_vars PROVE IInv'
  OBVIOUS
<1>1. CASE UNCHANGED vars
  BY <1>1, Unchanged
<1>2. ASSUME NEW h \in Host, Call(h) PROVE IInv'
  BY <1>2, EnqueueCommandKeeps, FinishKeeps, FlushKeeps, ReleaseQueueKeeps,
     WaitForEventsKeeps, ReleaseKeeps DEF Call
<1>3. ASSUME NEW h \in Host, HostStep(h) PROVE IInv'
  BY <1>3, ReleaseLastKeeps, FlushEndKeeps, JoinKeeps, StartWaitKeeps, EndWaitKeeps
     DEF HostStep, WaitStep, Thread
<1>4. ASSUME NEW q \in Queue, QueueStep(q) PROVE IInv'
  BY <1>4, IdleKeeps, DequeueKeeps, VerifyKeeps, RunKeeps, FreeCommandKeeps,
     StartWaitKeeps, EndWaitKeeps DEF QueueStep, WaitStep, Thread
<1>5. ASSUME NEW u \in User, SetUser(u) PROVE IInv'
  BY <1>5, SetUserKeeps
<1> QED
  BY <1>1, <1>2, <1>3, <1>4, <1>5 DEF Next

\* Who holds references, how far each queue is and what its thread has seen of the
\* events it waits for are always as said above.
THEOREM Invariant == Spec => []IInv
BY InitIInv, StepIInv, PTL DEF Spec

\* No thread, command or queue uses an event or a queue after its last reference
\* was released (opencl_event_free, opencl_command_queue_free).
THEOREM NothingIsFreedInUse == Spec => []NothingFreedInUse
BY Invariant, NothingFreed, PTL

-----------------------------------------------------------------------------
(***************************************************************************)
(* CommandQueue implements InOrder.                                        *)
(***************************************************************************)

LEMMA InitInOrder == Init => Abstract!Init
BY Apart DEF Init, Abstract!Init, Thread

\* Steps that change nothing that InOrder knows of.
LEMMA Stutters ==
  ASSUME UNCHANGED <<enqueued, waits, complete>>,
         \A h \in Host : left'[h] = left[h]
  PROVE  UNCHANGED Abstract!vars
BY DEF Abstract!vars

LEMMA EnqueueInOrder ==
  ASSUME IInv, NEW h \in Host, NEW q \in Queue,
         NEW W \in SUBSET (handles \cup User), Enqueue(h, q, W)
  PROVE  /\ commands' \in Command /\ W \in SUBSET Abstract!Event
         /\ Abstract!Enqueue(q, commands', W)
<1>1. TypeOK /\ Numbered
  BY DEF IInv
<1>2. commands' \in Command /\ commands' \notin 1 .. commands
  BY <1>1, CommandQueueAssumption DEF Enqueue, TypeOK, Command
<1>3. W \in SUBSET Abstract!Event
  BY <1>1 DEF TypeOK, Abstract!Event
<1>4. commands' \notin W
  BY <1>1, <1>2, Apart DEF Numbered
<1>5. ~Abstract!Listed(commands')
  <2>1. \A r \in Queue : \A i \in DOMAIN enqueued[r] : enqueued[r][i] \in 1 .. commands
    BY <1>1 DEF Numbered, TypeOK
  <2> QED
    BY <1>2, <2>1 DEF Abstract!Listed
<1> QED
  BY <1>2, <1>3, <1>4, <1>5 DEF Enqueue, Abstract!Enqueue

LEMMA CallInOrder ==
  ASSUME IInv, NEW h \in Host, Call(h)
  PROVE  [Abstract!Next]_(Abstract!vars)
<1>1. /\ TypeOK /\ h \in Thread /\ Host \subseteq Thread
      /\ pc[h] = "idle" => left[h] = {}
  BY DEF IInv, Hosts, HostAt, Waiting, Thread
<1> DEFINE blocked == [g \in Host |-> left[g]]
<1>2. ASSUME NEW q \in Queue, EnqueueCommand(h, q) PROVE Abstract!Next
  <2>1. PICK W \in SUBSET (handles \cup User) : Enqueue(h, q, W)
    BY <1>2 DEF EnqueueCommand
  <2>2. blocked' = blocked
    BY <1>2 DEF EnqueueCommand
  <2> QED
    BY <2>1, <2>2, EnqueueInOrder DEF Abstract!Next
<1>3. ASSUME NEW q \in Queue, Finish(h, q) PROVE Abstract!Next
  <2>1. /\ Enqueue(h, q, {}) /\ left' = [left EXCEPT ![h] = {commands'}]
        /\ left[h] = {}
    BY <1>1, <1>3 DEF Finish, Enqueue
  <2>2. /\ commands' \in Command /\ {} \in SUBSET Abstract!Event
        /\ Abstract!Enqueue(q, commands', {})
    BY <2>1, EnqueueInOrder
  <2>3. blocked' = [blocked EXCEPT ![h] = {commands'}]
    BY <1>1, <2>1 DEF TypeOK
  <2>4. Abstract!Block(h)
    BY <2>1, <2>2, <2>3 DEF Abstract!Block, Abstract!Event
  <2> QED
    BY <2>2, <2>4 DEF Abstract!Next
<1>4. ASSUME WaitForEvents(h) PROVE Abstract!Next
  <2>1. PICK e \in handles : left' = [left EXCEPT ![h] = {e}]
    BY <1>4 DEF WaitForEvents
  <2>2. e \in Command /\ left[h] = {}
    BY <1>1, <1>4 DEF TypeOK, WaitForEvents
  <2>3. blocked' = [blocked EXCEPT ![h] = {e}]
    BY <1>1, <2>1 DEF TypeOK
  <2>4. Abstract!Block(h)
    BY <2>2, <2>3 DEF Abstract!Block, Abstract!Event
  <2>5. UNCHANGED <<enqueued, waits, complete>>
    BY <1>4 DEF WaitForEvents, commandVars, listVars
  <2> QED
    BY <2>4, <2>5 DEF Abstract!Next
<1>5. ASSUME NEW q \in Queue, Flush(h, q) \/ ReleaseQueue(h, q)
      PROVE  UNCHANGED Abstract!vars
  BY <1>5, Stutters DEF Flush, FlushAnd, ReleaseQueue, commandVars
<1>6. ASSUME NEW e \in Command, Release(h, e)
      PROVE  UNCHANGED Abstract!vars
  BY <1>6, Stutters DEF Release, commandVars, listVars
<1> QED
  BY <1>2, <1>3, <1>4, <1>5, <1>6 DEF Call

\* A thread of the program stops to wait for an event when it is complete.
LEMMA WaitInOrder ==
  ASSUME IInv, NEW t \in Thread, WaitStep(t)
  PROVE  [Abstract!Next]_(Abstract!vars)
<1>1. TypeOK /\ Targets /\ Host \subseteq Thread
  BY DEF IInv, Thread
<1>2. \/ UNCHANGED left
      \/ \E e \in left[t] \cap complete : left' = [left EXCEPT ![t] = @ \ {e}]
  <2>1. CASE StartWait(t)
    BY <2>1 DEF StartWait
  <2>2. CASE EndWait(t)
    BY <1>1, <2>2 DEF EndWait, Targets, TargetAt
  <2> QED
    BY <2>1, <2>2 DEF WaitStep
<1>3. UNCHANGED <<enqueued, waits, complete>>
  BY DEF WaitStep, StartWait, EndWait, WaitFlush, FlushAnd, commandVars, listVars
<1>4. CASE UNCHANGED left
  BY <1>3, <1>4, Stutters
<1>5. ASSUME NEW e \in left[t] \cap complete,
             left' = [left EXCEPT ![t] = @ \ {e}]
      PROVE  [Abstract!Next]_(Abstract!vars)
  <2>1. CASE t \in Host
    <3> DEFINE blocked == [g \in Host |-> left[g]]
    <3>1. blocked' = [blocked EXCEPT ![t] = @ \ {e}] /\ blocked[t] = left[t]
      BY <1>1, <1>5, <2>1 DEF TypeOK
    <3>2. Abstract!Unblock(t)
      BY <1>3, <3>1 DEF Abstract!Unblock
    <3> QED
      BY <2>1, <3>2 DEF Abstract!Next
  <2>2. CASE t \notin Host
    BY <1>1, <1>3, <1>5, <2>2, Stutters DEF TypeOK
  <2> QED
    BY <2>1, <2>2
<1> QED
  BY <1>2, <1>4, <1>5

\* A queue runs the command that has its turn, and what it waited for is complete.
LEMMA RunInOrder ==
  ASSUME IInv, NEW q \in Queue, Run(q)
  PROVE  Abstract!Next
<1>1. /\ TypeOK /\ OrderAt(q) /\ WaitAt(q) /\ pc[q] = "run"
      /\ UNCHANGED <<enqueued, waits, left>>
      /\ complete' = complete \cup {doing[q]}
  BY DEF IInv, Order, Waits, Run, Complete, commandVars, listVars
<1>2. /\ Gone(q) \in 1 .. Len(enqueued[q]) /\ doing[q] = enqueued[q][Gone(q)]
  BY <1>1 DEF OrderAt, Busy, Pending, TypeOK
<1>3. doing[q] \notin complete
  BY <1>1, InHand DEF Busy, Pending
<1>4. \A j \in 1 .. Gone(q) - 1 : enqueued[q][j] \in complete
  <2> TAKE j \in 1 .. Gone(q) - 1
  <2>1. j \in 1 .. Len(enqueued[q]) /\ j < Gone(q)
    BY <1>1, <1>2 DEF TypeOK
  <2> QED
    BY <1>1, <2>1 DEF OrderAt
<1>5. waits[doing[q]] \subseteq complete
  BY <1>1 DEF WaitAt, Pending, Waiting
<1>6. Gone(q) \in DOMAIN enqueued[q]
  BY <1>1, <1>2 DEF TypeOK
<1>7. Abstract!Execute(q, Gone(q))
  BY <1>1, <1>2, <1>3, <1>4, <1>5 DEF Abstract!Execute
<1> QED
  BY <1>1, <1>6, <1>7 DEF Abstract!Next

LEMMA QueueStepInOrder ==
  ASSUME IInv, NEW q \in Queue, QueueStep(q)
  PROVE  [Abstract!Next]_(Abstract!vars)
<1>1. TypeOK /\ q \in Thread /\ q \notin Host /\ Host \subseteq Thread
  BY Apart DEF IInv, Thread
<1>2. CASE Run(q)
  BY <1>2, RunInOrder
<1>3. CASE WaitStep(q)
  BY <1>1, <1>3, WaitInOrder
<1>4. CASE Idle(q) \/ FreeCommand(q)
  BY <1>4, Stutters DEF Idle, FreeCommand, commandVars, listVars
<1>5. CASE Dequeue(q) \/ Verify(q)
  <2>1. UNCHANGED <<enqueued, waits, complete>>
    BY <1>5 DEF Dequeue, Verify, commandVars, listVars
  <2>2. \A h \in Host : left'[h] = left[h]
    BY <1>1, <1>5 DEF Dequeue, Verify, TypeOK
  <2> QED
    BY <2>1, <2>2, Stutters
<1> QED
  BY <1>2, <1>3, <1>4, <1>5 DEF QueueStep

LEMMA StepInOrder == IInv /\ [Next]_vars => [Abstract!Next]_(Abstract!vars)
<1> SUFFICES ASSUME IInv, [Next]_vars PROVE [Abstract!Next]_(Abstract!vars)
  OBVIOUS
<1>1. CASE UNCHANGED vars
  BY <1>1, Stutters DEF vars, commandVars, listVars
<1>2. ASSUME NEW h \in Host, Call(h) PROVE [Abstract!Next]_(Abstract!vars)
  BY <1>2, CallInOrder
<1>3. ASSUME NEW h \in Host, HostStep(h) PROVE [Abstract!Next]_(Abstract!vars)
  <2>1. CASE WaitStep(h)
    BY <2>1, WaitInOrder DEF Thread
  <2>2. CASE ReleaseLast(h) \/ FlushEnd(h) \/ Join(h)
    BY <2>2, Stutters DEF ReleaseLast, FlushEnd, Join, FlushAnd, commandVars, listVars
  <2> QED
    BY <1>3, <2>1, <2>2 DEF HostStep
<1>4. ASSUME NEW q \in Queue, QueueStep(q) PROVE [Abstract!Next]_(Abstract!vars)
  BY <1>4, QueueStepInOrder
<1>5. ASSUME NEW u \in User, SetUser(u) PROVE Abstract!Next
  <2>1. /\ complete' = complete \cup {u} /\ u \notin complete
        /\ UNCHANGED <<enqueued, waits, left>>
    BY <1>5 DEF SetUser, Complete, commandVars, listVars
  <2>2. Abstract!SetUser(u)
    BY <2>1 DEF Abstract!SetUser
  <2> QED
    BY <2>1, <2>2 DEF Abstract!Next
<1> QED
  BY <1>1, <1>2, <1>3, <1>4, <1>5 DEF Next

\* Commands are executed one after the other in the order of each queue, after the
\* events they wait for, and a call that waits returns when its events are complete.
THEOREM Implements == Spec => ImplementsInOrder
<1>1. Spec => []IInv
  BY Invariant
<1> QED
  BY <1>1, InitInOrder, StepInOrder, PTL
     DEF Spec, ImplementsInOrder, Abstract!Spec
=============================================================================
