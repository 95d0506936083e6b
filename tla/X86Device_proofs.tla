-------------------------- MODULE X86Device_proofs --------------------------
(***************************************************************************)
(* The safety properties of X86Device, proved for any number of threads,   *)
(* work-groups, work-items, barriers and ND-ranges.                        *)
(*                                                                         *)
(* None of them is inductive.  ExecAlive rests on how the two counters     *)
(* separate the ND-ranges (Counting): a thread that has not posted its end *)
(* keeps the queue thread in front of the wait.  BarrierHolds rests on the *)
(* exact picture of the stacks of a group (Stacks), which num_started and  *)
(* hit_barrier only summarise; EachItemOnce on that picture and on how the *)
(* groups are shared out (Sharing, Counted).                               *)
(***************************************************************************)
EXTENDS X86Device, FiniteSetTheorems, TLAPS

\* The threads that have posted the end of the current ND-range.
Posted == {w \in Worker : awaited[w] = workReady + 1}

\* The queue thread and the others are in different loops.
Places ==
  /\ pc[Queue] \in {"idle", "post", "next", "run", "join", "joined"}
  /\ \A w \in Worker : pc[w] \in {"wait", "fetch", "next", "run", "done"}

\* work_ready and cores_done count in step: only a thread that waits for the
\* next ND-range has posted, and cores_done says how many have.
Counting ==
  /\ \A w \in Worker :
       /\ awaited[w] \in {workReady, workReady + 1}
       /\ w \in Posted => pc[w] = "wait"
  /\ pc[Queue] \in {"idle", "post", "joined"} =>
       Posted = Worker /\ coresDone = doneCount
  /\ pc[Queue] \in {"next", "run"} =>
       coresDone = doneCount + Cardinality(Posted)
  /\ pc[Queue] = "join" =>
       coresDone + Cardinality(Worker) = doneCount + Cardinality(Posted)

\* Until the queue thread frees the exec, it is the one everybody sees.
OneExec ==
  /\ pc[Queue] # "idle" =>
       allocated /\ deviceExec = launch /\ exec[Queue] = launch
  /\ \A w \in Worker : pc[w] \in {"next", "run"} => exec[w] = launch

\* Each group that runs was given to one core.
Sharing ==
  /\ \A c \in Core : Running(c) =>
       group[c] < nextGroup /\ group[c] < numGroups
  /\ \A c, d \in Core :
       Running(c) /\ Running(d) /\ group[c] = group[d] => c = d
  /\ pc[Queue] \in {"join", "joined"} => nextGroup >= numGroups

\* How many barriers the current work-item has called.
Depth(c) == at[c][current[c]]

\* The work-items before the current one are one barrier ahead, or over if
\* it calls no more; those after it stand at the same one, or have no stack
\* if it has not called any.
Stacks(c) ==
  /\ Depth(c) \in 0 .. barriers
  /\ \A i \in Item :
       /\ i < current[c] =>
            at[c][i] = IF Depth(c) = barriers THEN barriers ELSE Depth(c) + 1
       /\ i > current[c] =>
            at[c][i] = IF Depth(c) = 0 THEN NoStack ELSE Depth(c)
  /\ hitBarrier[c] <=> barriers > 0 /\ (Depth(c) > 0 \/ current[c] > 0)
  /\ barriers > 0 => IF Depth(c) = 0 THEN started[c] = current[c] + 1
                     ELSE started[c] >= NumItems
  /\ finished[c] = IF Depth(c) = barriers THEN current[c] ELSE 0

StacksSetUp == \A c \in Core : Running(c) => Stacks(c)

\* Whether a core runs group g.
Taken(g) == \E c \in Core : Running(c) /\ group[c] = g

\* A work-item is over when its group is, or when its core has gone on to
\* a later one that calls no more barriers.
Counted ==
  \A g \in Group, i \in Item :
    /\ g >= nextGroup \/ g >= numGroups => ran[g][i] = 0
    /\ g < nextGroup /\ g < numGroups /\ ~Taken(g) => ran[g][i] = 1
    /\ \A c \in Core : Running(c) /\ group[c] = g =>
         ran[g][i] = IF Depth(c) = barriers /\ i < current[c] THEN 1 ELSE 0

IInv ==
  /\ TypeOK /\ Places /\ Counting /\ OneExec /\ Sharing /\ StacksSetUp
  /\ Counted

-----------------------------------------------------------------------------

USE SizeAssumption

THEOREM InitIInv == Init => IInv
<1> SUFFICES ASSUME Init PROVE IInv
  OBVIOUS
<1> USE DEF Init, Core, Group, Item, NoStack, Running
<1>1. ~\E c \in Core : Running(c)
  BY WorkerAssumption
<1>2. TypeOK
  <2>1. at \in [Core -> [Item -> NoStack .. MaxBarriers]]
    <3>1. NoStack \in NoStack .. MaxBarriers
      OBVIOUS
    <3> QED
      BY <3>1
  <2>2. /\ ran \in [Group -> [Item -> Nat]]
        /\ hitBarrier \in [Core -> BOOLEAN]
    OBVIOUS
  <2>3. /\ pc \in [Core -> {"idle", "post", "next", "run", "join", "joined",
                          "wait", "fetch", "done"}]
        /\ awaited \in [Worker -> Nat] /\ current \in [Core -> Item]
    OBVIOUS
  <2>4. /\ exec \in [Core -> Nat] /\ group \in [Core -> Nat]
        /\ started \in [Core -> Nat] /\ finished \in [Core -> Nat]
    OBVIOUS
  <2>5. /\ launch \in Nat /\ allocated \in BOOLEAN
        /\ deviceExec \in Nat /\ numGroups \in 0 .. MaxGroups
        /\ nextGroup \in Nat /\ barriers \in 0 .. MaxBarriers
        /\ workReady \in Nat /\ coresDone \in Nat /\ doneCount \in Nat
    <3>1. 0 \in 0 .. MaxGroups /\ 0 \in 0 .. MaxBarriers /\ 0 \in Nat
      OBVIOUS
    <3> HIDE SizeAssumption
    <3> QED
      BY <3>1, Zenon
  <2> HIDE DEF Init, Core, Item, Group, NoStack
  <2> QED
    BY <2>1, <2>2, <2>3, <2>4, <2>5 DEF TypeOK
<1>3. Posted = Worker
  BY DEF Posted
<1>4. Places /\ Counting /\ OneExec
  BY <1>3, WorkerAssumption DEF Places, Counting, OneExec
<1>5. Sharing /\ StacksSetUp /\ Counted
  BY <1>1 DEF Sharing, StacksSetUp, Counted, Taken
<1> QED
  BY <1>2, <1>4, <1>5 DEF IInv

\* The queue thread starts an ND-range only when no core runs a group, and
\* the other threads have all posted the end of the last one.
LEMMA QuietBetween ==
  ASSUME IInv, pc[Queue] \in {"idle", "post", "joined"}
  PROVE  /\ \A w \in Worker : pc[w] = "wait" /\ awaited[w] = workReady + 1
         /\ \A c \in Core : ~Running(c)
BY WorkerAssumption DEF IInv, Counting, Posted, Running, Core

\* A thread in front of the end of an ND-range has not posted it, so the
\* queue thread has not passed the wait.
LEMMA BusyWithin ==
  ASSUME IInv, NEW w \in Worker, pc[w] # "wait"
  PROVE  awaited[w] = workReady /\ pc[Queue] \in {"next", "run", "join"}
BY DEF IInv, Counting, Posted, Places, TypeOK

\* What the code may conclude when a work-item ends.
LEMMA AtTheEnd ==
  ASSUME IInv, NEW c \in Core, Exit(c)
  PROVE  /\ Running(c) /\ Depth(c) = barriers
         /\ finished[c] = current[c]
         /\ ~IsLast(c) => current[c] + 1 \in Item
         /\ IsLast(c) => current[c] = NumItems - 1
         /\ hitBarrier[c] <=> barriers > 0
         /\ hitBarrier[c] => started[c] >= NumItems
<1>1. Running(c) /\ Depth(c) = barriers
  BY DEF Exit, Running, Depth
<1>2. Stacks(c) /\ current[c] \in Item /\ barriers \in Nat
  BY <1>1 DEF IInv, StacksSetUp, TypeOK
<1>3. finished[c] = current[c]
  BY <1>1, <1>2 DEF Stacks
<1>4. /\ ~IsLast(c) => current[c] + 1 \in Item
      /\ IsLast(c) => current[c] = NumItems - 1
  BY <1>2, <1>3 DEF IsLast, Item
<1>5. hitBarrier[c] <=> barriers > 0
  <2>1. CASE current[c] > 0
    BY <2>1, <1>1, <1>2 DEF Stacks
  <2>2. CASE current[c] = 0
    BY <2>2, <1>1, <1>2 DEF Stacks
  <2> QED
    BY <2>1, <2>2, <1>2 DEF Item
<1>6. hitBarrier[c] => started[c] >= NumItems
  BY <1>1, <1>2, <1>5 DEF Stacks
<1> QED
  BY <1>1, <1>3, <1>4, <1>5, <1>6

-----------------------------------------------------------------------------
(***************************************************************************)
(* Typing.                                                                 *)
(***************************************************************************)

LEMMA TypingKept ==
  ASSUME IInv, [Next]_vars
  PROVE  TypeOK'
<1>0. TypeOK
  BY DEF IInv
<1> USE DEF TypeOK, Goto, Core
<1>1. CASE UNCHANGED vars
  BY <1>0, <1>1 DEF vars, rangeVars, syncVars, itemVars
<1>2. CASE \E n \in 0 .. MaxGroups, b \in 0 .. MaxBarriers : Launch(n, b)
  BY <1>0, <1>2 DEF Launch, FirstGroup, syncVars, itemVars
<1>3. CASE PostWork \/ Join \/ Free
  <2>1. CASE PostWork
    BY <1>0, <2>1 DEF PostWork, rangeVars, itemVars
  <2>2. CASE Join
    BY <1>0, <2>2 DEF Join, rangeVars, syncVars, itemVars
  <2>3. CASE Free
    BY <1>0, <2>3 DEF Free, syncVars, itemVars
  <2> QED
    BY <1>3, <2>1, <2>2, <2>3
<1>4. ASSUME NEW w \in Worker, SeeWork(w) \/ FetchWork(w) \/ PostDone(w)
      PROVE  TypeOK'
  <2>1. CASE SeeWork(w)
    BY <1>0, <2>1 DEF SeeWork, rangeVars, syncVars, itemVars
  <2>2. CASE FetchWork(w)
    BY <1>0, <2>2 DEF FetchWork, rangeVars, syncVars, itemVars
  <2>3. CASE PostDone(w)
    BY <1>0, <2>3 DEF PostDone, NextAwaited, rangeVars, itemVars
  <2> QED
    BY <1>4, <2>1, <2>2, <2>3
<1>5. ASSUME NEW c \in Core, TakeGroup(c)
      PROVE  TypeOK'
  <2>1. 0 \in Item /\ 0 \in NoStack .. MaxBarriers
        /\ NoStack \in NoStack .. MaxBarriers
    BY DEF Item, NoStack
  <2>2. at' \in [Core -> [Item -> NoStack .. MaxBarriers]]
    BY <1>0, <1>5, <2>1 DEF TakeGroup
  <2> QED
    BY <1>0, <1>5, <2>1, <2>2 DEF TakeGroup, rangeVars, syncVars
<1>6. ASSUME NEW c \in Core, NoGroup(c)
      PROVE  TypeOK'
  <2>1. AllDone \in Nat
    BY <1>0, WorkerAssumption, FS_CardinalityType, SMTT(30) DEF AllDone
  <2> QED
    BY <1>0, <1>6, <2>1 DEF NoGroup, rangeVars, itemVars
<1>7. ASSUME NEW c \in Core, Barrier(c)
      PROVE  TypeOK'
  <2>1. (current[c] + 1) % NumItems \in Item
    BY <1>0, SMTT(30) DEF Item
  <2>2. at[c][current[c]] + 1 \in NoStack .. MaxBarriers
    BY <1>0, <1>7 DEF Barrier, NoStack
  <2>3. at' \in [Core -> [Item -> NoStack .. MaxBarriers]]
    BY <1>0, <1>7, <2>2 DEF Barrier, SwitchTo, NoStack
  <2> QED
    BY <1>0, <1>7, <2>1, <2>3 DEF Barrier, SwitchTo, rangeVars, syncVars
<1>8. ASSUME NEW c \in Core, Exit(c)
      PROVE  /\ finished' \in [Core -> Nat]
             /\ ran' \in [Group -> [Item -> Nat]]
  <2>1. group[c] \in Group
    BY <1>0, <1>8 DEF IInv, Sharing, Running, Exit, Group
  <2>2. ran[group[c]][current[c]] + 1 \in Nat
    BY <1>0, <2>1
  <2> QED
    BY <1>0, <1>8, <2>1, <2>2 DEF Exit
<1>9. ASSUME NEW c \in Core, ExitLast(c)
      PROVE  TypeOK'
  BY <1>0, <1>8, <1>9 DEF ExitLast, rangeVars, syncVars
<1>10. ASSUME NEW c \in Core, ExitToStack(c)
       PROVE  TypeOK'
  <2>1. Exit(c) /\ current[c] + 1 \in Item
    BY <1>10, AtTheEnd DEF ExitToStack
  <2>2. at' \in [Core -> [Item -> NoStack .. MaxBarriers]]
    BY <1>0, <1>10 DEF ExitToStack, SwitchTo, NoStack
  <2> QED
    BY <1>0, <1>8, <1>10, <2>1, <2>2
       DEF ExitToStack, SwitchTo, rangeVars, syncVars
<1>11. ASSUME NEW c \in Core, ExitToNew(c)
       PROVE  TypeOK'
  <2>1. Exit(c) /\ current[c] + 1 \in Item
    BY <1>11, AtTheEnd DEF ExitToNew
  <2>2. at' \in [Core -> [Item -> NoStack .. MaxBarriers]]
    <3>1. 0 \in NoStack .. MaxBarriers
      BY DEF NoStack
    <3> QED
      BY <1>0, <1>11, <2>1, <3>1 DEF ExitToNew
  <2> QED
    BY <1>0, <1>8, <1>11, <2>1, <2>2 DEF ExitToNew, rangeVars, syncVars
<1> QED
  BY <1>1, <1>2, <1>3, <1>4, <1>5, <1>6, <1>7, <1>9, <1>10, <1>11
     DEF Next, QueueStep, WorkerStep, RunStep

-----------------------------------------------------------------------------
(***************************************************************************)
(* The steps that move work-items leave the rest alone.                    *)
(***************************************************************************)

\* What a step of a core inside the loop over the groups may change of the
\* synchronisation.
LEMMA RunStepQuiet ==
  ASSUME IInv, NEW c \in Core,
         TakeGroup(c) \/ Barrier(c) \/ ExitLast(c) \/ ExitToStack(c)
           \/ ExitToNew(c)
  PROVE  /\ pc[c] \in {"next", "run"} /\ pc'[c] \in {"next", "run"}
         /\ \A d \in Core : d # c => pc'[d] = pc[d]
         /\ UNCHANGED <<rangeVars, syncVars, exec>>
<1> USE DEF IInv, TypeOK, Goto
<1>1. CASE TakeGroup(c)
  BY <1>1 DEF TakeGroup
<1>2. CASE Barrier(c)
  BY <1>2 DEF Barrier
<1>3. CASE ExitLast(c)
  BY <1>3 DEF ExitLast, Exit
<1>4. CASE ExitToStack(c) \/ ExitToNew(c)
  BY <1>4 DEF ExitToStack, ExitToNew, Exit
<1> QED
  BY <1>1, <1>2, <1>3, <1>4

LEMMA PlacesKept ==
  ASSUME IInv, [Next]_vars
  PROVE  Places'
<1>0. TypeOK /\ Places
  BY DEF IInv
<1> USE DEF TypeOK, Places, Goto, Core
<1>1. CASE UNCHANGED vars
  BY <1>0, <1>1 DEF vars
<1>2. CASE \E n \in 0 .. MaxGroups, b \in 0 .. MaxBarriers : Launch(n, b)
  BY <1>0, <1>2, WorkerAssumption DEF Launch
<1>3. CASE PostWork \/ Join \/ Free
  BY <1>0, <1>3, WorkerAssumption DEF PostWork, Join, Free
<1>4. ASSUME NEW w \in Worker, SeeWork(w) \/ FetchWork(w) \/ PostDone(w)
      PROVE  Places'
  BY <1>0, <1>4, WorkerAssumption DEF SeeWork, FetchWork, PostDone
<1>5. ASSUME NEW c \in Core, NoGroup(c)
      PROVE  Places'
  BY <1>0, <1>5, WorkerAssumption DEF NoGroup
<1>6. ASSUME NEW c \in Core,
             TakeGroup(c) \/ Barrier(c) \/ ExitLast(c) \/ ExitToStack(c)
               \/ ExitToNew(c)
      PROVE  Places'
  BY <1>0, <1>6, RunStepQuiet, WorkerAssumption
<1> QED
  BY <1>1, <1>2, <1>3, <1>4, <1>5, <1>6
     DEF Next, QueueStep, WorkerStep, RunStep

-----------------------------------------------------------------------------
(***************************************************************************)
(* The counters.                                                           *)
(***************************************************************************)

LEMMA PostedFinite ==
  /\ IsFiniteSet(Posted) /\ Cardinality(Posted) \in Nat
  /\ Cardinality(Worker) \in Nat
  /\ Cardinality(Posted) = Cardinality(Worker) => Posted = Worker
<1>1. Posted \subseteq Worker
  BY DEF Posted
<1> QED
  BY <1>1, WorkerAssumption, FS_Subset, FS_CardinalityType

LEMMA CountingKept ==
  ASSUME IInv, [Next]_vars
  PROVE  Counting'
<1>0. TypeOK /\ Places /\ Counting
  BY DEF IInv
<1> USE DEF TypeOK, Goto, Core
<1>1. CASE UNCHANGED vars
  BY <1>0, <1>1 DEF vars, syncVars, Counting, Posted
<1>2. CASE \E n \in 0 .. MaxGroups, b \in 0 .. MaxBarriers : Launch(n, b)
  <2>1. Posted' = Posted
    BY <1>2 DEF Launch, syncVars, Posted
  <2> QED
    BY <1>0, <1>2, <2>1, WorkerAssumption DEF Launch, syncVars, Counting
<1>3. CASE PostWork
  <2>1. \A w \in Worker : pc'[w] = "wait" /\ awaited'[w] = workReady'
    BY <1>0, <1>3, QuietBetween, WorkerAssumption DEF PostWork
  <2>2. Posted' = {}
    BY <2>1, <1>0, <1>3 DEF Posted, PostWork
  <2>3. Cardinality(Posted') = 0
    BY <2>2, FS_EmptySet
  <2> QED
    BY <1>0, <1>3, <2>1, <2>2, <2>3, QuietBetween DEF PostWork, Counting
<1>4. CASE Join
  <2>1. Posted' = Posted
    BY <1>4 DEF Join, syncVars, Posted
  <2>2. Posted = Worker
    <3>1. coresDone + Cardinality(Worker) = doneCount + Cardinality(Posted)
      BY <1>0, <1>4 DEF Join, Counting
    <3>2. coresDone = doneCount
      BY <1>4 DEF Join
    <3>3. Cardinality(Posted) = Cardinality(Worker)
      <4>1. coresDone \in Nat
        BY <1>0
      <4>2. Cardinality(Posted) \in Nat /\ Cardinality(Worker) \in Nat
        BY PostedFinite
      <4> QED
        BY <3>1, <3>2, <4>1, <4>2
    <3> QED
      BY <3>3, PostedFinite
  <2> QED
    BY <1>0, <1>4, <2>1, <2>2, WorkerAssumption DEF Join, syncVars, Counting
<1>5. CASE Free
  <2>1. Posted' = Posted
    BY <1>5 DEF Free, syncVars, Posted
  <2> QED
    BY <1>0, <1>5, <2>1, WorkerAssumption DEF Free, syncVars, Counting
<1>6. ASSUME NEW w \in Worker, SeeWork(w) \/ FetchWork(w)
      PROVE  Counting'
  <2>1. Posted' = Posted /\ w \notin Posted
    BY <1>0, <1>6 DEF SeeWork, FetchWork, syncVars, Posted, Counting
  <2> QED
    BY <1>0, <1>6, <2>1, WorkerAssumption
       DEF SeeWork, FetchWork, syncVars, Counting
<1>7. ASSUME NEW w \in Worker, PostDone(w)
      PROVE  Counting'
  <2>1. awaited[w] = workReady /\ pc[Queue] \in {"next", "run", "join"}
    BY <1>7, BusyWithin DEF PostDone
  <2>2. Posted' = Posted \cup {w} /\ w \notin Posted
    BY <1>0, <1>7, <2>1 DEF PostDone, NextAwaited, Posted
  <2>3. Cardinality(Posted') = Cardinality(Posted) + 1
    BY <2>2, PostedFinite, FS_AddElement
  <2> QED
    <3>1. /\ pc'[w] = "wait" /\ awaited'[w] = workReady + 1
          /\ \A v \in Worker \ {w} : pc'[v] = pc[v] /\ awaited'[v] = awaited[v]
          /\ pc'[Queue] = pc[Queue] /\ workReady' = workReady
          /\ coresDone' = coresDone + 1 /\ doneCount' = doneCount
      BY <1>0, <1>7, <2>1, WorkerAssumption DEF PostDone, NextAwaited
    <3>2. /\ \A v \in Worker :
               /\ awaited'[v] \in {workReady', workReady' + 1}
               /\ v \in Posted' => pc'[v] = "wait"
      BY <1>0, <2>2, <3>1 DEF Counting
    <3>3. /\ pc'[Queue] \in {"next", "run"} =>
               coresDone' = doneCount' + Cardinality(Posted')
          /\ pc'[Queue] = "join" =>
               coresDone' + Cardinality(Worker)
                 = doneCount' + Cardinality(Posted')
      BY <1>0, <2>3, <3>1, PostedFinite DEF Counting
    <3> QED
      BY <2>1, <3>1, <3>2, <3>3 DEF Counting
<1>8. ASSUME NEW c \in Core, NoGroup(c)
      PROVE  Counting'
  <2>1. Posted' = Posted
    BY <1>8 DEF NoGroup, Posted
  <2>2. CASE c = Queue
    BY <1>0, <1>8, <2>1, <2>2, PostedFinite, WorkerAssumption
       DEF NoGroup, AllDone, Counting
  <2>3. CASE c # Queue
    <3>1. c \notin Posted
      BY <1>0, <1>8, <2>3 DEF NoGroup, Counting
    <3> QED
      BY <1>0, <1>8, <2>1, <2>3, <3>1, WorkerAssumption DEF NoGroup, Counting
  <2> QED
    BY <2>2, <2>3
<1>9. ASSUME NEW c \in Core,
             TakeGroup(c) \/ Barrier(c) \/ ExitLast(c) \/ ExitToStack(c)
               \/ ExitToNew(c)
      PROVE  Counting'
  <2>1. Posted' = Posted
    BY <1>9, RunStepQuiet DEF syncVars, Posted
  <2>2. c \notin Posted
    BY <1>0, <1>9, RunStepQuiet, WorkerAssumption DEF Counting, Posted
  <2> QED
    BY <1>0, <1>9, <2>1, <2>2, RunStepQuiet, WorkerAssumption
       DEF syncVars, Counting
<1> QED
  BY <1>1, <1>2, <1>3, <1>4, <1>5, <1>6, <1>7, <1>8, <1>9
     DEF Next, QueueStep, WorkerStep, RunStep

LEMMA OneExecKept ==
  ASSUME IInv, [Next]_vars
  PROVE  OneExec'
<1>0. TypeOK /\ Places /\ OneExec
  BY DEF IInv
<1> USE DEF TypeOK, Goto, Core
<1>1. CASE UNCHANGED vars
  BY <1>0, <1>1 DEF vars, rangeVars, OneExec
<1>2. CASE \E n \in 0 .. MaxGroups, b \in 0 .. MaxBarriers : Launch(n, b)
  BY <1>0, <1>2, QuietBetween, WorkerAssumption DEF Launch, OneExec
<1>3. CASE PostWork \/ Join
  BY <1>0, <1>3, WorkerAssumption DEF PostWork, Join, rangeVars, OneExec
<1>4. CASE Free
  BY <1>0, <1>4, WorkerAssumption DEF Free, OneExec
<1>5. ASSUME NEW w \in Worker, SeeWork(w) \/ PostDone(w)
      PROVE  OneExec'
  BY <1>0, <1>5, WorkerAssumption DEF SeeWork, PostDone, rangeVars, OneExec
<1>6. ASSUME NEW w \in Worker, FetchWork(w)
      PROVE  OneExec'
  <2>1. deviceExec = launch
    BY <1>0, <1>6, BusyWithin DEF FetchWork, OneExec
  <2> QED
    BY <1>0, <1>6, <2>1, WorkerAssumption DEF FetchWork, rangeVars, OneExec
<1>7. ASSUME NEW c \in Core, NoGroup(c)
      PROVE  OneExec'
  BY <1>0, <1>7, WorkerAssumption DEF NoGroup, rangeVars, OneExec
<1>8. ASSUME NEW c \in Core,
             TakeGroup(c) \/ Barrier(c) \/ ExitLast(c) \/ ExitToStack(c)
               \/ ExitToNew(c)
      PROVE  OneExec'
  BY <1>0, <1>8, RunStepQuiet, WorkerAssumption DEF rangeVars, OneExec
<1> QED
  BY <1>1, <1>2, <1>3, <1>4, <1>5, <1>6, <1>7, <1>8
     DEF Next, QueueStep, WorkerStep, RunStep

-----------------------------------------------------------------------------
(***************************************************************************)
(* The groups and their work-items.                                        *)
(***************************************************************************)

\* The steps that touch no work-item: nobody starts to run a group, and those
\* who run one keep their stacks.
LEMMA ItemsUntouched ==
  ASSUME IInv,
         \/ UNCHANGED vars
         \/ PostWork \/ Join \/ Free
         \/ \E w \in Worker : SeeWork(w) \/ FetchWork(w) \/ PostDone(w)
         \/ \E c \in Core : NoGroup(c)
  PROVE  /\ UNCHANGED <<numGroups, barriers, itemVars, ran>>
         /\ \A c \in Core : Running(c)' <=> Running(c)
         /\ nextGroup' = nextGroup \/ nextGroup' = nextGroup + 1
         /\ nextGroup' # nextGroup => nextGroup >= numGroups
         /\ pc'[Queue] \in {"join", "joined"} =>
              pc[Queue] \in {"join", "joined"} \/ nextGroup >= numGroups
<1>0. TypeOK
  BY DEF IInv
<1> USE DEF TypeOK, Goto, Core, Running
<1>1. CASE UNCHANGED vars
  BY <1>0, <1>1 DEF vars, rangeVars
<1>2. CASE PostWork \/ Join \/ Free
  BY <1>0, <1>2, WorkerAssumption DEF PostWork, Join, Free, rangeVars
<1>3. ASSUME NEW w \in Worker, SeeWork(w) \/ FetchWork(w) \/ PostDone(w)
      PROVE  /\ UNCHANGED <<numGroups, barriers, itemVars, ran, nextGroup>>
             /\ \A c \in Core : Running(c)' <=> Running(c)
             /\ pc'[Queue] = pc[Queue]
  BY <1>0, <1>3, WorkerAssumption DEF SeeWork, FetchWork, PostDone, rangeVars
<1>4. ASSUME NEW c \in Core, NoGroup(c)
      PROVE  /\ UNCHANGED <<numGroups, barriers, itemVars, ran>>
             /\ \A d \in Core : Running(d)' <=> Running(d)
             /\ nextGroup' = nextGroup + 1 /\ nextGroup >= numGroups
  BY <1>0, <1>4, WorkerAssumption DEF NoGroup, rangeVars
<1> QED
  BY <1>1, <1>2, <1>3, <1>4

\* The steps of a core that runs a group: the other cores keep their places.
LEMMA OthersUntouched ==
  ASSUME IInv, NEW c \in Core, NEW d \in Core, d # c,
         TakeGroup(c) \/ Barrier(c) \/ ExitLast(c) \/ ExitToStack(c)
           \/ ExitToNew(c)
  PROVE  /\ Running(d)' <=> Running(d)
         /\ group'[d] = group[d] /\ current'[d] = current[d]
         /\ at'[d] = at[d] /\ started'[d] = started[d]
         /\ finished'[d] = finished[d] /\ hitBarrier'[d] = hitBarrier[d]
<1>0. TypeOK
  BY DEF IInv
<1> USE DEF TypeOK, Goto, Running
<1>1. CASE TakeGroup(c)
  BY <1>0, <1>1 DEF TakeGroup
<1>2. CASE Barrier(c)
  BY <1>0, <1>2 DEF Barrier, SwitchTo
<1>3. CASE ExitLast(c)
  BY <1>0, <1>3 DEF ExitLast, Exit
<1>4. CASE ExitToStack(c)
  BY <1>0, <1>4 DEF ExitToStack, SwitchTo, Exit
<1>5. CASE ExitToNew(c)
  BY <1>0, <1>5 DEF ExitToNew, Exit
<1> QED
  BY <1>1, <1>2, <1>3, <1>4, <1>5

LEMMA SharingKept ==
  ASSUME IInv, [Next]_vars
  PROVE  Sharing'
<1>0. TypeOK /\ Places /\ Sharing
  BY DEF IInv
<1>1. CASE \/ UNCHANGED vars
           \/ PostWork \/ Join \/ Free
           \/ \E w \in Worker : SeeWork(w) \/ FetchWork(w) \/ PostDone(w)
           \/ \E c \in Core : NoGroup(c)
  BY <1>0, <1>1, ItemsUntouched DEF Sharing, itemVars, TypeOK
<1>2. CASE \E n \in 0 .. MaxGroups, b \in 0 .. MaxBarriers : Launch(n, b)
  <2>1. \A c \in Core : ~Running(c)'
    BY <1>0, <1>2, QuietBetween, WorkerAssumption
       DEF Launch, Goto, Running, TypeOK, Core
  <2>2. pc'[Queue] = "post"
    BY <1>0, <1>2 DEF Launch, Goto, TypeOK, Core
  <2> QED
    BY <2>1, <2>2 DEF Sharing
<1>3. ASSUME NEW c \in Core, TakeGroup(c)
      PROVE  Sharing'
  <2>1. /\ group'[c] = nextGroup /\ nextGroup < numGroups
        /\ nextGroup' = nextGroup + 1 /\ numGroups' = numGroups
        /\ pc'[c] = "run"
    BY <1>0, <1>3 DEF TakeGroup, Goto, rangeVars, TypeOK
  <2>2. \A d \in Core : d # c =>
          (Running(d)' <=> Running(d)) /\ group'[d] = group[d]
    BY <1>3, OthersUntouched
  <2>3. \A d \in Core : Running(d) => group[d] < nextGroup
    BY <1>0 DEF Sharing
  <2>4. \A d, e \in Core :
          Running(d)' /\ Running(e)' /\ group'[d] = group'[e] => d = e
    BY <1>0, <2>1, <2>2, <2>3 DEF Sharing, TypeOK
  <2>5. pc'[Queue] \in {"join", "joined"} => nextGroup' >= numGroups'
    <3>1. pc'[Queue] \in {"join", "joined"} => pc[Queue] \in {"join", "joined"}
      BY <1>0, <1>3 DEF TakeGroup, Goto, TypeOK, Core
    <3> QED
      BY <1>0, <2>1, <3>1 DEF Sharing, TypeOK
  <2>6. \A d \in Core : Running(d)' =>
          group'[d] < nextGroup' /\ group'[d] < numGroups'
    BY <1>0, <2>1, <2>2 DEF Sharing, TypeOK
  <2> QED
    BY <2>4, <2>5, <2>6 DEF Sharing
<1>4. ASSUME NEW c \in Core,
             Barrier(c) \/ ExitLast(c) \/ ExitToStack(c) \/ ExitToNew(c)
      PROVE  Sharing'
  <2>1. /\ UNCHANGED <<nextGroup, numGroups, group>>
        /\ Running(c)
    BY <1>4 DEF Barrier, ExitLast, ExitToStack, ExitToNew, Exit, rangeVars,
                Running
  <2>2. \A d \in Core : Running(d)' => Running(d)
    BY <1>4, <2>1, OthersUntouched
  <2>3. pc'[Queue] \in {"join", "joined"} => pc[Queue] \in {"join", "joined"}
    BY <1>0, <1>4, RunStepQuiet DEF Core
  <2> QED
    BY <1>0, <2>1, <2>2, <2>3 DEF Sharing
<1> QED
  BY <1>1, <1>2, <1>3, <1>4 DEF Next, QueueStep, WorkerStep, RunStep, Core

\* A group starts with its first work-item.
LEMMA TakeGroupStacks ==
  ASSUME IInv, NEW c \in Core, TakeGroup(c)
  PROVE  Stacks(c)' /\ current'[c] = 0
<1>0. TypeOK
  BY DEF IInv
<1>1. /\ current'[c] = 0 /\ started'[c] = 1 /\ finished'[c] = 0
      /\ hitBarrier'[c] = FALSE /\ barriers' = barriers
      /\ \A i \in Item : at'[c][i] = IF i = 0 THEN 0 ELSE NoStack
  BY <1>0 DEF TakeGroup, rangeVars, TypeOK
<1>2. 0 \in Item /\ Depth(c)' = 0 /\ barriers \in Nat
  BY <1>0, <1>1 DEF Depth, Item, TypeOK
<1> QED
  BY <1>1, <1>2 DEF Stacks, Item

\* A barrier either goes on to the next work-item at the same depth, or
\* back to the first one after all have reached the barrier.
LEMMA BarrierStacks ==
  ASSUME IInv, NEW c \in Core, Barrier(c)
  PROVE  /\ Running(c) /\ Depth(c) # barriers
         /\ Stacks(c)'
         /\ Depth(c)' # barriers \/ current'[c] = 0
<1> DEFINE cur == current[c]
           k == Depth(c)
           i == (cur + 1) % NumItems
<1>0. TypeOK
  BY DEF IInv
<1>1. Running(c) /\ Stacks(c)
  BY DEF IInv, StacksSetUp, Barrier, Running
<1>2. cur \in Item /\ k \in Nat /\ barriers \in Nat /\ started[c] \in Nat
  BY <1>0, <1>1 DEF TypeOK, Stacks
<1>3. k < barriers
  BY DEF Barrier, Depth
<1>4. i = IF cur + 1 = NumItems THEN 0 ELSE cur + 1
  BY <1>2 DEF Item
<1>5. i \in Item
  BY <1>2, <1>4 DEF Item
<1>6. /\ current'[c] = i /\ started'[c] = started[c] + 1
      /\ hitBarrier'[c] = TRUE /\ finished'[c] = finished[c]
      /\ barriers' = barriers
      /\ \A j \in Item : at'[c][j] = IF j = i /\ started[c] = i THEN 0
                                     ELSE IF j = cur THEN k + 1 ELSE at[c][j]
  <2>1. barriers' = barriers /\ finished' = finished
    BY DEF Barrier, rangeVars
  <2>2. \A j \in Item : at'[c][j] = IF j = i /\ started[c] = i THEN 0
                                    ELSE IF j = cur THEN k + 1 ELSE at[c][j]
    BY <1>0 DEF Barrier, SwitchTo, IsNew, Depth, TypeOK
  <2>3. /\ current'[c] = i /\ started'[c] = started[c] + 1
        /\ hitBarrier'[c] = TRUE
    BY <1>0 DEF Barrier, SwitchTo, TypeOK
  <2> QED
    BY <2>1, <2>2, <2>3
<1>7. /\ \A j \in Item :
           /\ j < cur => at[c][j] = k + 1
           /\ j > cur => at[c][j] = IF k = 0 THEN NoStack ELSE k
      /\ IF k = 0 THEN started[c] = cur + 1 ELSE started[c] >= NumItems
      /\ finished[c] = 0
  BY <1>1, <1>2, <1>3 DEF Stacks
<1> HIDE DEF i, cur, k
<1>8. CASE cur + 1 = NumItems
  <2>1. i = 0 /\ started[c] # i
    BY <1>2, <1>4, <1>7, <1>8 DEF Item
  <2>2. \A j \in Item : at'[c][j] = k + 1
    BY <1>2, <1>6, <1>7, <1>8, <2>1 DEF Item
  <2>3. Depth(c)' = k + 1
    BY <1>5, <1>6, <2>2 DEF Depth
  <2>4. started'[c] >= NumItems
    BY <1>2, <1>6, <1>7, <1>8
  <2>5. Stacks(c)'
    BY <1>2, <1>3, <1>6, <1>7, <2>1, <2>2, <2>3, <2>4 DEF Stacks, Item
  <2> QED
    BY <1>1, <1>2, <1>3, <1>6, <2>1, <2>5 DEF k
<1>9. CASE cur + 1 # NumItems
  <2>1. i = cur + 1 /\ (started[c] = i <=> k = 0)
    BY <1>2, <1>4, <1>5, <1>7, <1>9 DEF Item
  <2>2. /\ Depth(c)' = k
        /\ \A j \in Item :
             /\ j < i => at'[c][j] = k + 1
             /\ j > i => at'[c][j] = IF k = 0 THEN NoStack ELSE k
    <3>1. at'[c][i] = k
      BY <1>2, <1>5, <1>6, <1>7, <2>1 DEF Item
    <3>2. Depth(c)' = k
      BY <1>6, <3>1 DEF Depth
    <3>3. ASSUME NEW j \in Item
          PROVE  /\ j < i => at'[c][j] = k + 1
                 /\ j > i => at'[c][j] = IF k = 0 THEN NoStack ELSE k
      BY <1>2, <1>6, <1>7, <2>1 DEF Item
    <3> QED
      BY <3>2, <3>3
  <2>3. IF k = 0 THEN started'[c] = i + 1 ELSE started'[c] >= NumItems
    BY <1>2, <1>6, <1>7, <2>1
  <2>4. i > 0
    BY <1>2, <2>1 DEF Item
  <2>5. Stacks(c)'
    BY <1>2, <1>3, <1>6, <1>7, <2>2, <2>3, <2>4 DEF Stacks
  <2> QED
    BY <1>1, <1>2, <1>3, <2>2, <2>5 DEF k
<1> QED
  BY <1>8, <1>9

\* A work-item that ends makes way for the next one, which is as far.
LEMMA ExitStacks ==
  ASSUME IInv, NEW c \in Core, ExitToStack(c) \/ ExitToNew(c)
  PROVE  /\ Stacks(c)'
         /\ Depth(c)' = barriers /\ current'[c] = current[c] + 1
<1> DEFINE cur == current[c]
<1>0. TypeOK
  BY DEF IInv
<1>1. Exit(c) /\ ~IsLast(c)
  BY DEF ExitToStack, ExitToNew
<1>2. /\ Running(c) /\ Stacks(c) /\ Depth(c) = barriers
      /\ finished[c] = cur /\ cur + 1 \in Item
      /\ hitBarrier[c] <=> barriers > 0
      /\ hitBarrier[c] => started[c] >= NumItems
  BY <1>1, AtTheEnd DEF IInv, StacksSetUp
<1>3. barriers \in Nat /\ cur \in Item /\ started[c] \in Nat /\ cur \in Nat
  BY <1>0 DEF TypeOK, Item
<1>4. finished'[c] = cur + 1
  BY <1>0, <1>1, <1>2 DEF Exit, TypeOK
<1>5. at[c][cur] = barriers
  BY <1>2 DEF Depth
<1>6. \A j \in Item :
        /\ j < cur => at[c][j] = barriers
        /\ j > cur => at[c][j] = IF barriers = 0 THEN NoStack ELSE barriers
  BY <1>2 DEF Stacks
<1>7. CASE ExitToStack(c)
  <2>1. barriers > 0 /\ started[c] # cur + 1
    BY <1>2, <1>3, <1>7 DEF ExitToStack, Item
  <2>2. /\ current'[c] = cur + 1 /\ started'[c] = started[c] + 1
        /\ hitBarrier'[c] = TRUE /\ barriers' = barriers
    BY <1>0, <1>7 DEF ExitToStack, SwitchTo, TypeOK, rangeVars
  <2>3. \A j \in Item : at'[c][j] = IF j = cur THEN barriers ELSE at[c][j]
    BY <1>0, <1>7, <2>1 DEF ExitToStack, SwitchTo, IsNew, TypeOK
  <2>4. \A j \in Item : at'[c][j] = barriers
    BY <1>3, <1>6, <2>1, <2>3 DEF Item
  <2>5. Depth(c)' = barriers
    BY <1>2, <2>2, <2>4 DEF Depth
  <2>6. started'[c] >= NumItems
    BY <1>2, <1>3, <1>7, <2>2 DEF ExitToStack
  <2>7. Stacks(c)'
    BY <1>3, <1>4, <2>1, <2>2, <2>4, <2>5, <2>6 DEF Stacks
  <2> QED
    BY <2>2, <2>5, <2>7
<1>8. CASE ExitToNew(c)
  <2>1. barriers = 0
    BY <1>2, <1>3, <1>8 DEF ExitToNew
  <2>2. /\ current'[c] = cur + 1
        /\ hitBarrier'[c] = FALSE /\ barriers' = barriers
    BY <1>0, <1>8 DEF ExitToNew, TypeOK, rangeVars
  <2>3. \A j \in Item : at'[c][j] = IF j = cur + 1 THEN 0 ELSE at[c][j]
    BY <1>0, <1>8 DEF ExitToNew, TypeOK
  <2>4. Depth(c)' = 0
    BY <1>2, <2>2, <2>3 DEF Depth
  <2>5. \A j \in Item :
          /\ j < cur + 1 => at'[c][j] = 0
          /\ j > cur + 1 => at'[c][j] = NoStack
    BY <1>3, <1>5, <1>6, <2>1, <2>3 DEF Item
  <2>6. Stacks(c)'
    BY <1>4, <2>1, <2>2, <2>4, <2>5 DEF Stacks
  <2> QED
    BY <2>1, <2>2, <2>4, <2>6
<1> QED
  BY <1>7, <1>8

LEMMA StacksKept ==
  ASSUME IInv, [Next]_vars
  PROVE  StacksSetUp'
<1>0. TypeOK /\ StacksSetUp
  BY DEF IInv
<1>1. CASE \/ UNCHANGED vars
           \/ PostWork \/ Join \/ Free
           \/ \E w \in Worker : SeeWork(w) \/ FetchWork(w) \/ PostDone(w)
           \/ \E c \in Core : NoGroup(c)
  BY <1>0, <1>1, ItemsUntouched DEF StacksSetUp, Stacks, Depth, itemVars
<1>2. CASE \E n \in 0 .. MaxGroups, b \in 0 .. MaxBarriers : Launch(n, b)
  <2>1. \A c \in Core : ~Running(c)'
    BY <1>0, <1>2, QuietBetween, WorkerAssumption
       DEF Launch, Goto, Running, TypeOK, Core
  <2> QED
    BY <2>1 DEF StacksSetUp
<1>3. ASSUME NEW c \in Core,
             TakeGroup(c) \/ Barrier(c) \/ ExitLast(c) \/ ExitToStack(c)
               \/ ExitToNew(c)
      PROVE  StacksSetUp'
  <2>1. barriers' = barriers
    BY <1>3, RunStepQuiet DEF rangeVars
  <2>2. ASSUME NEW d \in Core, d # c, Running(d)'
        PROVE  Stacks(d)'
    BY <1>0, <1>3, <2>1, <2>2, OthersUntouched DEF StacksSetUp, Stacks, Depth
  <2>3. Running(c)' => Stacks(c)'
    <3>1. ~ExitLast(c) => Stacks(c)'
      BY <1>3, TakeGroupStacks, BarrierStacks, ExitStacks
    <3>2. ExitLast(c) => ~Running(c)'
      BY <1>0 DEF ExitLast, Goto, Running, TypeOK
    <3> QED
      BY <3>1, <3>2
  <2> QED
    BY <2>2, <2>3 DEF StacksSetUp
<1> QED
  BY <1>1, <1>2, <1>3 DEF Next, QueueStep, WorkerStep, RunStep, Core

-----------------------------------------------------------------------------

\* When a work-item of a group ends, the count of that work-item goes up.
LEMMA ExitCounts ==
  ASSUME IInv, NEW c \in Core, Exit(c)
  PROVE  /\ group[c] \in Group
         /\ \A g \in Group, i \in Item :
              ran'[g][i] = IF g = group[c] /\ i = current[c]
                           THEN 1 ELSE ran[g][i]
<1>0. TypeOK /\ Sharing /\ Counted
  BY DEF IInv
<1>1. Running(c) /\ Depth(c) = barriers /\ current[c] \in Item
  BY <1>0, AtTheEnd DEF TypeOK
<1>2. group[c] \in Group
  BY <1>0, <1>1 DEF Sharing, TypeOK, Group
<1>3. ran[group[c]][current[c]] = 0
  <2>1. ~(current[c] < current[c])
    BY <1>1 DEF Item
  <2> QED
    BY <1>0, <1>1, <1>2, <2>1 DEF Counted
<1>4. \A g \in Group, i \in Item :
        ran'[g][i] = IF g = group[c] /\ i = current[c]
                     THEN ran[g][i] + 1 ELSE ran[g][i]
  BY <1>0 DEF Exit, TypeOK
<1> QED
  BY <1>2, <1>3, <1>4

LEMMA CountedKept ==
  ASSUME IInv, [Next]_vars
  PROVE  Counted'
<1>0. TypeOK /\ Sharing /\ Counted
  BY DEF IInv
<1>1. CASE \/ UNCHANGED vars
           \/ PostWork \/ Join \/ Free
           \/ \E w \in Worker : SeeWork(w) \/ FetchWork(w) \/ PostDone(w)
           \/ \E c \in Core : NoGroup(c)
  <2>1. /\ UNCHANGED <<numGroups, barriers, group, current, at, ran>>
        /\ \A c \in Core : Running(c)' <=> Running(c)
        /\ nextGroup' \in Nat /\ nextGroup' >= nextGroup
        /\ nextGroup' # nextGroup => nextGroup >= numGroups
    BY <1>0, <1>1, ItemsUntouched DEF itemVars, TypeOK
  <2>2. \A g \in Group : /\ Taken(g)' <=> Taken(g)
                         /\ g >= nextGroup' => g >= nextGroup
                         /\ g < nextGroup' /\ g < numGroups => g < nextGroup
    BY <1>0, <2>1 DEF Taken, TypeOK, Group
  <2>3. \A c \in Core : Depth(c)' = Depth(c)
    BY <2>1 DEF Depth
  <2> QED
    BY <1>0, <2>1, <2>2, <2>3 DEF Counted
<1>2. CASE \E n \in 0 .. MaxGroups, b \in 0 .. MaxBarriers : Launch(n, b)
  <2>1. \A c \in Core : ~Running(c)'
    BY <1>0, <1>2, QuietBetween, WorkerAssumption
       DEF Launch, Goto, Running, TypeOK, Core
  <2>2. nextGroup' = 0 /\ \A g \in Group, i \in Item : ran'[g][i] = 0
    BY <1>2 DEF Launch, FirstGroup
  <2>3. \A g \in Group : ~(g < nextGroup')
    BY <2>2 DEF Group
  <2> QED
    BY <2>1, <2>2, <2>3 DEF Counted
<1>3. ASSUME NEW c \in Core, TakeGroup(c)
      PROVE  Counted'
  <2>1. /\ ~Running(c) /\ Running(c)' /\ group'[c] = nextGroup
        /\ nextGroup < numGroups /\ nextGroup' = nextGroup + 1
        /\ UNCHANGED <<numGroups, barriers, ran>>
    BY <1>0, <1>3 DEF TakeGroup, Goto, rangeVars, TypeOK, Running
  <2>2. \A d \in Core : d # c =>
          /\ Running(d)' <=> Running(d)
          /\ group'[d] = group[d] /\ current'[d] = current[d]
          /\ Depth(d)' = Depth(d)
    BY <1>3, OthersUntouched DEF Depth
  <2>3. current'[c] = 0
    BY <1>3, TakeGroupStacks
  <2>4. ASSUME NEW g \in Group, NEW i \in Item
        PROVE  /\ g >= nextGroup' \/ g >= numGroups' => ran'[g][i] = 0
               /\ g < nextGroup' /\ g < numGroups' /\ ~Taken(g)' =>
                    ran'[g][i] = 1
    <3>1. g >= nextGroup' => g >= nextGroup
      BY <1>0, <2>1 DEF TypeOK, Group
    <3>2. g < nextGroup' /\ ~Taken(g)' => g < nextGroup /\ ~Taken(g)
      <4>1. Taken(g) => Taken(g)'
        BY <2>1, <2>2 DEF Taken
      <4>2. g = nextGroup => Taken(g)'
        BY <2>1 DEF Taken
      <4>3. g < nextGroup' => g < nextGroup \/ g = nextGroup
        BY <1>0, <2>1 DEF TypeOK, Group
      <4> QED
        BY <4>1, <4>2, <4>3
    <3> QED
      BY <1>0, <2>1, <3>1, <3>2 DEF Counted
  <2>5. ASSUME NEW g \in Group, NEW i \in Item, NEW d \in Core,
               Running(d)', group'[d] = g
        PROVE  ran'[g][i] = IF Depth(d)' = barriers' /\ i < current'[d]
                            THEN 1 ELSE 0
    <3>1. CASE d = c
      <4>1. ran[g][i] = 0
        BY <1>0, <2>1, <2>5, <3>1 DEF Counted, TypeOK
      <4> QED
        BY <2>1, <2>3, <3>1, <4>1 DEF Item
    <3>2. CASE d # c
      BY <1>0, <2>1, <2>2, <2>5, <3>2 DEF Counted
    <3> QED
      BY <3>1, <3>2
  <2> QED
    BY <2>4, <2>5 DEF Counted
<1>4. ASSUME NEW c \in Core, Barrier(c)
      PROVE  Counted'
  <2>1. /\ Running(c) /\ Running(c)' /\ Depth(c) # barriers
        /\ Depth(c)' # barriers \/ current'[c] = 0
        /\ UNCHANGED <<numGroups, nextGroup, barriers, ran, group>>
    BY <1>4, BarrierStacks DEF Barrier, rangeVars, Running
  <2>2. \A d \in Core : d # c =>
          /\ Running(d)' <=> Running(d)
          /\ current'[d] = current[d] /\ Depth(d)' = Depth(d)
    BY <1>4, OthersUntouched DEF Depth
  <2>3. \A g \in Group : Taken(g)' <=> Taken(g)
    BY <2>1, <2>2 DEF Taken
  <2>4. ASSUME NEW g \in Group, NEW i \in Item, NEW d \in Core,
               Running(d)', group'[d] = g
        PROVE  ran'[g][i] = IF Depth(d)' = barriers' /\ i < current'[d]
                            THEN 1 ELSE 0
    <3>1. CASE d = c
      <4>1. ran[g][i] = 0
        BY <1>0, <2>1, <2>4, <3>1 DEF Counted
      <4>2. ~(i < 0)
        BY DEF Item
      <4> QED
        BY <2>1, <3>1, <4>1, <4>2
    <3>2. CASE d # c
      BY <1>0, <2>1, <2>2, <2>4, <3>2 DEF Counted
    <3> QED
      BY <3>1, <3>2
  <2> QED
    BY <1>0, <2>1, <2>3, <2>4 DEF Counted
<1>5. ASSUME NEW c \in Core, ExitToStack(c) \/ ExitToNew(c)
      PROVE  Counted'
  <2>1. Exit(c) /\ UNCHANGED <<numGroups, nextGroup, barriers, group, pc>>
    BY <1>5 DEF ExitToStack, ExitToNew, rangeVars
  <2>2. /\ Depth(c) = barriers /\ Running(c) /\ current[c] \in Item
        /\ Depth(c)' = barriers /\ current'[c] = current[c] + 1
    BY <1>0, <1>5, <2>1, AtTheEnd, ExitStacks DEF TypeOK
  <2>3. \A d \in Core : d # c =>
          current'[d] = current[d] /\ Depth(d)' = Depth(d)
    BY <1>5, OthersUntouched DEF Depth
  <2>4. \A g \in Group : Taken(g)' <=> Taken(g)
    BY <2>1 DEF Taken, Running
  <2>5. ASSUME NEW g \in Group, NEW i \in Item, g # group[c]
        PROVE  ran'[g][i] = ran[g][i]
    BY <2>1, <2>5, ExitCounts
  <2>6. \A i \in Item :
          ran'[group[c]][i] = IF i < current[c] + 1 THEN 1 ELSE 0
    BY <1>0, <2>1, <2>2, ExitCounts DEF Counted, Item
  <2>7. ASSUME NEW g \in Group, NEW i \in Item, NEW d \in Core,
               Running(d)', group'[d] = g
        PROVE  ran'[g][i] = IF Depth(d)' = barriers' /\ i < current'[d]
                            THEN 1 ELSE 0
    <3>1. CASE d = c
      BY <2>1, <2>2, <2>6, <2>7, <3>1
    <3>2. CASE d # c
      <4>1. Running(d) /\ g # group[c]
        BY <1>0, <2>1, <2>2, <2>7, <3>2 DEF Sharing, Running
      <4> QED
        BY <1>0, <2>1, <2>3, <2>5, <2>7, <3>2, <4>1 DEF Counted
    <3> QED
      BY <3>1, <3>2
  <2>8. ASSUME NEW g \in Group, NEW i \in Item
        PROVE  /\ g >= nextGroup' \/ g >= numGroups' => ran'[g][i] = 0
               /\ g < nextGroup' /\ g < numGroups' /\ ~Taken(g)' =>
                    ran'[g][i] = 1
    <3>1. g = group[c] =>
            Taken(g) /\ ~(g >= nextGroup) /\ ~(g >= numGroups)
      <4>1. g = group[c] => Taken(g)
        BY <2>2 DEF Taken
      <4>2. group[c] < nextGroup /\ group[c] < numGroups
        BY <1>0, <2>2 DEF Sharing
      <4> QED
        BY <1>0, <4>1, <4>2 DEF TypeOK, Group
    <3> QED
      BY <1>0, <2>1, <2>4, <2>5, <3>1 DEF Counted
  <2> QED
    BY <2>7, <2>8 DEF Counted
<1>6. ASSUME NEW c \in Core, ExitLast(c)
      PROVE  Counted'
  <2>1. /\ Exit(c) /\ ~Running(c)'
        /\ UNCHANGED <<numGroups, nextGroup, barriers, group, current, at>>
    BY <1>0, <1>6 DEF ExitLast, Goto, rangeVars, Running, TypeOK
  <2>2. /\ Depth(c) = barriers /\ Running(c)
        /\ current[c] = NumItems - 1
    BY <1>6, <2>1, AtTheEnd DEF ExitLast
  <2>3. \A d \in Core : /\ d # c => (Running(d)' <=> Running(d))
                        /\ Depth(d)' = Depth(d)
    BY <1>6, <2>1, OthersUntouched DEF Depth
  <2>4. ASSUME NEW g \in Group, NEW i \in Item, g # group[c]
        PROVE  ran'[g][i] = ran[g][i] /\ (Taken(g)' <=> Taken(g))
    BY <2>1, <2>3, <2>4, ExitCounts DEF Taken
  <2>5. \A i \in Item : ran'[group[c]][i] = 1
    BY <1>0, <2>1, <2>2, ExitCounts DEF Counted, Item
  <2>6. ASSUME NEW g \in Group, NEW i \in Item, NEW d \in Core,
               Running(d)', group'[d] = g
        PROVE  ran'[g][i] = IF Depth(d)' = barriers' /\ i < current'[d]
                            THEN 1 ELSE 0
    <3>1. d # c
      BY <2>1, <2>6
    <3>2. Running(d) /\ g # group[c]
      BY <1>0, <2>1, <2>2, <2>3, <2>6, <3>1 DEF Sharing
    <3> QED
      BY <1>0, <2>1, <2>3, <2>4, <2>6, <3>2 DEF Counted
  <2>7. ASSUME NEW g \in Group, NEW i \in Item
        PROVE  /\ g >= nextGroup' \/ g >= numGroups' => ran'[g][i] = 0
               /\ g < nextGroup' /\ g < numGroups' /\ ~Taken(g)' =>
                    ran'[g][i] = 1
    <3>1. g = group[c] => ~(g >= nextGroup) /\ ~(g >= numGroups)
      <4>1. group[c] < nextGroup /\ group[c] < numGroups
        BY <1>0, <2>2 DEF Sharing
      <4>2. nextGroup \in Nat /\ numGroups \in Nat /\ g \in Nat
        BY <1>0 DEF TypeOK, Group
      <4> QED
        BY <4>1, <4>2
    <3> QED
      BY <1>0, <2>1, <2>4, <2>5, <3>1 DEF Counted
  <2> QED
    BY <2>6, <2>7 DEF Counted
<1> QED
  BY <1>1, <1>2, <1>3, <1>4, <1>5, <1>6
     DEF Next, QueueStep, WorkerStep, RunStep, Core

-----------------------------------------------------------------------------
(***************************************************************************)
(* The theorems.                                                           *)
(***************************************************************************)

THEOREM NextIInv == IInv /\ [Next]_vars => IInv'
BY TypingKept, PlacesKept, CountingKept, OneExecKept, SharingKept,
   StacksKept, CountedKept DEF IInv

\* The strengthened invariant holds for every number of threads, groups,
\* work-items, barriers and ND-ranges.
THEOREM Invariance == Spec => []IInv
BY InitIInv, NextIInv, PTL DEF Spec

\* Type correctness of the device, which includes that current_item always
\* is a work-item of the group (opencl_x86_device_barrier wraps, exit_fiber
\* stops at the last).
THEOREM Typing == Spec => []TypeOK
<1>1. IInv => TypeOK
  BY DEF IInv
<1> QED
  BY <1>1, Invariance, PTL

\* However many threads share the device, none of them works on an exec that
\* opencl_x86_ndrange_run has freed or on another ND-range than the last.
THEOREM ExecsAreAlive == Spec => []ExecAlive
<1>1. IInv => ExecAlive
  <2> SUFFICES ASSUME IInv, NEW c \in Core, pc[c] \in {"next", "run"}
               PROVE  allocated /\ exec[c] = launch
    BY DEF ExecAlive
  <2>1. CASE c = Queue
    BY <2>1 DEF IInv, OneExec
  <2>2. CASE c \in Worker
    <3>1. pc[Queue] # "idle"
      BY <2>2, BusyWithin
    <3> QED
      BY <2>2, <3>1 DEF IInv, OneExec
  <2> QED
    BY <2>1, <2>2 DEF Core
<1> QED
  BY <1>1, Invariance, PTL

\* For any number of work-items and barriers: no work-item goes on behind
\* a barrier before all of its group have reached it, and none is resumed on
\* a stack that opencl_x86_device_init_work_item has not set up.
THEOREM BarriersHold == Spec => []BarrierHolds
<1>1. IInv => BarrierHolds
  <2> SUFFICES ASSUME IInv, NEW c \in Core, Running(c)
               PROVE  /\ Depth(c) # NoStack
                      /\ Depth(c) > 0 => \A i \in Item : at[c][i] >= Depth(c)
    BY DEF BarrierHolds, Depth
  <2>1. Stacks(c) /\ current[c] \in Item /\ barriers \in Nat
    BY DEF IInv, StacksSetUp, TypeOK
  <2>2. Depth(c) \in Nat /\ Depth(c) # NoStack
    BY <2>1 DEF Stacks, NoStack
  <2>3. ASSUME Depth(c) > 0, NEW i \in Item
        PROVE  at[c][i] >= Depth(c)
    <3>1. i = current[c] => at[c][i] = Depth(c)
      BY DEF Depth
    <3>2. i # current[c] => i < current[c] \/ i > current[c]
      BY <2>1 DEF Item
    <3> QED
      BY <2>1, <2>2, <2>3, <3>1, <3>2 DEF Stacks
  <2> QED
    BY <2>2, <2>3
<1> QED
  BY <1>1, Invariance, PTL

\* However the threads share out the groups, no work-item runs twice and
\* none has been left out when the queue thread has seen all of them done.
THEOREM ItemsRunOnce == Spec => []EachItemOnce
<1>1. IInv => EachItemOnce
  <2> SUFFICES ASSUME IInv, NEW g \in Group, NEW i \in Item
               PROVE  /\ ran[g][i] <= 1
                      /\ pc[Queue] = "joined" /\ g < numGroups =>
                           ran[g][i] = 1
    BY DEF EachItemOnce
  <2>1. TypeOK /\ Sharing /\ Counted
    BY DEF IInv
  <2>2. ran[g][i] = 0 \/ ran[g][i] = 1
    <3>1. CASE Taken(g)
      BY <2>1, <3>1 DEF Counted, Taken
    <3>2. CASE ~Taken(g)
      BY <2>1, <3>2 DEF Counted, TypeOK, Group
    <3> QED
      BY <3>1, <3>2
  <2>3. ASSUME pc[Queue] = "joined", g < numGroups
        PROVE  ran[g][i] = 1
    <3>1. ~Taken(g)
      BY <2>3, QuietBetween DEF Taken
    <3>2. g < nextGroup
      BY <2>1, <2>3 DEF Sharing, TypeOK, Group
    <3> QED
      BY <2>1, <2>3, <3>1, <3>2 DEF Counted
  <2> QED
    BY <2>2, <2>3
<1> QED
  BY <1>1, Invariance, PTL
=============================================================================
