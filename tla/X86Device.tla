----------------------------- MODULE X86Device ------------------------------
(***************************************************************************)
(* The x86 device of the OpenCL runtime: how an ND-range is run by the     *)
(* threads of the device.  Each core but the last has a thread that waits  *)
(* for work (opencl_x86_device_core_func); the thread of the command queue *)
(* stands for the last core (opencl_x86_ndrange_run).  The threads share   *)
(* out the work-groups of the ND-range with a counter; on a core, the      *)
(* work-items of a group run one at a time on stacks of their own and      *)
(* switch in barriers, or one after the other on a single stack if the     *)
(* kernel has none.                                                        *)
(*                                                                         *)
(* One command queue uses the device: nothing in the code would make two   *)
(* of them safe.  sync_wait spins, or sleeps on a condition variable that  *)
(* every sync_post broadcasts, until the counter has a certain value: both *)
(* are a guard on the counter here.                                        *)
(***************************************************************************)
EXTENDS Integers, FiniteSets

CONSTANTS
  Worker,      \* the threads of the cores but the last
  Queue,       \* the thread of the command queue
  MaxGroups,   \* an ND-range has at most so many work-groups
  NumItems,    \* work-items of a work-group
  MaxBarriers, \* a work-item calls barrier() at most so often
  Launches     \* bound on the number of ND-ranges

ASSUME WorkerAssumption == IsFiniteSet(Worker) /\ Queue \notin Worker
ASSUME SizeAssumption ==
  /\ MaxGroups \in Nat /\ NumItems \in Nat \ {0} /\ MaxBarriers \in Nat
  /\ Launches \in Nat

Core == Worker \cup {Queue}
Group == 0 .. MaxGroups - 1
Item == 0 .. NumItems - 1

\* The stack of a work-item that has not been set up.
NoStack == -1

VARIABLES
  launch,      \* how many ND-ranges there have been: names the last one
  allocated,   \* whether its opencl_x86_device_exec_t exists
  deviceExec,  \* device->exec, by the ND-range
  numGroups,   \* exec->num_groups
  nextGroup,   \* exec->next_group
  barriers,    \* how often the work-items of its kernel call barrier()
  workReady,   \* device->work_ready.count
  coresDone,   \* device->cores_done.count
  doneCount,   \* device->core_done_count
  pc,          \* where each thread is
  awaited,     \* count of opencl_x86_device_core_func
  exec,        \* the ND-range a thread works on
  group,       \* the work-group it runs
  current,     \* core->current_item
  started,     \* core->num_started
  finished,    \* core->num_done
  hitBarrier,  \* core->hit_barrier
  at,          \* how many barriers each work-item of the group has called
  ran          \* how often the work-items of the ND-range have been run

rangeVars == <<launch, allocated, deviceExec, numGroups, barriers>>
syncVars == <<workReady, coresDone, doneCount, awaited>>
itemVars == <<group, current, started, finished, hitBarrier, at>>
vars == <<rangeVars, nextGroup, syncVars, pc, exec, itemVars, ran>>

Init ==
  /\ launch = 0 /\ allocated = FALSE /\ deviceExec = 0
  /\ numGroups = 0 /\ nextGroup = 0 /\ barriers = 0
  /\ workReady = 0 /\ coresDone = 0 /\ doneCount = 0
  /\ pc = [c \in Core |-> IF c = Queue THEN "idle" ELSE "wait"]
  /\ awaited = [w \in Worker |-> 1]
  /\ exec = [c \in Core |-> 0]
  /\ group = [c \in Core |-> 0]
  /\ current = [c \in Core |-> 0]
  /\ started = [c \in Core |-> 0]
  /\ finished = [c \in Core |-> 0]
  /\ hitBarrier = [c \in Core |-> FALSE]
  /\ at = [c \in Core |-> [i \in Item |-> NoStack]]
  /\ ran = [g \in Group |-> [i \in Item |-> 0]]

Goto(c, place) == pc' = [pc EXCEPT ![c] = place]

-----------------------------------------------------------------------------
(***************************************************************************)
(* The thread of the command queue.                                        *)
(***************************************************************************)

\* Mutated form of FirstGroup: the memory is not cleared.
FirstGroupUncleared == nextGroup

\* next_group of a new exec, from xcalloc.
FirstGroup == 0

\* opencl_x86_ndrange_init, and run_partial with all n work-groups up to
\* device->exec.  Every work-item of the kernel calls b barriers.
Launch(n, b) ==
  /\ pc[Queue] = "idle" /\ launch < Launches
  /\ launch' = launch + 1
  /\ allocated' = TRUE
  /\ nextGroup' = FirstGroup
  /\ numGroups' = n
  /\ barriers' = b
  /\ deviceExec' = launch'
  /\ exec' = [exec EXCEPT ![Queue] = launch']
  /\ ran' = [g \in Group |-> [i \in Item |-> 0]]
  /\ Goto(Queue, "post")
  /\ UNCHANGED <<syncVars, itemVars>>

\* sync_post(&device->work_ready).
PostWork ==
  /\ pc[Queue] = "post"
  /\ workReady' = workReady + 1
  /\ Goto(Queue, "next")
  /\ UNCHANGED <<rangeVars, nextGroup, coresDone, doneCount, awaited, exec,
                 itemVars, ran>>

\* Mutated form of AllDone: one core less is waited for.
AllDoneButOne == doneCount + Cardinality(Worker) - 1

\* Mutated form of AllDone: the queue thread waits for itself too.
AllDoneAndSelf == doneCount + Cardinality(Core)

\* device->core_done_count after adding num_cores - 1.
AllDone == doneCount + Cardinality(Worker)

\* sync_wait(&device->cores_done, device->core_done_count).
Join ==
  /\ pc[Queue] = "join" /\ coresDone = doneCount
  /\ Goto(Queue, "joined")
  /\ UNCHANGED <<rangeVars, nextGroup, syncVars, exec, itemVars, ran>>

\* opencl_x86_ndrange_free.
Free ==
  /\ pc[Queue] = "joined"
  /\ allocated' = FALSE
  /\ Goto(Queue, "idle")
  /\ UNCHANGED <<launch, deviceExec, numGroups, barriers, nextGroup,
                 syncVars, exec, itemVars, ran>>

-----------------------------------------------------------------------------
(***************************************************************************)
(* The threads of the other cores.                                         *)
(***************************************************************************)

\* opencl_x86_device_has_work: the wait, with the count incremented before.
SeeWork(w) ==
  /\ pc[w] = "wait" /\ workReady = awaited[w]
  /\ Goto(w, "fetch")
  /\ UNCHANGED <<rangeVars, nextGroup, syncVars, exec, itemVars, ran>>

\* It returns device->exec.
FetchWork(w) ==
  /\ pc[w] = "fetch"
  /\ exec' = [exec EXCEPT ![w] = deviceExec]
  /\ Goto(w, "next")
  /\ UNCHANGED <<rangeVars, nextGroup, syncVars, itemVars, ran>>

\* (*old_count)++.
NextAwaited(w) == awaited[w] + 1

\* sync_post(&device->cores_done), and round the loop to has_work.
PostDone(w) ==
  /\ pc[w] = "done"
  /\ coresDone' = coresDone + 1
  /\ awaited' = [awaited EXCEPT ![w] = NextAwaited(w)]
  /\ Goto(w, "wait")
  /\ UNCHANGED <<rangeVars, nextGroup, workReady, doneCount, exec, itemVars,
                 ran>>

-----------------------------------------------------------------------------
(***************************************************************************)
(* Running work-groups (opencl_x86_device_run_exec).                       *)
(***************************************************************************)

\* get_next_work_group gives a group, and work_group_launch switches to its
\* first work-item.
TakeGroup(c) ==
  /\ pc[c] = "next" /\ nextGroup < numGroups
  /\ nextGroup' = nextGroup + 1
  /\ group' = [group EXCEPT ![c] = nextGroup]
  /\ current' = [current EXCEPT ![c] = 0]
  /\ started' = [started EXCEPT ![c] = 1]
  /\ finished' = [finished EXCEPT ![c] = 0]
  /\ hitBarrier' = [hitBarrier EXCEPT ![c] = FALSE]
  /\ at' = [at EXCEPT ![c] = [i \in Item |-> IF i = 0 THEN 0 ELSE NoStack]]
  /\ Goto(c, "run")
  /\ UNCHANGED <<rangeVars, syncVars, exec, ran>>

\* No group is left; the queue thread adds the others to core_done_count.
NoGroup(c) ==
  /\ pc[c] = "next" /\ nextGroup >= numGroups
  /\ nextGroup' = nextGroup + 1
  /\ Goto(c, IF c = Queue THEN "join" ELSE "done")
  /\ doneCount' = IF c = Queue THEN AllDone ELSE doneCount
  /\ UNCHANGED <<rangeVars, workReady, coresDone, awaited, exec, itemVars,
                 ran>>

\* Mutated form of IsNew: num_started is incremented before it is compared.
IsNewEarly(c, i) == started[c] + 1 = i

\* Whether the stack of work-item i must be set up when core c switches to it.
IsNew(c, i) == started[c] = i

\* Core c switches from its current work-item, which has now called n
\* barriers, to work-item i.
SwitchTo(c, i, n) ==
  /\ current' = [current EXCEPT ![c] = i]
  /\ started' = [started EXCEPT ![c] = @ + 1]
  /\ at' = [at EXCEPT ![c] =
       [j \in Item |-> IF j = i /\ IsNew(c, i) THEN 0
                       ELSE IF j = current[c] THEN n ELSE @[j]]]

\* opencl_x86_device_barrier.
Barrier(c) ==
  /\ pc[c] = "run" /\ at[c][current[c]] < barriers
  /\ hitBarrier' = [hitBarrier EXCEPT ![c] = TRUE]
  /\ SwitchTo(c, (current[c] + 1) % NumItems, at[c][current[c]] + 1)
  /\ UNCHANGED <<rangeVars, nextGroup, syncVars, pc, exec, group, finished,
                 ran>>

\* Whether the work-item that ends is the last one of its group.
IsLast(c) == finished[c] + 1 = NumItems

\* opencl_x86_device_exit_fiber: a work-item ends.
Exit(c) ==
  /\ pc[c] = "run" /\ at[c][current[c]] = barriers
  /\ finished' = [finished EXCEPT ![c] = @ + 1]
  /\ ran' = [ran EXCEPT ![group[c]][current[c]] = @ + 1]

\* It was the last one: back to the loop over the groups.
ExitLast(c) ==
  /\ Exit(c) /\ IsLast(c)
  /\ Goto(c, "next")
  /\ UNCHANGED <<rangeVars, nextGroup, syncVars, exec, group, current,
                 started, hitBarrier, at>>

\* The next one is in the middle of the kernel on its own stack.
ExitToStack(c) ==
  /\ Exit(c) /\ ~IsLast(c) /\ hitBarrier[c]
  /\ SwitchTo(c, current[c] + 1, barriers)
  /\ UNCHANGED <<rangeVars, nextGroup, syncVars, pc, exec, group, hitBarrier>>

\* The next one starts on the same stack (reinit_work_item).
ExitToNew(c) ==
  /\ Exit(c) /\ ~IsLast(c) /\ ~hitBarrier[c]
  /\ current' = [current EXCEPT ![c] = @ + 1]
  /\ at' = [at EXCEPT ![c][current[c] + 1] = 0]
  /\ UNCHANGED <<rangeVars, nextGroup, syncVars, pc, exec, group, started,
                 hitBarrier>>

-----------------------------------------------------------------------------

RunStep(c) ==
  \/ TakeGroup(c) \/ NoGroup(c)
  \/ Barrier(c) \/ ExitLast(c) \/ ExitToStack(c) \/ ExitToNew(c)

WorkerStep(w) == SeeWork(w) \/ FetchWork(w) \/ PostDone(w) \/ RunStep(w)

QueueStep == PostWork \/ Join \/ Free \/ RunStep(Queue)

Next ==
  \/ \E n \in 0 .. MaxGroups, b \in 0 .. MaxBarriers : Launch(n, b)
  \/ QueueStep
  \/ \E w \in Worker : WorkerStep(w)

Spec == Init /\ [][Next]_vars

\* The threads are scheduled fairly; nothing is assumed about new ND-ranges.
FairSpec ==
  Spec /\ WF_vars(QueueStep) /\ \A w \in Worker : WF_vars(WorkerStep(w))

-----------------------------------------------------------------------------
(***************************************************************************)
(* Properties.                                                             *)
(***************************************************************************)

TypeOK ==
  /\ launch \in Nat /\ allocated \in BOOLEAN
  /\ deviceExec \in Nat /\ numGroups \in 0 .. MaxGroups
  /\ nextGroup \in Nat /\ barriers \in 0 .. MaxBarriers
  /\ workReady \in Nat /\ coresDone \in Nat /\ doneCount \in Nat
  /\ pc \in [Core -> {"idle", "post", "next", "run", "join", "joined",
                      "wait", "fetch", "done"}]
  /\ awaited \in [Worker -> Nat]
  /\ exec \in [Core -> Nat]
  /\ group \in [Core -> Nat]
  /\ current \in [Core -> Item]
  /\ started \in [Core -> Nat]
  /\ finished \in [Core -> Nat]
  /\ hitBarrier \in [Core -> BOOLEAN]
  /\ at \in [Core -> [Item -> NoStack .. MaxBarriers]]
  /\ ran \in [Group -> [Item -> Nat]]

Running(c) == pc[c] = "run"

\* A thread that works on an ND-range works on the one that was launched
\* last, whose exec has not been freed: the wait for cores_done lets nobody
\* behind.
ExecAlive ==
  \A c \in Core :
    pc[c] \in {"next", "run"} => allocated /\ exec[c] = launch

\* No work-item goes on behind a barrier that another work-item of its group
\* has not reached, and none is resumed whose stack was not set up.
BarrierHolds ==
  \A c \in Core : Running(c) =>
    LET behind == at[c][current[c]] IN
    /\ behind # NoStack
    /\ behind > 0 => \A i \in Item : at[c][i] >= behind

\* However the threads share the groups, each work-item is run once, and all
\* of them have been run when the wait for the other cores is over.
EachItemOnce ==
  \A g \in Group, i \in Item :
    /\ ran[g][i] <= 1
    /\ pc[Queue] = "joined" /\ g < numGroups => ran[g][i] = 1

\* Every ND-range comes to its end: no thread is left waiting for
\* a value of a counter that has been passed.
LaunchEnds == (pc[Queue] = "post") ~> (pc[Queue] = "joined")
=============================================================================
