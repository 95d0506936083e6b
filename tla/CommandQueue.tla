---------------------------- MODULE CommandQueue ----------------------------
(***************************************************************************)
(* The command queues and events of the OpenCL runtime.  Threads of the    *)
(* program enqueue commands, flush and finish queues, wait for events and  *)
(* release events and queues; every queue has a thread that executes its   *)
(* commands in order.  Each action is what a thread does under one lock,   *)
(* with what it does before and after that no other thread can tell.       *)
(*                                                                         *)
(* The program keeps the rules that the code counts on.  Its threads share *)
(* one reference to each event and queue and use nothing that they have    *)
(* released; it leaves the list of events to wait for alone until the      *)
(* command has ended; it sets user events to CL_COMPLETE from a thread     *)
(* that waits for nothing; and it releases a queue when no event of the    *)
(* queue is used any more (opencl_event_wait locks the queue of the event, *)
(* which may be gone).                                                     *)
(***************************************************************************)
EXTENDS Integers, Sequences, FiniteSets

CONSTANTS
  Host,         \* the threads of the program
  Queue,        \* the command queues, which stand for their threads too
  MaxCommands,  \* bound on the number of commands
  User,         \* the user events
  None

Thread == Host \cup Queue
Command == 1 .. MaxCommands
Event == Command \cup User

\* The command that ends the thread of a queue.
End == 0

ASSUME CommandQueueAssumption ==
  /\ MaxCommands \in Nat /\ IsFiniteSet(Host)
  /\ Host \cap Queue = {} /\ Thread \cap Nat = {}
  /\ User \cap (Nat \cup Thread) = {}
  /\ None \notin Thread /\ None \notin User /\ None \notin Nat

VARIABLES
  pc,         \* where each thread is
  commands,   \* the number of commands created
  queueOf,    \* command->command_queue, which its event has as well
  waits,      \* command->wait_events
  list,       \* command_queue->command_list
  process,    \* command_queue->process
  refs,       \* ref_count of each event: it is freed when it is 0
  complete,   \* the events whose status is CL_COMPLETE
  doing,      \* the command a thread runs or waits for, the queue it frees
  left,       \* the events that a thread has yet to wait for
  target,     \* the one of them it waits for now
  handles,    \* the commands to whose event the program has a reference
  open,       \* the queues to which it has a reference
  enqueued    \* the commands that each queue has been given, in order

listVars == <<list, process, enqueued>>
commandVars == <<commands, queueOf, waits>>
vars == <<pc, commandVars, listVars, refs, complete, doing, left, target,
          handles, open>>

\* The program has created the queues and keeps a reference to each user event.
Init ==
  /\ pc = [t \in Thread |-> IF t \in Queue THEN "dequeue" ELSE "idle"]
  /\ commands = 0
  /\ queueOf = [c \in Command |-> None]
  /\ waits = [c \in Command |-> {}]
  /\ list = [q \in Queue |-> <<>>]
  /\ process = [q \in Queue |-> FALSE]
  /\ refs = [e \in Event |-> IF e \in User THEN 1 ELSE 0]
  /\ complete = {}
  /\ doing = [t \in Thread |-> None]
  /\ left = [t \in Thread |-> {}]
  /\ target = [t \in Thread |-> None]
  /\ handles = {}
  /\ open = Queue
  /\ enqueued = [q \in Queue |-> <<>>]

Goto(t, place) == pc' = [pc EXCEPT ![t] = place]

-----------------------------------------------------------------------------
(***************************************************************************)
(* Flushing a queue and waiting for events, by host and queue threads.     *)
(***************************************************************************)

\* opencl_command_queue_flush: whether there is something to signal.
Signals(q) == list[q] # <<>> /\ ~process[q]

\* Thread t, on its way to place, flushes queue q.
FlushAnd(t, q, place) ==
  /\ process' = [process EXCEPT ![q] = @ \/ Signals(q)]
  /\ pc' = [u \in Thread |->
       IF u = t THEN place
       ELSE IF u = q /\ Signals(q) /\ pc[q] = "asleep" THEN "dequeue"
       ELSE pc[u]]
  /\ UNCHANGED <<list, enqueued>>

\* Where a thread goes when it is through with its events.
AfterWait(t) ==
  IF t \in Queue THEN "run" ELSE IF doing[t] # None THEN "release" ELSE "idle"

\* clWaitForEvents checks the events first; opencl_command_run takes no notice
\* of an error.
Verify(q) ==
  /\ pc[q] = "verify"
  /\ IF \A e \in left[q] : refs[e] > 0
     THEN Goto(q, "flush") /\ UNCHANGED left
     ELSE Goto(q, "run") /\ left' = [left EXCEPT ![q] = {}]
  /\ UNCHANGED <<commandVars, listVars, refs, complete, doing, target,
                 handles, open>>

\* opencl_event_wait flushes the queue of the event.
WaitFlush(t, e, place) ==
  IF e \in User THEN Goto(t, place) /\ UNCHANGED listVars
  ELSE FlushAnd(t, queueOf[e], place)

\* The place of a thread that is through with event e.
Past(t, e) == IF left[t] = {e} THEN AfterWait(t) ELSE "flush"

\* Then it sleeps until the event is complete.
StartWait(t) ==
  /\ pc[t] = "flush"
  /\ \E e \in left[t] :
       IF e \in complete
       THEN /\ WaitFlush(t, e, Past(t, e))
            /\ left' = [left EXCEPT ![t] = @ \ {e}]
            /\ UNCHANGED target
       ELSE /\ WaitFlush(t, e, "sleep")
            /\ target' = [target EXCEPT ![t] = e]
            /\ UNCHANGED left
  /\ UNCHANGED <<commandVars, refs, complete, doing, handles, open>>

\* It has been woken, and the event is complete.
EndWait(t) ==
  /\ pc[t] = "await" /\ target[t] \in complete
  /\ left' = [left EXCEPT ![t] = @ \ {target[t]}]
  /\ target' = [target EXCEPT ![t] = None]
  /\ Goto(t, Past(t, target[t]))
  /\ UNCHANGED <<commandVars, listVars, refs, complete, doing, handles, open>>

\* opencl_event_set_status(e, CL_COMPLETE): the threads that are woken, and
\* where everybody is afterwards.
Complete(e, there) ==
  /\ complete' = complete \cup {e}
  /\ pc' = [u \in Thread |->
       IF pc[u] = "sleep" /\ target[u] = e THEN "await" ELSE there[u]]

-----------------------------------------------------------------------------
(***************************************************************************)
(* The threads of the program.                                             *)
(***************************************************************************)

\* Mutated form of Retained: the command holds no reference to the events.
RetainedNothing(W) == refs

\* clRetainEvent for the events of the wait list.
Retained(W) == [e \in Event |-> refs[e] + IF e \in W THEN 1 ELSE 0]

\* opencl_command_create and opencl_command_queue_enqueue: a new command that
\* waits for W.  A command whose event nobody asked for is like one whose event
\* is released at once.
Enqueue(h, q, W) ==
  LET c == commands + 1 IN
  /\ pc[h] = "idle" /\ q \in open /\ commands < MaxCommands
  /\ commands' = c
  /\ queueOf' = [queueOf EXCEPT ![c] = q]
  /\ waits' = [waits EXCEPT ![c] = W]
  /\ refs' = [Retained(W) EXCEPT ![c] = 2]
  /\ list' = [list EXCEPT ![q] = Append(@, c)]
  /\ enqueued' = [enqueued EXCEPT ![q] = Append(@, c)]
  /\ UNCHANGED <<process, complete, target, open>>

\* clEnqueueNDRangeKernel, clEnqueueReadBuffer and the like.
EnqueueCommand(h, q) ==
  /\ \E W \in SUBSET (handles \cup User) : Enqueue(h, q, W)
  /\ handles' = handles \cup {commands'}
  /\ UNCHANGED <<pc, doing, left>>

\* clFinish enqueues a NOP and waits for it.
Finish(h, q) ==
  /\ Enqueue(h, q, {})
  /\ doing' = [doing EXCEPT ![h] = commands']
  /\ left' = [left EXCEPT ![h] = {commands'}]
  /\ Goto(h, "flush")
  /\ UNCHANGED handles

\* clFinish releases the event of the NOP.
ReleaseLast(h) ==
  /\ pc[h] = "release"
  /\ refs' = [refs EXCEPT ![doing[h]] = @ - 1]
  /\ doing' = [doing EXCEPT ![h] = None]
  /\ Goto(h, "idle")
  /\ UNCHANGED <<commandVars, listVars, complete, left, target, handles,
                 open>>

\* clFlush
Flush(h, q) ==
  /\ pc[h] = "idle" /\ q \in open
  /\ Signals(q)
  /\ FlushAnd(h, q, "idle")
  /\ UNCHANGED <<commandVars, refs, complete, doing, left, target, handles,
                 open>>

\* clWaitForEvents, which finds the event since the program has a reference.
\* A call for several events is like several calls.
WaitForEvents(h) ==
  /\ pc[h] = "idle"
  /\ \E e \in handles : left' = [left EXCEPT ![h] = {e}]
  /\ Goto(h, "flush")
  /\ UNCHANGED <<commandVars, listVars, refs, complete, doing, target,
                 handles, open>>

\* clReleaseEvent
Release(h, e) ==
  /\ pc[h] = "idle" /\ e \in handles
  /\ \A g \in Host : e \notin left[g]
  /\ handles' = handles \ {e}
  /\ refs' = [refs EXCEPT ![e] = @ - 1]
  /\ UNCHANGED <<pc, commandVars, listVars, complete, doing, left, target,
                 open>>

\* clSetUserEventStatus, by a thread with a reference of its own.
SetUser(u) ==
  /\ u \notin complete
  /\ Complete(u, pc)
  /\ UNCHANGED <<commandVars, listVars, refs, doing, left, target, handles,
                 open>>

\* The events of a queue that are still to be used for something.
InUse(q) ==
  {c \in Command :
    /\ queueOf[c] = q
    /\ \/ c \in handles
       \/ \E h \in Host : doing[h] = c
       \/ \E d \in 1 .. commands : c \in waits[d] /\ d \notin complete}

\* clReleaseCommandQueue: with the last reference opencl_command_queue_free
\* enqueues the END command,
ReleaseQueue(h, q) ==
  /\ pc[h] = "idle" /\ q \in open /\ InUse(q) = {}
  /\ open' = open \ {q}
  /\ list' = [list EXCEPT ![q] = Append(@, End)]
  /\ doing' = [doing EXCEPT ![h] = q]
  /\ Goto(h, "end")
  /\ UNCHANGED <<process, enqueued, commandVars, refs, complete, left, target,
                 handles>>

\* flushes the queue,
FlushEnd(h) ==
  /\ pc[h] = "end"
  /\ FlushAnd(h, doing[h], "join")
  /\ UNCHANGED <<commandVars, refs, complete, doing, left, target, handles,
                 open>>

\* and joins its thread.
Join(h) ==
  /\ pc[h] = "join" /\ pc[doing[h]] = "ended"
  /\ doing' = [doing EXCEPT ![h] = None]
  /\ pc' = [pc EXCEPT ![h] = "idle", ![doing[h]] = "freed"]
  /\ UNCHANGED <<commandVars, listVars, refs, complete, left, target, handles,
                 open>>

-----------------------------------------------------------------------------
(***************************************************************************)
(* The thread of a command queue (opencl_command_queue_thread_func).       *)
(***************************************************************************)

\* opencl_command_queue_dequeue sleeps,
Idle(q) ==
  /\ pc[q] = "dequeue" /\ (~process[q] \/ list[q] = <<>>)
  /\ Goto(q, "asleep")
  /\ UNCHANGED <<commandVars, listVars, refs, complete, doing, left, target,
                 handles, open>>

\* Mutated form of MoreToProcess: every command needs a flush of its own.
OneAtATime(q) == FALSE

\* Whether it goes on processing after the command it takes.
MoreToProcess(q) == Len(list[q]) > 1

\* Mutated form of Taken: the list is taken for a stack.
TakenLast(q) == Len(list[q])

\* The place in the list of the command that is taken.
Taken(q) == 1

\* or takes a command.
Dequeue(q) ==
  LET c == list[q][Taken(q)] IN
  /\ pc[q] = "dequeue" /\ process[q] /\ list[q] # <<>>
  /\ list' = [list EXCEPT ![q] =
       SubSeq(@, 1, Taken(q) - 1) \o SubSeq(@, Taken(q) + 1, Len(@))]
  /\ process' = [process EXCEPT ![q] = MoreToProcess(q)]
  /\ IF c = End
     THEN Goto(q, "ended") /\ UNCHANGED <<doing, left>>
     ELSE /\ doing' = [doing EXCEPT ![q] = c]
          /\ left' = [left EXCEPT ![q] = waits[c]]
          /\ Goto(q, IF waits[c] = {} THEN "run" ELSE "verify")
  /\ UNCHANGED <<enqueued, commandVars, refs, complete, target, handles,
                 open>>

\* opencl_command_run calls the function of the command and completes its
\* event.
Run(q) ==
  /\ pc[q] = "run"
  /\ Complete(doing[q], [pc EXCEPT ![q] = "free"])
  /\ UNCHANGED <<commandVars, listVars, refs, doing, left, target, handles,
                 open>>

\* opencl_command_free
FreeCommand(q) ==
  /\ pc[q] = "free"
  /\ refs' = [e \in Event |->
       refs[e] - IF e \in waits[doing[q]] \cup {doing[q]} THEN 1 ELSE 0]
  /\ doing' = [doing EXCEPT ![q] = None]
  /\ Goto(q, "dequeue")
  /\ UNCHANGED <<commandVars, listVars, complete, left, target, handles,
                 open>>

-----------------------------------------------------------------------------

WaitStep(t) == StartWait(t) \/ EndWait(t)

QueueStep(q) ==
  \/ Idle(q) \/ Dequeue(q) \/ Verify(q) \/ Run(q) \/ FreeCommand(q)
  \/ WaitStep(q)

\* A call that has started goes on.
HostStep(h) ==
  \/ ReleaseLast(h) \/ FlushEnd(h) \/ Join(h)
  \/ WaitStep(h)

Call(h) ==
  \/ \E q \in Queue :
       EnqueueCommand(h, q) \/ Finish(h, q) \/ Flush(h, q) \/ ReleaseQueue(h, q)
  \/ WaitForEvents(h)
  \/ \E e \in Command : Release(h, e)

Next ==
  \/ \E h \in Host : Call(h) \/ HostStep(h)
  \/ \E q \in Queue : QueueStep(q)
  \/ \E u \in User : SetUser(u)

Spec == Init /\ [][Next]_vars

\* The threads are scheduled, and the program sets its user events.
FairSpec ==
  /\ Spec
  /\ \A h \in Host : WF_vars(HostStep(h))
  /\ \A q \in Queue : WF_vars(QueueStep(q))
  /\ \A u \in User : WF_vars(SetUser(u))

-----------------------------------------------------------------------------
(***************************************************************************)
(* Properties.                                                             *)
(***************************************************************************)

\* Nothing is used after it was freed: an event that a thread waits for, that
\* a thread is about to complete, or that a command waits for has references
\* left, no count gets below zero, and a queue that is flushed, enqueued to
\* or freed still exists.  A queue is empty when it is freed, as
\* opencl_command_queue_free asserts.
NothingFreedInUse ==
  /\ \A e \in Event : refs[e] >= 0
  /\ \A t \in Thread : \A e \in left[t] :
       /\ pc[t] # "run" => refs[e] > 0
       /\ e \in Command => pc[queueOf[e]] # "freed"
  /\ \A q \in Queue :
       /\ pc[q] \in {"run", "free"} => refs[doing[q]] > 0
       /\ pc[q] \in {"ended", "freed"} => list[q] = <<>>

\* Every call that waits returns: no signal is lost, and no queue that others
\* wait for is left without a flush.
WaitsEnd == \A h \in Host : pc[h] # "idle" ~> pc[h] = "idle"

Abstract == INSTANCE InOrder WITH
  finished <- complete,
  blocked <- [h \in Host |-> left[h]]

\* The queues execute commands in order and after the events they wait for,
\* and no wait of the program returns early.
ImplementsInOrder == Abstract!Spec
=============================================================================
