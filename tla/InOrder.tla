------------------------------ MODULE InOrder -------------------------------
(***************************************************************************)
(* What the command queues of the OpenCL runtime promise, without threads, *)
(* locks or reference counts: the commands of a queue are executed one     *)
(* after the other in the order in which they were enqueued, each after    *)
(* the events it waits for, and a call that waits for events returns only  *)
(* when they are complete.                                                 *)
(***************************************************************************)
EXTENDS Sequences, Naturals

CONSTANTS
  Queue,    \* the command queues
  Command,  \* the commands, each with its event
  User,     \* the user events
  Host      \* the threads of the program

VARIABLES
  enqueued,  \* the commands enqueued in each queue, in order
  waits,     \* the events each command waits for
  finished,  \* the commands executed and the user events set
  blocked    \* the events each host thread still waits for

vars == <<enqueued, waits, finished, blocked>>

Event == Command \cup User

Init ==
  /\ enqueued = [q \in Queue |-> <<>>]
  /\ waits = [c \in Command |-> {}]
  /\ finished = {}
  /\ blocked = [h \in Host |-> {}]

Listed(c) == \E q \in Queue : \E i \in DOMAIN enqueued[q] : enqueued[q][i] = c

Enqueue(q, c, W) ==
  /\ ~Listed(c) /\ c \notin W
  /\ enqueued' = [enqueued EXCEPT ![q] = Append(@, c)]
  /\ waits' = [waits EXCEPT ![c] = W]
  /\ UNCHANGED finished

\* The command at place i of queue q, which has its turn.
Execute(q, i) ==
  /\ enqueued[q][i] \notin finished
  /\ \A j \in 1 .. i - 1 : enqueued[q][j] \in finished
  /\ waits[enqueued[q][i]] \subseteq finished
  /\ finished' = finished \cup {enqueued[q][i]}
  /\ UNCHANGED <<enqueued, waits>>

SetUser(u) ==
  /\ u \notin finished
  /\ finished' = finished \cup {u}
  /\ UNCHANGED <<enqueued, waits>>

\* A host thread starts to wait for some events, or is through with one.
Block(h) ==
  /\ blocked[h] = {}
  /\ \E W \in SUBSET Event : blocked' = [blocked EXCEPT ![h] = W]

Unblock(h) ==
  /\ \E e \in blocked[h] \cap finished :
       blocked' = [blocked EXCEPT ![h] = @ \ {e}]
  /\ UNCHANGED <<enqueued, waits, finished>>

Next ==
  \/ \E q \in Queue, c \in Command, W \in SUBSET Event :
       /\ Enqueue(q, c, W)
       /\ blocked' = blocked \/ \E h \in Host : Block(h)
  \/ \E q \in Queue : \E i \in DOMAIN enqueued[q] :
       Execute(q, i) /\ UNCHANGED blocked
  \/ \E u \in User : SetUser(u) /\ UNCHANGED blocked
  \/ \E h \in Host : Block(h) /\ UNCHANGED <<enqueued, waits, finished>>
  \/ \E h \in Host : Unblock(h)

Spec == Init /\ [][Next]_vars
=============================================================================
