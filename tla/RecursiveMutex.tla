---------------------------- MODULE RecursiveMutex ----------------------------
(***************************************************************************)
(* RecursiveMutex_t (src/core/adx_RecursiveMutex.h) under cooperative       *)
(* tasks.  A task runs from the Wait() that resumes it to the next Wait()   *)
(* it calls, and no interrupt handler touches a mutex, so a step here is    *)
(* one call of TryLock, Unlock or Wait by the running task, or the          *)
(* dispatcher's call of a task.                                             *)
(*                                                                          *)
(* Events are reduced to what EventMailbox promises of them: "sent" says    *)
(* that the event has counted a Send its task was not yet called for, and   *)
(* the event a task is blocked with is Active; all others are Silent.       *)
(***************************************************************************)
EXTENDS SystemQueueOps, Sequences, FiniteSets

CONSTANTS Task,      \* the FSMs that use the mutex
          Event,     \* the events they pass to it
          GetFsm,    \* the FSM of each event
          Stray,     \* tasks with further active events while they are blocked
          Polling,   \* tasks that call TryLock and go on without waiting
          SIZE,      \* RecursiveMutexSignalQueue_SIZE
          MaxDepth   \* bound of the model: how deep calls nest, all tasks together

ASSUME MutexAssumption ==
  /\ Null \notin Event \cup Task
  /\ GetFsm \in [Event -> Task]
  /\ Stray \subseteq Task /\ Polling \subseteq Task
  /\ ValidSize(SIZE)
  /\ MaxDepth \in Nat \ {0}

VARIABLES
  ptrOwnersSignal, ptrWaitingSignal, Counter, SignalQueue,   \* the mutex
  running,  \* ptrRunningFsm, Null while the main loop runs
  pc,       \* pc[t]: "Ready" in its own code, "Blocked" in the Wait() of
            \*        Lock_bl, "Paused" in a Wait() of its own
  with,     \* the event a blocked task has passed to Lock_bl
  sent,     \* sent[e]: the event's counter is not zero
  held,     \* held[t]: successful locks less unlocks of the task (history)
  orderly   \* so far whoever had to ask has waited for the answer, and the
            \* queue has taken all requests (history)

mutex == <<ptrOwnersSignal, ptrWaitingSignal, Counter, SignalQueue>>
vars  == <<ptrOwnersSignal, ptrWaitingSignal, Counter, SignalQueue,
           running, pc, with, sent, held, orderly>>

Init ==
  /\ ptrOwnersSignal = Null
  /\ ptrWaitingSignal = Null
  /\ Counter = 0
  /\ SignalQueue = EmptyQueue(SIZE)
  /\ running = Null
  /\ pc = [t \in Task |-> "Paused"]
  /\ with = [t \in Task |-> Null]
  /\ sent = [e \in Event |-> FALSE]
  /\ held = [t \in Task |-> 0]
  /\ orderly = TRUE

--------------------------------------------------------------------------------
(* A name with an underscore is a faulty variant of the operator it is named  *)
(* after: a run replaces the one by the other to see its properties fail.     *)

\* A mutex that is reserved for nobody.
NotReserved_Ever(e) == TRUE

\* TryLock's outer condition: the mutex is not reserved for another event.
NotReserved(e) == ptrWaitingSignal \in {Null, e}

Free(e) == NotReserved(e) /\ ptrOwnersSignal = Null

\* A nested lock is recognised only before the mutex was ever handed over.
Nested_Unreserved(e) ==
  /\ ptrWaitingSignal = Null
  /\ ptrOwnersSignal # Null
  /\ GetFsm[ptrOwnersSignal] = GetFsm[e]

\* The owner is not compared.
Nested_Anybody(e) == NotReserved(e) /\ ptrOwnersSignal # Null

Nested(e) ==
  /\ NotReserved(e)
  /\ ptrOwnersSignal # Null
  /\ GetFsm[ptrOwnersSignal] = GetFsm[e]

\* TryLock answers true: Lock_bl returns to the task.
Acquire(t, e) ==
  /\ Free(e) \/ Nested(e)
  /\ ptrOwnersSignal' = IF Free(e) THEN e ELSE ptrOwnersSignal
  /\ Counter' = Counter + 1
  /\ held' = [held EXCEPT ![t] = @ + 1]
  /\ running' = t
  /\ pc' = [pc EXCEPT ![t] = "Ready"]
  /\ with' = [with EXCEPT ![t] = Null]
  /\ UNCHANGED <<ptrWaitingSignal, SignalQueue>>

\* A queue that takes entries without end.
HasRoom_Always == TRUE

HasRoom == IsNotFull(SignalQueue, SIZE)

Refused(e) == ~Free(e) /\ ~Nested(e)

\* The event is not queued.
Enqueue_Drop(e) ==
  /\ Refused(e)
  /\ HasRoom
  /\ UNCHANGED <<mutex, held>>

\* TryLock answers false, having queued the event.
Enqueue(e) ==
  /\ Refused(e)
  /\ HasRoom
  /\ SignalQueue' = Put(SignalQueue, SIZE, e)
  /\ UNCHANGED <<ptrOwnersSignal, ptrWaitingSignal, Counter, held>>

\* TryLock answers false and the queue is full: the event is sent instead, so
\* that the task comes back to ask again.
AskAgain(e) ==
  /\ Refused(e)
  /\ ~HasRoom
  /\ UNCHANGED <<mutex, held>>

\* Lock_bl waits.
Block(t, e) ==
  /\ running' = Null
  /\ pc' = [pc EXCEPT ![t] = "Blocked"]
  /\ with' = [with EXCEPT ![t] = e]

\* One turn of the loop in Lock_bl, entered with the events in "counted" sent.
Attempt(t, e, counted) ==
  \/ Acquire(t, e) /\ sent' = counted
  \/ Enqueue(e) /\ Block(t, e) /\ sent' = counted
  \/ AskAgain(e) /\ Block(t, e) /\ sent' = [counted EXCEPT ![e] = TRUE]

\* A call whose request, if there must be one, is queued.
InOrder(e) == Refused(e) => HasRoom

\* The running task calls Lock_bl, or TryLock with the answer true.
Lock_bl(t, e) ==
  /\ running = t
  /\ GetFsm[e] = t
  /\ held[t] < MaxDepth
  /\ Attempt(t, e, sent)
  /\ orderly' = (orderly /\ InOrder(e))

\* The running task calls TryLock and does something else when it is refused,
\* as with the null pointer of UsartDriver_t::OpenWrite; its event stays queued,
\* and is Silent when it is sent.
TryLock(t, e) ==
  /\ running = t
  /\ t \in Polling
  /\ GetFsm[e] = t
  /\ Refused(e)
  /\ \/ Enqueue(e) /\ UNCHANGED sent
     \/ AskAgain(e) /\ sent' = [sent EXCEPT ![e] = TRUE]
  /\ orderly' = FALSE
  /\ UNCHANGED <<running, pc, with>>

\* The dispatcher calls a task for the event it is blocked with.
Wake(t) ==
  /\ running = Null
  /\ pc[t] = "Blocked"
  /\ sent[with[t]]
  /\ Attempt(t, with[t], [sent EXCEPT ![with[t]] = FALSE])
  /\ orderly' = (orderly /\ InOrder(with[t]))

\* The dispatcher calls a blocked task for another of its active events:
\* Lock_bl does not look which event ended its Wait().
StrayWake(t) ==
  /\ running = Null
  /\ t \in Stray
  /\ pc[t] = "Blocked"
  /\ Attempt(t, with[t], sent)
  /\ orderly' = FALSE

\* An Unlock that wakes nobody.
Notify_Nobody(e) == UNCHANGED sent

\* ptrWaitingSignal->Send()
Notify(e) == sent' = [sent EXCEPT ![e] = TRUE]

\* Unlock by the running task, once for each lock it was given.
Unlock(t) ==
  /\ running = t
  /\ held[t] > 0
  /\ held' = [held EXCEPT ![t] = @ - 1]
  /\ Counter' = Counter - 1
  /\ \/ /\ Counter > 1
        /\ UNCHANGED <<ptrOwnersSignal, ptrWaitingSignal, SignalQueue, sent>>
     \/ /\ Counter = 1
        /\ IsNotEmpty(SignalQueue)
        /\ ptrWaitingSignal' = Front(SignalQueue, SIZE)
        /\ SignalQueue' = Get(SignalQueue, SIZE)
        /\ ptrOwnersSignal' = Null
        /\ Notify(Front(SignalQueue, SIZE))
     \/ /\ Counter = 1
        /\ ~IsNotEmpty(SignalQueue)
        /\ ptrWaitingSignal' = Null
        /\ ptrOwnersSignal' = Null
        /\ UNCHANGED <<SignalQueue, sent>>
  /\ UNCHANGED <<running, pc, with, orderly>>

\* The running task waits for something else, with or without the mutex.
Pause(t) ==
  /\ running = t
  /\ running' = Null
  /\ pc' = [pc EXCEPT ![t] = "Paused"]
  /\ UNCHANGED <<mutex, with, sent, held, orderly>>

\* That something has happened.
Resume(t) ==
  /\ running = Null
  /\ pc[t] = "Paused"
  /\ running' = t
  /\ pc' = [pc EXCEPT ![t] = "Ready"]
  /\ UNCHANGED <<mutex, with, sent, held, orderly>>

Next == \E t \in Task :
  \/ \E e \in Event : Lock_bl(t, e) \/ TryLock(t, e)
  \/ Wake(t) \/ StrayWake(t)
  \/ Unlock(t)
  \/ Pause(t) \/ Resume(t)

\* The task gives the mutex up altogether.
LastUnlock(t) == Counter = 1 /\ Unlock(t)

\* Event_t delivers what was sent, however often other tasks are called first
\* (NoStarvation of EventSystem); tasks are cooperative; what a holder waits
\* for happens; and a holder unlocks as often as it has locked, which the
\* manual (3.11, item 4) demands of applications.
Fairness == \A t \in Task : /\ SF_vars(Wake(t))
                            /\ WF_vars(Pause(t))
                            /\ SF_vars(Resume(t) /\ held[t] > 0)
                            /\ SF_vars(Unlock(t))
                            /\ SF_vars(LastUnlock(t))

Spec == Init /\ [][Next]_vars
FairSpec == Spec /\ Fairness

--------------------------------------------------------------------------------
(* Properties *)

\* Every variable has its type.
TypeOK ==
  /\ ptrOwnersSignal \in Event \cup {Null}
  /\ ptrWaitingSignal \in Event \cup {Null}
  /\ Counter \in 0..MaxDepth
  /\ SignalQueue \in Queues(SIZE, Event \cup {Null})
  /\ Used(SignalQueue) <= SIZE
  /\ running \in Task \cup {Null}
  /\ pc \in [Task -> {"Ready", "Blocked", "Paused"}]
  /\ with \in [Task -> Event \cup {Null}]
  /\ sent \in [Event -> BOOLEAN]
  /\ held \in [Task -> 0..MaxDepth]
  /\ orderly \in BOOLEAN

\* Two tasks never hold the mutex together, whatever wakes them and in whatever
\* order; and all locks that are held are counted, and counted for the owner.
MutualExclusion ==
  \A t \in Task : held[t] > 0 => /\ Counter = held[t]
                                 /\ ptrOwnersSignal # Null
                                 /\ GetFsm[ptrOwnersSignal] = t

\* A task that holds the mutex is never blocked by it: "Lock is binded to fsm
\* object address, so Lock() call can be nested and used with the different
\* Events assigned to the same fsm" (manual, 3.11).  The code keeps this as long
\* as each task has one event only; with another one it does not.
OwnerReenters == \A t \in Task : held[t] > 0 => pc[t] # "Blocked"

InQueue(e) == \E c \in LiveCells(SignalQueue, SIZE) : SignalQueue.cell[c] = e

\* No task is forgotten in Lock_bl, whatever the others do: its event is queued
\* for a later Unlock, or it has been sent and the task will ask again.  And as
\* long as all is orderly, a mutex that is reserved is reserved for a task that
\* is on its way to take it.
NobodyForgotten ==
  /\ \A t \in Task : pc[t] = "Blocked" => InQueue(with[t]) \/ sent[with[t]]
  /\ orderly /\ ptrOwnersSignal = Null /\ ptrWaitingSignal # Null =>
       LET t == GetFsm[ptrWaitingSignal] IN
       pc[t] = "Blocked" /\ with[t] = ptrWaitingSignal /\ sent[with[t]]

\* Whom the mutex belongs to: its owner, or the task it is reserved for.
Holder == IF ptrOwnersSignal # Null THEN GetFsm[ptrOwnersSignal]
          ELSE IF ptrWaitingSignal # Null THEN GetFsm[ptrWaitingSignal]
          ELSE Null

Line == [i \in 1..Used(SignalQueue) |->
           GetFsm[SignalQueue.cell[(SignalQueue.get + i - 1) % SIZE]]]

Fair == INSTANCE FairLock WITH None <- Null, holder <- Holder,
                               depth <- Counter, line <- Line

\* As long as each task has one event, the users follow the manual (3.11, items 3
\* and 6: whoever was refused waits for the event) and the queue has room, the
\* mutex is a lock handed from task to task in the order they asked: none
\* overtakes another between an Unlock and the retry of the task it woke.
ImplementsFairLock == Fair!Init /\ [][orderly' => Fair!Next]_(Fair!vars)

\* In such a run, of tasks with one event each, whoever asks for the mutex gets
\* it, if every holder unlocks it again.
EveryRequestGranted ==
  []orderly => \A t \in Task : pc[t] = "Blocked" ~> held[t] > 0
================================================================================
