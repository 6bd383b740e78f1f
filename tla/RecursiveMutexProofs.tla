------------------------ MODULE RecursiveMutexProofs ------------------------
(***************************************************************************)
(* Theorems about RecursiveMutex, for every set of tasks and of events,     *)
(* every size of its queue, and whatever wakes a blocked task.              *)
(***************************************************************************)
EXTENDS RecursiveMutex, SystemQueueOpsProofs

\* The members of the mutex have their types.
MutexType ==
  /\ ptrOwnersSignal \in Event \cup {Null}
  /\ ptrWaitingSignal \in Event \cup {Null}
  /\ Counter \in 0..MaxDepth
  /\ SignalQueue \in Queues(SIZE, Event \cup {Null})
  /\ Used(SignalQueue) <= SIZE

\* So has what is known of the tasks and the events.
TaskType ==
  /\ running \in Task \cup {Null}
  /\ pc \in [Task -> {"Ready", "Blocked", "Paused"}]
  /\ with \in [Task -> Event \cup {Null}]
  /\ sent \in [Event -> BOOLEAN]
  /\ held \in [Task -> 0..MaxDepth]
  /\ orderly \in BOOLEAN

\* All successful locks are the owner's, and Counter counts them.
OwnerInv ==
  IF ptrOwnersSignal = Null
  THEN Counter = 0 /\ \A t \in Task : held[t] = 0
  ELSE /\ Counter > 0
       /\ \A t \in Task :
            held[t] = IF t = GetFsm[ptrOwnersSignal] THEN Counter ELSE 0

\* A blocked task asks with an event of its own, and for a lock within the
\* bound on nesting.
BlockedInv ==
  \A t \in Task : pc[t] = "Blocked" => /\ with[t] \in Event
                                       /\ GetFsm[with[t]] = t
                                       /\ held[t] < MaxDepth

IInv == MutexType /\ TaskType /\ OwnerInv /\ BlockedInv

--------------------------------------------------------------------------------
\* The mutex is free and nobody has asked for it.
LEMMA InitInv == Init => IInv
<1> SUFFICES ASSUME Init PROVE IInv
  OBVIOUS
<1>1. MutexType
  <2>1. EmptyQueue(SIZE) \in Queues(SIZE, Event \cup {Null})
    BY MutexAssumption, IndexModAssumption DEF EmptyQueue, Queues, ValidSize
  <2>2. Used(SignalQueue) = 0
    BY <2>1, QueueIndices DEF Init, EmptyQueue
  <2> QED BY <2>1, <2>2, MutexAssumption DEF Init, MutexType, ValidSize
<1>2. TaskType
  BY MutexAssumption DEF Init, TaskType
<1>3. OwnerInv /\ BlockedInv
  BY DEF Init, OwnerInv, BlockedInv
<1> QED BY <1>1, <1>2, <1>3 DEF IInv

\* A request that is queued fits into the queue.
LEMMA EnqueueQueue ==
  ASSUME MutexType, NEW e \in Event, Enqueue(e)
  PROVE  SignalQueue' \in Queues(SIZE, Event \cup {Null}) /\ Used(SignalQueue') <= SIZE
<1>1. SignalQueue \in Queues(SIZE, Event \cup {Null}) /\ IsNotFull(SignalQueue, SIZE)
  BY DEF MutexType, Enqueue, HasRoom
<1>2. e \in Event \cup {Null} /\ ValidSize(SIZE)
  BY MutexAssumption
<1>3. /\ Put(SignalQueue, SIZE, e) \in Queues(SIZE, Event \cup {Null})
      /\ Used(Put(SignalQueue, SIZE, e)) = Used(SignalQueue) + 1
  <2>1. PICK Ent : Ent = Event \cup {Null}
    OBVIOUS
  <2>2. e \in Ent /\ SignalQueue \in Queues(SIZE, Ent)
    BY <1>1, <1>2, <2>1
  <2>3. /\ Put(SignalQueue, SIZE, e) \in Queues(SIZE, Ent)
        /\ Used(Put(SignalQueue, SIZE, e)) = Used(SignalQueue) + 1
    BY <1>1, <1>2, <2>2, PutFacts
  <2> QED BY <2>1, <2>3
<1>4. Used(Put(SignalQueue, SIZE, e)) <= SIZE
  <2>1. Used(SignalQueue) \in 0..(IndexMod - 1) /\ IndexMod \in Nat
    BY <1>1, QueueIndices, IndexModAssumption
  <2>2. Used(SignalQueue) < SIZE /\ SIZE \in Nat
    BY <1>1, <1>2 DEF IsNotFull, ValidSize
  <2> QED BY <1>3, <2>1, <2>2
<1> QED BY <1>3, <1>4 DEF Enqueue

\* TryLock, whatever it answers, called for a task with an event of its own.
LEMMA AttemptInv ==
  ASSUME IInv, NEW t \in Task, NEW e \in Event, GetFsm[e] = t, held[t] < MaxDepth,
         NEW counted \in [Event -> BOOLEAN], Attempt(t, e, counted),
         orderly' \in BOOLEAN
  PROVE  IInv'
<1>0. MutexType /\ TaskType /\ OwnerInv /\ BlockedInv
  BY DEF IInv
<1>n. MaxDepth \in Nat \ {0} /\ Null \notin Event
  BY MutexAssumption
<1>1. CASE Acquire(t, e) /\ sent' = counted
  <2>1. /\ ptrOwnersSignal' = IF Free(e) THEN e ELSE ptrOwnersSignal
        /\ Counter' = Counter + 1
        /\ held' = [held EXCEPT ![t] = @ + 1]
        /\ running' = t
        /\ pc' = [pc EXCEPT ![t] = "Ready"]
        /\ with' = [with EXCEPT ![t] = Null]
        /\ UNCHANGED <<ptrWaitingSignal, SignalQueue>>
    BY <1>1 DEF Acquire
  <2>2. Counter = held[t] /\ GetFsm[ptrOwnersSignal'] = t /\ ptrOwnersSignal' \in Event
        /\ \A s \in Task \ {t} : held[s] = 0
    <3>1. CASE Free(e)
      BY <3>1, <2>1, <1>0 DEF Free, OwnerInv
    <3>2. CASE ~Free(e) /\ Nested(e)
      BY <3>2, <2>1, <1>0 DEF Nested, OwnerInv, MutexType
    <3> QED BY <3>1, <3>2, <1>1 DEF Acquire
  <2>3. Counter' \in 0..MaxDepth /\ held' \in [Task -> 0..MaxDepth]
    BY <2>1, <2>2, <1>0, <1>n DEF TaskType
  <2>4. MutexType'
    BY <2>1, <2>2, <2>3, <1>0 DEF MutexType
  <2>5. TaskType'
    BY <2>1, <2>3, <1>0, <1>1 DEF TaskType
  <2>6. OwnerInv'
    <3>1. Counter' > 0 /\ ptrOwnersSignal' # Null
      BY <2>1, <2>2, <1>0, <1>n DEF MutexType
    <3>2. \A s \in Task : held'[s] = IF s = t THEN Counter' ELSE 0
      BY <2>1, <2>2, <1>0 DEF TaskType
    <3> QED BY <3>1, <3>2, <2>2 DEF OwnerInv
  <2>7. BlockedInv'
    BY <2>1, <1>0 DEF BlockedInv, TaskType
  <2> QED BY <2>4, <2>5, <2>6, <2>7 DEF IInv
<1>2. ASSUME running' = Null, pc' = [pc EXCEPT ![t] = "Blocked"],
             with' = [with EXCEPT ![t] = e],
             sent' \in [Event -> BOOLEAN],
             UNCHANGED <<ptrOwnersSignal, ptrWaitingSignal, Counter, held>>,
             SignalQueue' \in Queues(SIZE, Event \cup {Null}),
             Used(SignalQueue') <= SIZE
      PROVE  IInv'
  <2>1. MutexType'
    BY <1>0, <1>2 DEF MutexType
  <2>2. TaskType'
    BY <1>0, <1>2 DEF TaskType
  <2>3. OwnerInv'
    BY <1>0, <1>2 DEF OwnerInv
  <2>4. BlockedInv'
    BY <1>0, <1>2 DEF BlockedInv, TaskType
  <2> QED BY <2>1, <2>2, <2>3, <2>4 DEF IInv
<1>3. CASE Enqueue(e) /\ Block(t, e) /\ sent' = counted
  BY <1>2, <1>3, <1>0, EnqueueQueue DEF Enqueue, Block, MutexType
<1>4. CASE AskAgain(e) /\ Block(t, e) /\ sent' = [counted EXCEPT ![e] = TRUE]
  BY <1>2, <1>4, <1>0 DEF AskAgain, Block, mutex, MutexType
<1> QED BY <1>1, <1>3, <1>4 DEF Attempt

\* Unlock, whether it hands the mutex over, sets it free or only counts.
LEMMA UnlockInv ==
  ASSUME IInv, NEW t \in Task, Unlock(t)
  PROVE  IInv'
<1>0. MutexType /\ TaskType /\ OwnerInv /\ BlockedInv
  BY DEF IInv
<1>n. MaxDepth \in Nat \ {0} /\ Null \notin Event
  BY MutexAssumption
<1>1. /\ held[t] > 0 /\ held' = [held EXCEPT ![t] = @ - 1] /\ Counter' = Counter - 1
      /\ UNCHANGED <<running, pc, with, orderly>>
  BY DEF Unlock
<1>2. /\ ptrOwnersSignal # Null /\ t = GetFsm[ptrOwnersSignal] /\ Counter = held[t]
      /\ \A s \in Task \ {t} : held[s] = 0
  BY <1>0, <1>1 DEF OwnerInv, TaskType
<1>3. Counter' \in 0..MaxDepth /\ held' \in [Task -> 0..MaxDepth]
  BY <1>0, <1>n, <1>1, <1>2 DEF MutexType, TaskType
<1>4. BlockedInv'
  BY <1>0, <1>1, <1>n DEF BlockedInv, TaskType
<1>5. CASE /\ Counter > 1
           /\ UNCHANGED <<ptrOwnersSignal, ptrWaitingSignal, SignalQueue, sent>>
  <2>1. MutexType' /\ TaskType'
    BY <1>0, <1>1, <1>3, <1>5 DEF MutexType, TaskType
  <2>2. OwnerInv'
    BY <1>0, <1>1, <1>2, <1>5 DEF OwnerInv, MutexType, TaskType
  <2> QED BY <2>1, <2>2, <1>4 DEF IInv
<1>6. ASSUME Counter = 1, ptrOwnersSignal' = Null,
             ptrWaitingSignal' \in Event \cup {Null}, sent' \in [Event -> BOOLEAN],
             SignalQueue' \in Queues(SIZE, Event \cup {Null}), Used(SignalQueue') <= SIZE
      PROVE  IInv'
  <2>1. MutexType' /\ TaskType'
    BY <1>0, <1>1, <1>3, <1>6 DEF MutexType, TaskType
  <2>2. OwnerInv'
    BY <1>0, <1>1, <1>2, <1>6 DEF OwnerInv, TaskType
  <2> QED BY <2>1, <2>2, <1>4 DEF IInv
<1>7. CASE /\ Counter = 1
           /\ IsNotEmpty(SignalQueue)
           /\ ptrWaitingSignal' = Front(SignalQueue, SIZE)
           /\ SignalQueue' = Get(SignalQueue, SIZE)
           /\ ptrOwnersSignal' = Null
           /\ Notify(Front(SignalQueue, SIZE))
  <2>1. /\ Get(SignalQueue, SIZE) \in Queues(SIZE, Event \cup {Null})
        /\ Used(Get(SignalQueue, SIZE)) <= SIZE
        /\ Front(SignalQueue, SIZE) \in Event \cup {Null}
    <3>1. /\ SignalQueue \in Queues(SIZE, Event \cup {Null})
          /\ IsNotEmpty(SignalQueue) /\ Used(SignalQueue) <= SIZE
      BY <1>0, <1>7 DEF MutexType
    <3>2. Null \in Event \cup {Null} /\ ValidSize(SIZE)
      BY MutexAssumption
    <3>3. /\ Get(SignalQueue, SIZE) \in Queues(SIZE, Event \cup {Null})
          /\ Used(Get(SignalQueue, SIZE)) = Used(SignalQueue) - 1
          /\ Front(SignalQueue, SIZE) \in Event \cup {Null}
      BY <3>1, <3>2, GetFacts, Zenon
    <3>4. Used(SignalQueue) \in 0..(IndexMod - 1) /\ IndexMod \in Nat /\ SIZE \in Nat
      BY <3>1, <3>2, QueueIndices, IndexModAssumption DEF ValidSize
    <3> QED BY <3>1, <3>3, <3>4
  <2>2. sent' \in [Event -> BOOLEAN]
    BY <1>0, <1>7 DEF Notify, TaskType
  <2> QED BY <2>1, <2>2, <1>6, <1>7
<1>8. CASE /\ Counter = 1
           /\ ~IsNotEmpty(SignalQueue)
           /\ ptrWaitingSignal' = Null
           /\ ptrOwnersSignal' = Null
           /\ UNCHANGED <<SignalQueue, sent>>
  BY <1>0, <1>6, <1>8 DEF MutexType, TaskType
<1> QED BY <1>5, <1>7, <1>8 DEF Unlock

\* Every step keeps the invariant.
LEMMA NextInv == IInv /\ [Next]_vars => IInv'
<1> SUFFICES ASSUME IInv, [Next]_vars PROVE IInv'
  OBVIOUS
<1>0. MutexType /\ TaskType /\ OwnerInv /\ BlockedInv
  BY DEF IInv
<1>1. ASSUME NEW t \in Task, NEW e \in Event, Lock_bl(t, e) PROVE IInv'
  <2>1. GetFsm[e] = t /\ held[t] < MaxDepth /\ Attempt(t, e, sent)
    BY <1>1 DEF Lock_bl
  <2>2. sent \in [Event -> BOOLEAN] /\ orderly' \in BOOLEAN
    BY <1>0, <1>1 DEF TaskType, Lock_bl
  <2> QED BY <2>1, <2>2, AttemptInv
<1>2. ASSUME NEW t \in Task, Wake(t) \/ StrayWake(t) PROVE IInv'
  <2>1. pc[t] = "Blocked"
    BY <1>2 DEF Wake, StrayWake
  <2>2. PICK e \in Event : e = with[t] /\ GetFsm[e] = t /\ held[t] < MaxDepth
    BY <2>1, <1>0 DEF BlockedInv
  <2>3. Attempt(t, e, [sent EXCEPT ![e] = FALSE]) \/ Attempt(t, e, sent)
    BY <1>2, <2>2 DEF Wake, StrayWake
  <2>4. /\ sent \in [Event -> BOOLEAN] /\ [sent EXCEPT ![e] = FALSE] \in [Event -> BOOLEAN]
        /\ orderly' \in BOOLEAN
    BY <1>0, <1>2 DEF TaskType, Wake, StrayWake
  <2> QED BY <2>2, <2>3, <2>4, AttemptInv
<1>3. ASSUME NEW t \in Task, Unlock(t) PROVE IInv'
  BY <1>3, UnlockInv
<1>4. ASSUME NEW t \in Task, Pause(t) \/ Resume(t) PROVE IInv'
  <2>1. /\ UNCHANGED <<mutex, with, sent, held, orderly>>
        /\ running' \in Task \cup {Null}
        /\ pc' = [pc EXCEPT ![t] = "Paused"] \/ pc' = [pc EXCEPT ![t] = "Ready"]
    BY <1>4 DEF Pause, Resume
  <2>2. MutexType' /\ OwnerInv'
    BY <1>0, <2>1 DEF mutex, MutexType, OwnerInv
  <2>3. TaskType' /\ BlockedInv'
    BY <1>0, <2>1 DEF TaskType, BlockedInv
  <2> QED BY <2>2, <2>3 DEF IInv
<1>5. CASE UNCHANGED vars
  BY <1>0, <1>5 DEF vars, IInv, MutexType, TaskType, OwnerInv, BlockedInv
<1>6. ASSUME NEW t \in Task, NEW e \in Event, TryLock(t, e) PROVE IInv'
  <2>1. /\ \/ Enqueue(e) /\ UNCHANGED sent
           \/ AskAgain(e) /\ sent' = [sent EXCEPT ![e] = TRUE]
        /\ orderly' = FALSE /\ UNCHANGED <<running, pc, with>>
    BY <1>6 DEF TryLock
  <2>2. /\ SignalQueue' \in Queues(SIZE, Event \cup {Null}) /\ Used(SignalQueue') <= SIZE
        /\ UNCHANGED <<ptrOwnersSignal, ptrWaitingSignal, Counter, held>>
        /\ sent' \in [Event -> BOOLEAN]
    BY <1>0, <2>1, EnqueueQueue DEF Enqueue, AskAgain, mutex, MutexType, TaskType
  <2>3. MutexType' /\ TaskType'
    BY <1>0, <2>1, <2>2 DEF MutexType, TaskType
  <2>4. OwnerInv' /\ BlockedInv'
    BY <1>0, <2>1, <2>2 DEF OwnerInv, BlockedInv
  <2> QED BY <2>3, <2>4 DEF IInv
<1> QED BY <1>1, <1>2, <1>3, <1>4, <1>5, <1>6 DEF Next

\* The invariant holds in every reachable state.
THEOREM Invariance == Spec => []IInv
  BY InitInv, NextInv, PTL DEF Spec

\* Every variable has its type; the queue of the mutex never overflows.
THEOREM TypeCorrect == Spec => []TypeOK
<1>1. IInv => TypeOK
  BY DEF IInv, MutexType, TaskType, TypeOK
<1> QED BY <1>1, Invariance, PTL

\* Two tasks never hold the mutex together, even with stray wake-ups, a queue
\* that overflows, and several events for one task.
THEOREM Exclusive == Spec => []MutualExclusion
<1>1. IInv => MutualExclusion
  BY MutexAssumption DEF IInv, TaskType, OwnerInv, MutualExclusion
<1> QED BY <1>1, Invariance, PTL
--------------------------------------------------------------------------------
(* Who waits, and for what *)

\* The entries of the queue are events.
QueueInv == \A c \in LiveCells(SignalQueue, SIZE) : SignalQueue.cell[c] \in Event

\* A task that runs is not in a Wait().
RunInv == \A t \in Task : running = t => pc[t] = "Ready"

\* Whoever is blocked will be asked for, or is on its way.
AskedInv == \A t \in Task : pc[t] = "Blocked" => InQueue(with[t]) \/ sent[with[t]]

\* A mutex that was handed over is reserved for its owner.
ReservedInv ==
  ptrOwnersSignal # Null => ptrWaitingSignal \in {Null, ptrOwnersSignal}

\* The task of e is blocked with it.
Waits(e) == pc[GetFsm[e]] = "Blocked" /\ with[GetFsm[e]] = e

\* As long as all is orderly, an event that is queued or sent is that of a task
\* that is blocked with it; it is queued once, and not sent then.
OrderInv ==
  /\ \A c \in LiveCells(SignalQueue, SIZE) :
       Waits(SignalQueue.cell[c]) /\ ~sent[SignalQueue.cell[c]]
  /\ \A c, d \in LiveCells(SignalQueue, SIZE) :
       SignalQueue.cell[c] = SignalQueue.cell[d] => c = d
  /\ \A e \in Event : sent[e] => Waits(e)
  /\ ptrOwnersSignal = Null /\ ptrWaitingSignal # Null => sent[ptrWaitingSignal]

WInv == QueueInv /\ RunInv /\ AskedInv /\ ReservedInv /\ (orderly => OrderInv)

\* Nobody waits when the mutex is new.
LEMMA InitWInv == Init => WInv
<1> SUFFICES ASSUME Init PROVE WInv
  OBVIOUS
<1>1. EmptyQueue(SIZE) \in Queues(SIZE, {Null})
  BY MutexAssumption, IndexModAssumption DEF EmptyQueue, Queues, ValidSize
<1>2. Used(SignalQueue) = 0
  BY <1>1, QueueIndices DEF Init, EmptyQueue
<1>3. LiveCells(SignalQueue, SIZE) = {}
  BY <1>2 DEF LiveCells
<1>4. QueueInv /\ AskedInv
  BY <1>3 DEF Init, QueueInv, AskedInv
<1>5. RunInv /\ ReservedInv
  BY MutexAssumption DEF Init, RunInv, ReservedInv
<1>6. OrderInv
  BY <1>3 DEF Init, OrderInv
<1> QED BY <1>4, <1>5, <1>6 DEF WInv

\* Queueing an event adds a live cell that holds it and changes no other.
LEMMA EnqueueCells ==
  ASSUME MutexType, NEW e \in Event, Enqueue(e)
  PROVE  \E p :
           /\ p \notin LiveCells(SignalQueue, SIZE)
           /\ LiveCells(SignalQueue, SIZE)' = LiveCells(SignalQueue, SIZE) \cup {p}
           /\ SignalQueue'.cell[p] = e
           /\ \A d \in LiveCells(SignalQueue, SIZE) :
                SignalQueue'.cell[d] = SignalQueue.cell[d]
<1>1. PICK Ent : Ent = Event \cup {Null}
  OBVIOUS
<1>2. /\ SignalQueue \in Queues(SIZE, Ent) /\ IsNotFull(SignalQueue, SIZE)
      /\ e \in Ent /\ ValidSize(SIZE)
  BY <1>1, MutexAssumption DEF MutexType, Enqueue, HasRoom
<1>3. SignalQueue' = Put(SignalQueue, SIZE, e)
  BY DEF Enqueue
<1>4. LiveCells(SignalQueue, SIZE)' = LiveCells(Put(SignalQueue, SIZE, e), SIZE)
  BY <1>3 DEF LiveCells, Used
<1>5. /\ PutCell(SignalQueue, SIZE) \notin LiveCells(SignalQueue, SIZE)
      /\ LiveCells(Put(SignalQueue, SIZE, e), SIZE)
           = LiveCells(SignalQueue, SIZE) \cup {PutCell(SignalQueue, SIZE)}
      /\ Put(SignalQueue, SIZE, e).cell[PutCell(SignalQueue, SIZE)] = e
      /\ \A d \in LiveCells(SignalQueue, SIZE) : d # PutCell(SignalQueue, SIZE) =>
           Put(SignalQueue, SIZE, e).cell[d] = SignalQueue.cell[d]
  BY <1>2, PutFacts
<1> QED BY <1>3, <1>4, <1>5

\* Taking the front event out takes its cell from the live ones and changes no
\* other.
LEMMA DequeueCells ==
  ASSUME MutexType, IsNotEmpty(SignalQueue), SignalQueue' = Get(SignalQueue, SIZE)
  PROVE  \E g \in LiveCells(SignalQueue, SIZE) :
           /\ SignalQueue.cell[g] = Front(SignalQueue, SIZE)
           /\ LiveCells(SignalQueue, SIZE)' = LiveCells(SignalQueue, SIZE) \ {g}
           /\ \A d \in LiveCells(SignalQueue, SIZE) \ {g} :
                SignalQueue'.cell[d] = SignalQueue.cell[d]
<1>1. PICK Ent : Ent = Event \cup {Null}
  OBVIOUS
<1>2. /\ SignalQueue \in Queues(SIZE, Ent) /\ Used(SignalQueue) <= SIZE
      /\ Null \in Ent /\ ValidSize(SIZE)
  BY <1>1, MutexAssumption DEF MutexType
<1>3. LiveCells(SignalQueue, SIZE)' = LiveCells(Get(SignalQueue, SIZE), SIZE)
  BY DEF LiveCells, Used
<1>4. /\ GetCell(SignalQueue, SIZE) \in LiveCells(SignalQueue, SIZE)
      /\ LiveCells(Get(SignalQueue, SIZE), SIZE)
           = LiveCells(SignalQueue, SIZE) \ {GetCell(SignalQueue, SIZE)}
      /\ \A d \in LiveCells(SignalQueue, SIZE) : d # GetCell(SignalQueue, SIZE) =>
           Get(SignalQueue, SIZE).cell[d] = SignalQueue.cell[d]
  BY <1>2, GetFacts
<1> QED BY <1>3, <1>4 DEF Front

\* A task that runs, or one that is blocked and was called, asks for the mutex; a
\* blocked one, as long as all is orderly, because the event was sent, which is
\* then counted no more.
Asks(t, e, counted) ==
  /\ GetFsm[e] = t
  /\ Attempt(t, e, counted)
  /\ counted \in [Event -> BOOLEAN]
  /\ \A f \in Event : f # e => counted[f] = sent[f]
  /\ \/ running = t /\ counted = sent
     \/ running = Null /\ Waits(e)
  /\ orderly' => /\ orderly /\ InOrder(e)
                 /\ counted[e] = FALSE \/ running = t
                 /\ sent[e] \/ running = t

\* These are the steps in which TryLock is called and waited for.
LEMMA AskingSteps ==
  ASSUME IInv, NEW t \in Task,
         (\E e \in Event : Lock_bl(t, e)) \/ Wake(t) \/ StrayWake(t)
  PROVE  \E e \in Event, counted \in [Event -> BOOLEAN] : Asks(t, e, counted)
<1>0. TaskType /\ BlockedInv
  BY DEF IInv
<1>1. ASSUME NEW e \in Event, Lock_bl(t, e)
      PROVE  sent \in [Event -> BOOLEAN] /\ Asks(t, e, sent)
  BY <1>0, <1>1 DEF Lock_bl, TaskType, Asks
<1>2. ASSUME pc[t] = "Blocked"
      PROVE  with[t] \in Event /\ GetFsm[with[t]] = t /\ Waits(with[t])
  BY <1>0, <1>2 DEF BlockedInv, Waits
<1>3. CASE Wake(t)
  <2>1. PICK e \in Event : e = with[t] /\ GetFsm[e] = t /\ Waits(e)
    BY <1>2, <1>3 DEF Wake
  <2>2. PICK counted \in [Event -> BOOLEAN] : counted = [sent EXCEPT ![e] = FALSE]
    BY <1>0 DEF TaskType
  <2>3. /\ running = Null /\ sent[e] /\ Attempt(t, e, counted)
        /\ orderly' => orderly /\ InOrder(e)
    BY <1>3, <2>1, <2>2 DEF Wake
  <2>4. counted[e] = FALSE /\ \A f \in Event : f # e => counted[f] = sent[f]
    BY <1>0, <2>2 DEF TaskType
  <2> QED BY <2>1, <2>3, <2>4 DEF Asks
<1>4. CASE StrayWake(t)
  BY <1>0, <1>2, <1>4 DEF StrayWake, TaskType, Asks
<1> QED BY <1>1, <1>3, <1>4

\* As long as all is orderly, a task that asks is in nobody's way already: no
\* event of its own is queued, or sent and not counted.
LEMMA OrderlyAsker ==
  ASSUME IInv, WInv, NEW t \in Task, NEW e \in Event, NEW counted,
         Asks(t, e, counted), orderly'
  PROVE  /\ OrderInv /\ InOrder(e) /\ ~counted[e]
         /\ \A c \in LiveCells(SignalQueue, SIZE) : GetFsm[SignalQueue.cell[c]] # t
         /\ \A f \in Event : counted[f] => GetFsm[f] # t /\ sent[f]
<1> DEFINE L == LiveCells(SignalQueue, SIZE)
<1>w. QueueInv /\ RunInv /\ (orderly => OrderInv)
  BY DEF WInv
<1>n. Null \notin Task
  BY MutexAssumption
<1>a. /\ GetFsm[e] = t
      /\ \A f \in Event : f # e => counted[f] = sent[f]
      /\ \/ running = t /\ counted = sent
         \/ running = Null /\ Waits(e)
      /\ counted[e] = FALSE \/ running = t
      /\ sent[e] \/ running = t
  BY DEF Asks
<1>1. OrderInv /\ InOrder(e)
  BY <1>w DEF Asks
<1>2. running = t => pc[t] # "Blocked"
  BY <1>w DEF RunInv
<1>3. CASE running = t /\ counted = sent
  <2>1. \A f \in Event : sent[f] => GetFsm[f] # t
    BY <1>1, <1>2, <1>3 DEF OrderInv, Waits
  <2>2. \A c \in L : GetFsm[SignalQueue.cell[c]] # t
    BY <1>1, <1>2, <1>3 DEF OrderInv, Waits
  <2> QED BY <1>a, <1>1, <1>3, <2>1, <2>2
<1>4. CASE running = Null /\ Waits(e)
  <2>1. sent[e] /\ ~counted[e]
    BY <1>a, <1>n, <1>4
  <2>2. \A f \in Event : counted[f] => GetFsm[f] # t /\ sent[f]
    BY <1>a, <1>1, <1>4, <2>1 DEF OrderInv, Waits
  <2>3. \A c \in L : GetFsm[SignalQueue.cell[c]] # t
    BY <1>a, <1>1, <1>4, <2>1 DEF OrderInv, Waits
  <2> QED BY <1>1, <2>1, <2>2, <2>3
<1> QED BY <1>a, <1>3, <1>4

\* TryLock, called by a task that runs or, with its event taken as delivered, by
\* one that is blocked with it.
LEMMA AttemptWInv ==
  ASSUME IInv, WInv, NEW t \in Task, NEW e \in Event, NEW counted,
         Asks(t, e, counted)
  PROVE  WInv'
<1> DEFINE L == LiveCells(SignalQueue, SIZE)
<1>0. MutexType /\ TaskType /\ OwnerInv /\ BlockedInv
  BY DEF IInv
<1>w. QueueInv /\ RunInv /\ AskedInv /\ ReservedInv /\ (orderly => OrderInv)
  BY DEF WInv
<1>n. GetFsm \in [Event -> Task] /\ Null \notin Event /\ Null \notin Task
  BY MutexAssumption
<1>o. ASSUME orderly'
      PROVE  /\ OrderInv /\ InOrder(e) /\ ~counted[e]
             /\ \A c \in L : GetFsm[SignalQueue.cell[c]] # t
             /\ \A f \in Event : counted[f] => GetFsm[f] # t /\ sent[f]
  BY <1>o, OrderlyAsker
<1>a. /\ GetFsm[e] = t /\ Attempt(t, e, counted)
      /\ counted \in [Event -> BOOLEAN]
      /\ \A f \in Event : f # e => counted[f] = sent[f]
      /\ \/ running = t /\ counted = sent
         \/ running = Null /\ Waits(e)
  BY DEF Asks
<1>1. CASE Acquire(t, e) /\ sent' = counted
  <2>1. /\ ptrOwnersSignal' = IF Free(e) THEN e ELSE ptrOwnersSignal
        /\ running' = t
        /\ pc' = [pc EXCEPT ![t] = "Ready"]
        /\ with' = [with EXCEPT ![t] = Null]
        /\ ptrWaitingSignal' = ptrWaitingSignal /\ SignalQueue' = SignalQueue
        /\ sent' = counted
        /\ Free(e) \/ Nested(e)
    BY <1>1 DEF Acquire
  <2>2. /\ LiveCells(SignalQueue, SIZE)' = L
        /\ \A f : InQueue(f)' <=> InQueue(f)
    BY <2>1 DEF LiveCells, Used, InQueue
  <2>3. QueueInv'
    BY <1>w, <2>1, <2>2 DEF QueueInv
  <2>4. RunInv'
    BY <1>0, <2>1 DEF RunInv, TaskType
  <2>5. AskedInv'
    BY <1>a, <1>0, <1>w, <1>n, <2>1, <2>2 DEF AskedInv, TaskType, BlockedInv
  <2>6. ReservedInv'
    BY <1>w, <2>1 DEF ReservedInv, Free, NotReserved
  <2>7. ASSUME orderly' PROVE OrderInv'
    <3>1. \A f \in Event : GetFsm[f] # t => (Waits(f)' <=> Waits(f))
      BY <1>0, <1>n, <2>1 DEF Waits, TaskType
    <3>2. ptrOwnersSignal' # Null
      BY <1>n, <2>1 DEF Nested
    <3>3. \A c \in L : SignalQueue.cell[c] \in Event
      BY <1>w DEF QueueInv
    <3>4. \A c \in L : Waits(SignalQueue.cell[c])' /\ ~sent'[SignalQueue.cell[c]]
      BY <1>o, <2>1, <2>7, <3>1, <3>3 DEF OrderInv
    <3>5. \A f \in Event : sent'[f] => Waits(f)'
      BY <1>o, <2>1, <2>7, <3>1 DEF OrderInv
    <3> QED BY <1>o, <2>1, <2>2, <2>7, <3>2, <3>4, <3>5 DEF OrderInv
  <2> QED BY <2>3, <2>4, <2>5, <2>6, <2>7 DEF WInv
<1>2. CASE Enqueue(e) /\ Block(t, e) /\ sent' = counted
  <2>1. /\ running' = Null
        /\ pc' = [pc EXCEPT ![t] = "Blocked"]
        /\ with' = [with EXCEPT ![t] = e]
        /\ ptrWaitingSignal' = ptrWaitingSignal /\ ptrOwnersSignal' = ptrOwnersSignal
        /\ sent' = counted
        /\ Refused(e)
    BY <1>2 DEF Enqueue, Block
  <2>2. PICK p : /\ p \notin L
                 /\ LiveCells(SignalQueue, SIZE)' = L \cup {p}
                 /\ SignalQueue'.cell[p] = e
                 /\ \A d \in L : SignalQueue'.cell[d] = SignalQueue.cell[d]
    BY <1>0, <1>2, EnqueueCells
  <2>3. QueueInv'
    BY <1>w, <2>2 DEF QueueInv
  <2>4. RunInv' /\ ReservedInv'
    BY <1>w, <1>n, <2>1 DEF RunInv, ReservedInv
  <2>5. AskedInv'
    <3> SUFFICES ASSUME NEW s \in Task, pc'[s] = "Blocked"
                 PROVE  InQueue(with[s])' \/ sent'[with'[s]]
      BY DEF AskedInv
    <3>1. CASE s = t
      BY <1>0, <2>1, <2>2, <3>1 DEF InQueue, TaskType
    <3>2. CASE s # t
      <4>1. pc[s] = "Blocked" /\ with'[s] = with[s] /\ with[s] \in Event /\ with[s] # e
        BY <1>a, <1>0, <2>1, <3>2 DEF TaskType, BlockedInv
      <4>2. InQueue(with[s]) \/ sent[with[s]]
        BY <1>w, <4>1 DEF AskedInv
      <4> QED BY <1>a, <2>1, <2>2, <4>1, <4>2 DEF InQueue
    <3> QED BY <3>1, <3>2
  <2>6. ASSUME orderly' PROVE OrderInv'
    <3>1. /\ \A f \in Event : GetFsm[f] # t => (Waits(f)' <=> Waits(f))
          /\ Waits(e)'
      BY <1>a, <1>0, <1>n, <2>1 DEF Waits, TaskType
    <3>2. \A c \in L : SignalQueue.cell[c] \in Event /\ SignalQueue.cell[c] # e
      BY <1>a, <1>w, <1>o, <2>6 DEF QueueInv
    <3>3. \A c \in L : \A f \in Event :
            f = SignalQueue.cell[c] => Waits(f)' /\ ~sent'[f]
      BY <1>o, <2>1, <2>6, <3>1, <3>2 DEF OrderInv
    <3>4. \A f \in Event : sent'[f] => Waits(f)'
      BY <1>o, <2>1, <2>6, <3>1 DEF OrderInv
    <3>5. ASSUME ptrOwnersSignal = Null, ptrWaitingSignal # Null PROVE sent'[ptrWaitingSignal]
      <4>1. ptrWaitingSignal \in Event /\ ptrWaitingSignal # e
        BY <1>0, <2>1, <3>5 DEF MutexType, Refused, Free, NotReserved
      <4>2. sent[ptrWaitingSignal]
        BY <1>o, <2>6, <3>5 DEF OrderInv
      <4> QED BY <1>a, <2>1, <4>1, <4>2
    <3>6. \A c \in L \cup {p} : (Waits(SignalQueue.cell[c]) /\ ~sent[SignalQueue.cell[c]])'
      <4>1. \A f \in Event : f = e => Waits(f)' /\ ~sent'[f]
        BY <1>o, <2>1, <2>6, <3>1
      <4>2. \A c \in L \cup {p} : \A f \in Event :
              f = SignalQueue'.cell[c] => Waits(f)' /\ ~sent'[f]
        BY <2>2, <3>3, <4>1
      <4>3. \A c \in L \cup {p} : SignalQueue'.cell[c] \in Event
        BY <2>2, <3>2
      <4> QED BY <4>2, <4>3
    <3>7. \A c, d \in L \cup {p} : SignalQueue'.cell[c] = SignalQueue'.cell[d] => c = d
      BY <1>o, <2>2, <2>6, <3>2 DEF OrderInv
    <3> QED BY <2>1, <2>2, <3>4, <3>5, <3>6, <3>7 DEF OrderInv
  <2> QED BY <2>3, <2>4, <2>5, <2>6 DEF WInv
<1>3. CASE AskAgain(e) /\ Block(t, e) /\ sent' = [counted EXCEPT ![e] = TRUE]
  <2>1. /\ running' = Null
        /\ pc' = [pc EXCEPT ![t] = "Blocked"]
        /\ with' = [with EXCEPT ![t] = e]
        /\ UNCHANGED mutex
        /\ Refused(e) /\ ~HasRoom
    BY <1>3 DEF AskAgain, Block
  <2>2. ~orderly'
    BY <1>o, <2>1 DEF InOrder
  <2>3. /\ LiveCells(SignalQueue, SIZE)' = L
        /\ \A f : InQueue(f)' <=> InQueue(f)
    BY <2>1 DEF mutex, LiveCells, Used, InQueue
  <2>4. QueueInv' /\ RunInv' /\ ReservedInv'
    BY <1>w, <1>n, <2>1, <2>3 DEF mutex, QueueInv, RunInv, ReservedInv
  <2>5. AskedInv'
    BY <1>a, <1>0, <1>w, <1>3, <2>1, <2>3 DEF AskedInv, TaskType, BlockedInv
  <2> QED BY <2>2, <2>4, <2>5 DEF WInv
<1> QED BY <1>a, <1>1, <1>2, <1>3 DEF Attempt

\* Unlock wakes the task whose event is first in the queue, and reserves the
\* mutex for it.
LEMMA UnlockWInv ==
  ASSUME IInv, WInv, NEW t \in Task, Unlock(t)
  PROVE  WInv'
<1> DEFINE L == LiveCells(SignalQueue, SIZE)
<1>0. MutexType /\ TaskType /\ OwnerInv /\ BlockedInv
  BY DEF IInv
<1>w. QueueInv /\ RunInv /\ AskedInv /\ ReservedInv /\ (orderly => OrderInv)
  BY DEF WInv
<1>n. GetFsm \in [Event -> Task] /\ Null \notin Event
  BY MutexAssumption
<1>1. running = t /\ held[t] > 0 /\ UNCHANGED <<running, pc, with, orderly>>
  BY DEF Unlock
<1>2. RunInv' /\ (\A f : Waits(f)' <=> Waits(f))
  BY <1>w, <1>1 DEF RunInv, Waits
<1>3. CASE UNCHANGED <<ptrOwnersSignal, ptrWaitingSignal, SignalQueue, sent>>
  <2>1. /\ LiveCells(SignalQueue, SIZE)' = L
        /\ \A f : InQueue(f)' <=> InQueue(f)
    BY <1>3 DEF LiveCells, Used, InQueue
  <2>2. QueueInv' /\ AskedInv' /\ ReservedInv'
    BY <1>w, <1>1, <1>3, <2>1 DEF QueueInv, AskedInv, ReservedInv
  <2>3. orderly' => OrderInv'
    BY <1>w, <1>1, <1>2, <1>3, <2>1 DEF OrderInv
  <2> QED BY <1>2, <2>2, <2>3 DEF WInv
<1>4. CASE /\ IsNotEmpty(SignalQueue)
           /\ ptrWaitingSignal' = Front(SignalQueue, SIZE)
           /\ SignalQueue' = Get(SignalQueue, SIZE)
           /\ ptrOwnersSignal' = Null
           /\ Notify(Front(SignalQueue, SIZE))
  <2>1. PICK g \in L : /\ SignalQueue.cell[g] = Front(SignalQueue, SIZE)
                       /\ LiveCells(SignalQueue, SIZE)' = L \ {g}
                       /\ \A d \in L \ {g} : SignalQueue'.cell[d] = SignalQueue.cell[d]
    BY <1>0, <1>4, DequeueCells
  <2>2. PICK e \in Event : e = SignalQueue.cell[g]
    BY <1>w DEF QueueInv
  <2>3. ptrWaitingSignal' = e /\ sent' = [sent EXCEPT ![e] = TRUE]
    BY <1>4, <2>1, <2>2 DEF Notify
  <2>4. QueueInv'
    BY <1>w, <2>1 DEF QueueInv
  <2>5. ReservedInv'
    BY <1>4 DEF ReservedInv
  <2>6. AskedInv'
    <3> SUFFICES ASSUME NEW s \in Task, pc[s] = "Blocked"
                 PROVE  InQueue(with[s])' \/ sent'[with[s]]
      BY <1>1 DEF AskedInv
    <3>1. with[s] \in Event /\ (InQueue(with[s]) \/ sent[with[s]])
      BY <1>0, <1>w DEF AskedInv, BlockedInv
    <3>2. CASE with[s] = e
      BY <1>0, <2>3, <3>2 DEF TaskType
    <3>3. CASE with[s] # e
      BY <1>0, <1>1, <2>1, <2>2, <2>3, <3>1, <3>3 DEF TaskType, InQueue
    <3> QED BY <3>2, <3>3
  <2>7. ASSUME orderly' PROVE OrderInv'
    <3>1. /\ \A c \in L : Waits(SignalQueue.cell[c]) /\ ~sent[SignalQueue.cell[c]]
          /\ \A c, d \in L : SignalQueue.cell[c] = SignalQueue.cell[d] => c = d
          /\ \A f \in Event : sent[f] => Waits(f)
      BY <1>w, <1>1, <2>7 DEF OrderInv
    <3>2. \A f \in Event : sent'[f] => Waits(f)'
      BY <1>0, <1>2, <2>1, <2>2, <2>3, <3>1 DEF TaskType
    <3>3. \A c \in L \ {g} : (Waits(SignalQueue.cell[c]) /\ ~sent[SignalQueue.cell[c]])'
      <4>1. \A c \in L \ {g} : SignalQueue.cell[c] # e /\ SignalQueue.cell[c] \in Event
        BY <1>w, <2>2, <3>1 DEF QueueInv
      <4>2. \A c \in L \ {g} : \A f \in Event :
              f = SignalQueue.cell[c] => Waits(f)' /\ ~sent'[f]
        BY <1>0, <1>2, <2>3, <3>1, <4>1 DEF TaskType
      <4> QED BY <2>1, <4>1, <4>2
    <3>4. \A c, d \in L \ {g} : SignalQueue'.cell[c] = SignalQueue'.cell[d] => c = d
      BY <2>1, <3>1
    <3>5. sent'[ptrWaitingSignal']
      BY <1>0, <2>3 DEF TaskType
    <3> QED BY <2>1, <3>2, <3>3, <3>4, <3>5 DEF OrderInv
  <2> QED BY <1>2, <2>4, <2>5, <2>6, <2>7 DEF WInv
<1>5. CASE /\ ~IsNotEmpty(SignalQueue)
           /\ ptrWaitingSignal' = Null
           /\ ptrOwnersSignal' = Null
           /\ UNCHANGED <<SignalQueue, sent>>
  <2>1. /\ LiveCells(SignalQueue, SIZE)' = L
        /\ \A f : InQueue(f)' <=> InQueue(f)
    BY <1>5 DEF LiveCells, Used, InQueue
  <2>2. QueueInv' /\ AskedInv' /\ ReservedInv'
    BY <1>w, <1>1, <1>5, <2>1 DEF QueueInv, AskedInv, ReservedInv
  <2>3. orderly' => OrderInv'
    BY <1>w, <1>1, <1>2, <1>5, <2>1 DEF OrderInv
  <2> QED BY <1>2, <2>2, <2>3 DEF WInv
<1> QED BY <1>3, <1>4, <1>5 DEF Unlock

\* Every step keeps this invariant, too.
LEMMA NextWInv == IInv /\ WInv /\ [Next]_vars => WInv'
<1> SUFFICES ASSUME IInv, WInv, [Next]_vars PROVE WInv'
  OBVIOUS
<1> DEFINE L == LiveCells(SignalQueue, SIZE)
<1>0. MutexType /\ TaskType /\ OwnerInv /\ BlockedInv
  BY DEF IInv
<1>w. QueueInv /\ RunInv /\ AskedInv /\ ReservedInv /\ (orderly => OrderInv)
  BY DEF WInv
<1>n. GetFsm \in [Event -> Task] /\ Null \notin Event /\ Null \notin Task
  BY MutexAssumption
<1>1. ASSUME NEW t \in Task, (\E e \in Event : Lock_bl(t, e)) \/ Wake(t) \/ StrayWake(t)
      PROVE  WInv'
  <2>1. PICK e \in Event, counted \in [Event -> BOOLEAN] : Asks(t, e, counted)
    BY <1>1, AskingSteps
  <2> QED BY <2>1, AttemptWInv
<1>2. ASSUME NEW t \in Task, NEW e \in Event, TryLock(t, e) PROVE WInv'
  <2>1. /\ \/ Enqueue(e) /\ UNCHANGED sent
           \/ AskAgain(e) /\ sent' = [sent EXCEPT ![e] = TRUE]
        /\ ~orderly' /\ UNCHANGED <<running, pc, with>>
    BY <1>2 DEF TryLock
  <2>2. /\ UNCHANGED <<ptrOwnersSignal, ptrWaitingSignal>>
        /\ \A f \in Event : sent[f] => sent'[f]
    BY <1>0, <2>1 DEF Enqueue, AskAgain, mutex, TaskType
  <2>3. QueueInv' /\ \A f \in Event : InQueue(f) => InQueue(f)'
    <3>1. CASE Enqueue(e)
      <4>1. PICK p : /\ p \notin L
                     /\ LiveCells(SignalQueue, SIZE)' = L \cup {p}
                     /\ SignalQueue'.cell[p] = e
                     /\ \A d \in L : SignalQueue'.cell[d] = SignalQueue.cell[d]
        BY <1>0, <3>1, EnqueueCells
      <4> QED BY <1>w, <4>1 DEF QueueInv, InQueue
    <3>2. CASE AskAgain(e)
      BY <1>w, <3>2 DEF AskAgain, mutex, QueueInv, InQueue, LiveCells, Used
    <3> QED BY <2>1, <3>1, <3>2
  <2>4. AskedInv'
    BY <1>0, <1>w, <2>1, <2>2, <2>3 DEF AskedInv, BlockedInv
  <2>5. RunInv' /\ ReservedInv'
    BY <1>w, <2>1, <2>2 DEF RunInv, ReservedInv
  <2> QED BY <2>1, <2>3, <2>4, <2>5 DEF WInv
<1>3. ASSUME NEW t \in Task, Unlock(t) PROVE WInv'
  BY <1>3, UnlockWInv
<1>4. ASSUME NEW t \in Task, Pause(t) \/ Resume(t) PROVE WInv'
  <2>1. /\ UNCHANGED <<mutex, with, sent, orderly>>
        /\ pc[t] # "Blocked"
        /\ \/ running' = Null /\ pc' = [pc EXCEPT ![t] = "Paused"]
           \/ running' = t /\ pc' = [pc EXCEPT ![t] = "Ready"]
    BY <1>4, <1>w DEF Pause, Resume, RunInv
  <2>2. \A s \in Task : pc'[s] = "Blocked" <=> pc[s] = "Blocked"
    BY <1>0, <2>1 DEF TaskType
  <2>3. /\ LiveCells(SignalQueue, SIZE)' = L
        /\ \A f : InQueue(f)' <=> InQueue(f)
        /\ \A f \in Event : Waits(f)' <=> Waits(f)
    BY <1>n, <2>1, <2>2 DEF mutex, LiveCells, Used, InQueue, Waits
  <2>4. QueueInv' /\ AskedInv' /\ ReservedInv'
    BY <1>w, <2>1, <2>2, <2>3 DEF mutex, QueueInv, AskedInv, ReservedInv
  <2>5. RunInv'
    <3>1. Pause(t) => running' = Null
      BY DEF Pause
    <3>2. CASE running' = Null
      BY <1>n, <3>2 DEF RunInv
    <3>3. CASE Resume(t)
      BY <1>0, <3>3 DEF Resume, RunInv, TaskType
    <3> QED BY <1>4, <3>1, <3>2, <3>3
  <2>6. orderly' => OrderInv'
    <3>1. \A c \in L : \A f \in Event : f = SignalQueue.cell[c] =>
            (Waits(f)' <=> Waits(f)) /\ sent'[f] = sent[f]
      BY <2>1, <2>3
    <3>2. \A c \in L : SignalQueue.cell[c] \in Event
      BY <1>w DEF QueueInv
    <3> QED BY <1>w, <2>1, <2>3, <3>1, <3>2 DEF OrderInv, mutex
  <2> QED BY <2>4, <2>5, <2>6 DEF WInv
<1>5. CASE UNCHANGED vars
  <2>1. /\ LiveCells(SignalQueue, SIZE)' = L
        /\ \A f : InQueue(f)' <=> InQueue(f)
        /\ \A f : Waits(f)' <=> Waits(f)
    BY <1>5 DEF vars, LiveCells, Used, InQueue, Waits
  <2> QED BY <1>w, <1>5, <2>1
          DEF vars, WInv, QueueInv, RunInv, AskedInv, ReservedInv, OrderInv
<1> QED BY <1>1, <1>2, <1>3, <1>4, <1>5 DEF Next

\* The second invariant holds in every reachable state, on top of the first.
THEOREM WaitersInvariance == Spec => []WInv
  BY InitWInv, NextWInv, Invariance, PTL DEF Spec

\* No task is forgotten in Lock_bl, with any number of tasks, events and waiters,
\* tasks that poll and tasks that are woken for other reasons; and while all is
\* orderly a reserved mutex is about to be taken.
THEOREM ForgetsNobody == Spec => []NobodyForgotten
<1>1. IInv /\ WInv => NobodyForgotten
  <2> SUFFICES ASSUME IInv, WInv PROVE NobodyForgotten
    OBVIOUS
  <2>1. \A t \in Task : pc[t] = "Blocked" => InQueue(with[t]) \/ sent[with[t]]
    BY DEF WInv, AskedInv
  <2>2. ASSUME orderly, ptrOwnersSignal = Null, ptrWaitingSignal # Null
        PROVE  Waits(ptrWaitingSignal) /\ sent[ptrWaitingSignal]
    BY <2>2 DEF IInv, MutexType, WInv, OrderInv
  <2> QED BY <2>1, <2>2 DEF NobodyForgotten, Waits
<1> QED BY <1>1, Invariance, WaitersInvariance, PTL

\* With one event for each task (a task with two may
\* block on itself, as the run MutexNesting shows), a task
\* that holds the mutex is never refused: a mutex that is held is reserved, if at
\* all, for the event of its owner, and that is the only one the owner asks with.
LEMMA OwnerIsNotRefused ==
  ASSUME IInv, WInv, \A e, f \in Event : GetFsm[e] = GetFsm[f] => e = f,
         NEW e \in Event, held[GetFsm[e]] > 0
  PROVE  ~Refused(e)
<1>1. GetFsm[e] \in Task
  BY MutexAssumption
<1>2. ptrOwnersSignal \in Event /\ GetFsm[ptrOwnersSignal] = GetFsm[e]
  BY <1>1 DEF IInv, MutexType, OwnerInv, TaskType
<1>3. ptrOwnersSignal = e /\ ptrOwnersSignal # Null
  BY <1>2, MutexAssumption
<1>4. ptrWaitingSignal \in {Null, e}
  BY <1>3 DEF WInv, ReservedInv
<1> QED BY <1>3, <1>4 DEF Refused, Nested, NotReserved

\* With one event for each task, a task that holds the mutex never blocks on it.
THEOREM OwnerMayNest ==
  ASSUME \A e, f \in Event : GetFsm[e] = GetFsm[f] => e = f
  PROVE  Spec => []OwnerReenters
<1>1. Init => OwnerReenters
  BY DEF Init, OwnerReenters
<1>2. ASSUME IInv, WInv, OwnerReenters, [Next]_vars PROVE OwnerReenters'
  <2>0. MutexType /\ TaskType /\ BlockedInv
    BY <1>2 DEF IInv
  <2>1. ASSUME NEW t \in Task, NEW e \in Event, NEW counted, GetFsm[e] = t,
               Attempt(t, e, counted)
        PROVE  OwnerReenters'
    <3>1. CASE Acquire(t, e)
      BY <1>2, <2>0, <3>1 DEF Acquire, OwnerReenters, TaskType
    <3>2. CASE (Enqueue(e) \/ AskAgain(e)) /\ Block(t, e)
      <4>1. ~(held[t] > 0)
        BY <1>2, <2>1, <3>2, OwnerIsNotRefused DEF Enqueue, AskAgain
      <4> QED BY <1>2, <2>0, <3>2, <4>1
              DEF Enqueue, AskAgain, Block, OwnerReenters, TaskType, mutex
    <3> QED BY <2>1, <3>1, <3>2 DEF Attempt
  <2>2. ASSUME NEW t \in Task, NEW e \in Event, Lock_bl(t, e) PROVE OwnerReenters'
    BY <2>1, <2>2 DEF Lock_bl
  <2>3. ASSUME NEW t \in Task, Wake(t) \/ StrayWake(t) PROVE OwnerReenters'
    <3>1. with[t] \in Event /\ GetFsm[with[t]] = t
      BY <2>0, <2>3 DEF BlockedInv, Wake, StrayWake
    <3> QED BY <2>1, <2>3, <3>1 DEF Wake, StrayWake
  <2>4. ASSUME NEW t \in Task, NEW e \in Event, TryLock(t, e) PROVE OwnerReenters'
    BY <1>2, <2>4 DEF TryLock, Enqueue, AskAgain, mutex, OwnerReenters
  <2>5. ASSUME NEW t \in Task, Unlock(t) PROVE OwnerReenters'
    BY <1>2, <2>0, <2>5 DEF Unlock, OwnerReenters, TaskType
  <2>6. ASSUME NEW t \in Task, Pause(t) \/ Resume(t) PROVE OwnerReenters'
    BY <1>2, <2>0, <2>6 DEF Pause, Resume, OwnerReenters, TaskType
  <2>7. CASE UNCHANGED vars
    BY <1>2, <2>7 DEF vars, OwnerReenters
  <2> QED BY <1>2, <2>2, <2>3, <2>4, <2>5, <2>6, <2>7 DEF Next
<1> QED BY <1>1, <1>2, Invariance, WaitersInvariance, PTL DEF Spec

--------------------------------------------------------------------------------
(* The lock that RecursiveMutex implements *)

\* Two sequences of the same elements are the same.
LEMMA SameLine ==
  ASSUME NEW n \in Nat, NEW S, NEW f \in [1..n -> S], NEW g \in Seq(S), Len(g) = n,
         \A i \in 1..n : f[i] = g[i]
  PROVE  f = g
  OBVIOUS

\* A queued task is one that an event in the queue belongs to.
LEMMA LineType ==
  ASSUME MutexType, QueueInv
  PROVE  /\ Used(SignalQueue) \in Nat
         /\ Line \in [1..Used(SignalQueue) -> Task]
         /\ Line \in Seq(Task) /\ Len(Line) = Used(SignalQueue)
         /\ \A i \in 1..Used(SignalQueue) :
              \E c \in LiveCells(SignalQueue, SIZE) :
                Line[i] = GetFsm[SignalQueue.cell[c]]
<1>1. /\ Used(SignalQueue) \in Nat /\ SignalQueue.get \in Int
  BY QueueIndices, IndexModAssumption DEF MutexType
<1>2. ASSUME NEW i \in 1..Used(SignalQueue)
      PROVE  (SignalQueue.get + i - 1) % SIZE \in LiveCells(SignalQueue, SIZE)
  <2>1. i - 1 \in 0..(Used(SignalQueue) - 1)
        /\ SignalQueue.get + i - 1 = SignalQueue.get + (i - 1)
    BY <1>1
  <2> QED BY <2>1 DEF LiveCells
<1>3. \A i \in 1..Used(SignalQueue) :
        Line[i] = GetFsm[SignalQueue.cell[(SignalQueue.get + i - 1) % SIZE]]
  BY DEF Line
<1>4. Line \in [1..Used(SignalQueue) -> Task]
  BY <1>2, MutexAssumption DEF QueueInv, Line
<1> QED BY <1>1, <1>2, <1>3, <1>4

\* Queueing an event puts its task at the end of the line.
LEMMA JoinsLine ==
  ASSUME MutexType, QueueInv, NEW e \in Event, Enqueue(e)
  PROVE  Line' = Append(Line, GetFsm[e])
<1>1. PICK Ent : Ent = Event \cup {Null}
  OBVIOUS
<1>2. /\ SignalQueue \in Queues(SIZE, Ent) /\ IsNotFull(SignalQueue, SIZE)
      /\ e \in Ent /\ ValidSize(SIZE)
      /\ SignalQueue' = Put(SignalQueue, SIZE, e)
  BY <1>1, MutexAssumption DEF MutexType, Enqueue, HasRoom
<1>3. PICK n \in Nat : n = Used(SignalQueue)
  BY LineType
<1>4. Used(SignalQueue)' = n + 1
  BY <1>2, <1>3, PutFacts DEF Used
<1>5. /\ SignalQueue'.get = SignalQueue.get /\ SignalQueue.get \in Int
      /\ SignalQueue'.cell[(SignalQueue.get + n) % SIZE] = e
      /\ \A i \in 0..(n - 1) :
           SignalQueue'.cell[(SignalQueue.get + i) % SIZE]
             = SignalQueue.cell[(SignalQueue.get + i) % SIZE]
  <2>1. SignalQueue.get \in 0..(IndexMod - 1)
    BY <1>2, QueueIndices
  <2>2. SignalQueue.get \in Int
    BY <2>1, IndexModAssumption
  <2>3. /\ Put(SignalQueue, SIZE, e).get = SignalQueue.get
        /\ Put(SignalQueue, SIZE, e).cell[(SignalQueue.get + n) % SIZE] = e
        /\ \A i \in 0..(n - 1) :
             Put(SignalQueue, SIZE, e).cell[(SignalQueue.get + i) % SIZE]
               = SignalQueue.cell[(SignalQueue.get + i) % SIZE]
    BY <1>2, <1>3, PutOrder
  <2> QED BY <1>2, <2>2, <2>3
<1>6. /\ Line \in Seq(Task) /\ Len(Line) = n
      /\ \A i \in 1..n :
           Line[i] = GetFsm[SignalQueue.cell[(SignalQueue.get + i - 1) % SIZE]]
  BY <1>3, LineType DEF Line
<1>7. Line' = [i \in 1..(n + 1) |->
                 GetFsm[SignalQueue'.cell[(SignalQueue.get + i - 1) % SIZE]]]
  BY <1>4, <1>5 DEF Line
<1>8. ASSUME NEW i \in 1..(n + 1) PROVE Line'[i] = Append(Line, GetFsm[e])[i]
  <2>1. PICK k \in 0..n : k = i - 1 /\ SignalQueue.get + i - 1 = SignalQueue.get + k
    BY <1>5
  <2>2. Line'[i] = GetFsm[SignalQueue'.cell[(SignalQueue.get + k) % SIZE]]
    BY <1>7, <2>1
  <2>3. CASE i = n + 1
    BY <1>5, <1>6, <2>1, <2>2, <2>3
  <2>4. CASE i # n + 1
    <3>1. k \in 0..(n - 1) /\ i \in 1..n
      BY <2>1, <2>4
    <3>2. Line[i] = GetFsm[SignalQueue.cell[(SignalQueue.get + k) % SIZE]]
      BY <1>6, <2>1, <3>1
    <3>3. Line'[i] = Line[i]
      BY <1>5, <2>2, <3>1, <3>2
    <3> QED BY <1>6, <3>1, <3>3
  <2> QED BY <2>3, <2>4
<1>9. /\ Append(Line, GetFsm[e]) \in Seq(Task)
      /\ Len(Append(Line, GetFsm[e])) = n + 1
  BY <1>6, MutexAssumption
<1>10. Line' \in [1..(n + 1) -> Task]
  BY <1>7, <1>8, <1>9
<1> QED BY <1>8, <1>9, <1>10, SameLine

\* The event that is taken out of the queue is that of the head of the line.
LEMMA LeavesLine ==
  ASSUME MutexType, QueueInv, IsNotEmpty(SignalQueue),
         SignalQueue' = Get(SignalQueue, SIZE)
  PROVE  /\ Line # <<>> /\ Line' = Tail(Line)
         /\ Head(Line) = GetFsm[Front(SignalQueue, SIZE)]
<1>1. PICK Ent : Ent = Event \cup {Null}
  OBVIOUS
<1>2. /\ SignalQueue \in Queues(SIZE, Ent) /\ Used(SignalQueue) <= SIZE
      /\ Null \in Ent /\ ValidSize(SIZE)
  BY <1>1, MutexAssumption DEF MutexType
<1>3. PICK n \in Nat : n = Used(SignalQueue) /\ n > 0
  BY <1>2, LineType, QueueIndices DEF IsNotEmpty
<1>4. Used(SignalQueue)' = n - 1
  BY <1>2, <1>3, GetFacts DEF Used
<1>5. /\ SignalQueue.get \in Int /\ SignalQueue'.get \in Int
      /\ Front(SignalQueue, SIZE) = SignalQueue.cell[(SignalQueue.get + 0) % SIZE]
      /\ \A i \in 0..(n - 2) :
           SignalQueue'.cell[(SignalQueue'.get + i) % SIZE]
             = SignalQueue.cell[(SignalQueue.get + (i + 1)) % SIZE]
  <2>1. SignalQueue'.get \in 0..(IndexMod - 1)
    BY <1>2, GetFacts, QueueIndices
  <2>2. SignalQueue.get \in 0..(IndexMod - 1)
    BY <1>2, QueueIndices
  <2>3. /\ Front(SignalQueue, SIZE) = SignalQueue.cell[(SignalQueue.get + 0) % SIZE]
        /\ \A i \in 0..(n - 2) :
             Get(SignalQueue, SIZE).cell[(Get(SignalQueue, SIZE).get + i) % SIZE]
               = SignalQueue.cell[(SignalQueue.get + (i + 1)) % SIZE]
    BY <1>2, <1>3, GetOrder
  <2>4. SignalQueue.get \in Int /\ SignalQueue'.get \in Int
    BY <2>1, <2>2, IndexModAssumption
  <2> QED BY <2>3, <2>4
<1>6. /\ Line \in Seq(Task) /\ Len(Line) = n
      /\ \A i \in 1..n :
           Line[i] = GetFsm[SignalQueue.cell[(SignalQueue.get + i - 1) % SIZE]]
  BY <1>3, LineType DEF Line
<1>7. Line' = [i \in 1..(n - 1) |->
                 GetFsm[SignalQueue'.cell[(SignalQueue'.get + i - 1) % SIZE]]]
  BY <1>4 DEF Line
<1>8. ASSUME NEW i \in 1..(n - 1) PROVE Line'[i] = Tail(Line)[i]
  <2>1. PICK k \in 0..(n - 2) : k = i - 1
    BY <1>3
  <2>2. /\ SignalQueue'.get + i - 1 = SignalQueue'.get + k
        /\ SignalQueue.get + (i + 1) - 1 = SignalQueue.get + (k + 1)
        /\ i + 1 \in 1..n
    BY <1>3, <1>5, <2>1
  <2>3. Line'[i] = GetFsm[SignalQueue'.cell[(SignalQueue'.get + k) % SIZE]]
    BY <1>7, <2>2
  <2>4. Line[i + 1] = GetFsm[SignalQueue.cell[(SignalQueue.get + (k + 1)) % SIZE]]
    BY <1>6, <2>2
  <2>5. Tail(Line)[i] = Line[i + 1]
    BY <1>3, <1>6
  <2> QED BY <1>5, <2>3, <2>4, <2>5
<1>9. Line # <<>> /\ Tail(Line) \in Seq(Task) /\ Len(Tail(Line)) = n - 1
  BY <1>3, <1>6
<1>10. Line' \in [1..(n - 1) -> Task]
  BY <1>7, <1>8, <1>9
<1>11. Line' = Tail(Line)
  BY <1>3, <1>8, <1>9, <1>10, SameLine
<1>12. Head(Line) = GetFsm[Front(SignalQueue, SIZE)]
  <2>1. SignalQueue.get + 1 - 1 = SignalQueue.get + 0 /\ 1 \in 1..n
    BY <1>3, <1>5
  <2>2. Line[1] = GetFsm[Front(SignalQueue, SIZE)]
    BY <1>5, <1>6, <2>1
  <2> QED BY <1>6, <1>9, <2>2
<1> QED BY <1>9, <1>11, <1>12

\* Asking for the mutex is entering the lock or joining its line.
LEMMA AsksFairLock ==
  ASSUME IInv, WInv, \A e, f \in Event : GetFsm[e] = GetFsm[f] => e = f,
         NEW t \in Task, NEW e \in Event, NEW counted, Asks(t, e, counted), orderly'
  PROVE  Fair!Enter(t) \/ Fair!Join(t)
<1>0. MutexType /\ OwnerInv /\ QueueInv /\ ReservedInv
  BY DEF IInv, WInv
<1>1. GetFsm[e] = t /\ Attempt(t, e, counted) /\ Null \notin Task /\ Null \notin Event
  BY MutexAssumption DEF Asks
<1>2. InOrder(e) /\ \A c \in LiveCells(SignalQueue, SIZE) : GetFsm[SignalQueue.cell[c]] # t
  BY OrderlyAsker
<1>3. CASE Acquire(t, e)
  <2>1. /\ SignalQueue' = SignalQueue /\ Counter' = Counter + 1
        /\ ptrOwnersSignal' = IF Free(e) THEN e ELSE ptrOwnersSignal
        /\ Free(e) \/ Nested(e)
    BY <1>3 DEF Acquire
  <2>2. Line' = Line
    BY <2>1 DEF Line, Used
  <2>3. Holder \in {Null, t}
    BY <1>1, <2>1 DEF Holder, Free, Nested, NotReserved
  <2>4. Holder' = t
    BY <1>1, <2>1 DEF Holder, Nested
  <2> QED BY <2>1, <2>2, <2>3, <2>4 DEF Fair!Enter
<1>4. CASE Enqueue(e)
  <2>1. UNCHANGED <<ptrOwnersSignal, ptrWaitingSignal, Counter>> /\ Refused(e)
    BY <1>4 DEF Enqueue
  <2>2. Holder # Null /\ Holder # t
    <3>1. CASE ptrOwnersSignal # Null
      <4>1. ptrOwnersSignal \in Event /\ ptrWaitingSignal \in {Null, ptrOwnersSignal}
        BY <1>0, <3>1 DEF MutexType, ReservedInv
      <4>2. GetFsm[ptrOwnersSignal] # t
        BY <1>1, <2>1, <3>1, <4>1 DEF Refused, Nested, NotReserved
      <4> QED BY <3>1, <4>1, <4>2, <1>1, MutexAssumption DEF Holder
    <3>2. CASE ptrOwnersSignal = Null
      <4>1. ptrWaitingSignal \in Event /\ ptrWaitingSignal # e
        BY <1>0, <2>1, <3>2 DEF MutexType, Refused, Free, NotReserved
      <4>2. GetFsm[ptrWaitingSignal] # t
        BY <1>1, <4>1
      <4> QED BY <3>2, <4>1, <4>2, <1>1, MutexAssumption DEF Holder
    <3> QED BY <3>1, <3>2
  <2>3. \A i \in 1..Len(Line) : Line[i] # t
    BY <1>0, <1>2, LineType
  <2>4. Line' = Append(Line, t)
    BY <1>0, <1>1, <1>4, JoinsLine
  <2>5. Holder' = Holder /\ Counter' = Counter
    BY <2>1 DEF Holder
  <2> QED BY <2>2, <2>3, <2>4, <2>5 DEF Fair!Join
<1>5. ~AskAgain(e)
  BY <1>2 DEF AskAgain, InOrder
<1> QED BY <1>1, <1>3, <1>4, <1>5 DEF Attempt

\* Unlocking is leaving the lock, or passing it on.
LEMMA UnlockFairLock ==
  ASSUME IInv, WInv, NEW t \in Task, Unlock(t)
  PROVE  Fair!Leave \/ Fair!PassOn
<1>0. MutexType /\ OwnerInv /\ QueueInv
  BY DEF IInv, WInv
<1>1. Counter' = Counter - 1
  BY DEF Unlock
<1>2. CASE /\ Counter > 1
           /\ UNCHANGED <<ptrOwnersSignal, ptrWaitingSignal, SignalQueue, sent>>
  BY <1>1, <1>2 DEF Fair!Leave, Holder, Line, Used
<1>3. CASE /\ Counter = 1
           /\ IsNotEmpty(SignalQueue)
           /\ ptrWaitingSignal' = Front(SignalQueue, SIZE)
           /\ SignalQueue' = Get(SignalQueue, SIZE)
           /\ ptrOwnersSignal' = Null
  <2>1. /\ Line # <<>> /\ Line' = Tail(Line)
        /\ Head(Line) = GetFsm[Front(SignalQueue, SIZE)]
    BY <1>0, <1>3, LeavesLine
  <2>2. PICK g \in LiveCells(SignalQueue, SIZE) :
          SignalQueue.cell[g] = Front(SignalQueue, SIZE)
    BY <1>0, <1>3, DequeueCells
  <2>3. ptrWaitingSignal' # Null
    BY <1>0, <1>3, <2>2, MutexAssumption DEF QueueInv
  <2>4. Holder' = Head(Line)
    BY <1>3, <2>1, <2>3 DEF Holder
  <2> QED BY <1>1, <1>3, <2>1, <2>4 DEF Fair!PassOn
<1>4. CASE /\ Counter = 1
           /\ ~IsNotEmpty(SignalQueue)
           /\ ptrWaitingSignal' = Null
           /\ ptrOwnersSignal' = Null
           /\ UNCHANGED <<SignalQueue, sent>>
  <2>1. Line' = Line /\ Holder' = Null
    BY <1>4 DEF Line, Used, Holder
  <2>2. Used(SignalQueue) = 0
    BY <1>0, <1>4, QueueIndices DEF MutexType, IsNotEmpty
  <2>3. Line = <<>>
    BY <1>0, <2>2, LineType
  <2> QED BY <1>1, <1>4, <2>1, <2>3 DEF Fair!PassOn
<1> QED BY <1>2, <1>3, <1>4 DEF Unlock

\* With one event for each task, and as long as all is orderly, the mutex is a
\* lock that is passed on from task to task in the order in which they asked, for
\* any number of tasks and any nesting.
THEOREM HandsOnFairly ==
  ASSUME \A e, f \in Event : GetFsm[e] = GetFsm[f] => e = f
  PROVE  Spec => ImplementsFairLock
<1>1. Init => Fair!Init
  <2> SUFFICES ASSUME Init PROVE Fair!Init
    OBVIOUS
  <2>1. MutexType /\ QueueInv
    BY InitInv, InitWInv DEF IInv, WInv
  <2>2. Used(SignalQueue) = 0
    BY <2>1, QueueIndices DEF Init, EmptyQueue, MutexType
  <2>3. Line = <<>>
    BY <2>1, <2>2, LineType
  <2> QED BY <2>3 DEF Init, Fair!Init, Holder
<1>2. IInv /\ WInv /\ [Next]_vars => [orderly' => Fair!Next]_(Fair!vars)
  <2> SUFFICES ASSUME IInv, WInv, [Next]_vars, orderly'
               PROVE  Fair!Next \/ UNCHANGED Fair!vars
    OBVIOUS
  <2>1. ASSUME NEW t \in Task, (\E e \in Event : Lock_bl(t, e)) \/ Wake(t) \/ StrayWake(t)
        PROVE  Fair!Next
    <3>1. PICK e \in Event, counted \in [Event -> BOOLEAN] : Asks(t, e, counted)
      BY <2>1, AskingSteps
    <3>2. Fair!Enter(t) \/ Fair!Join(t)
      BY <3>1, AsksFairLock
    <3> QED BY <3>2 DEF Fair!Next
  <2>2. ASSUME NEW t \in Task, Unlock(t) PROVE Fair!Next
    BY <2>2, UnlockFairLock DEF Fair!Next
  <2>3. ASSUME NEW t \in Task, NEW e \in Event, TryLock(t, e) PROVE FALSE
    BY <2>3 DEF TryLock
  <2>4. CASE UNCHANGED mutex
    BY <2>4 DEF mutex, Fair!vars, Holder, Line, Used
  <2>5. ASSUME NEW t \in Task, Pause(t) \/ Resume(t) PROVE UNCHANGED mutex
    BY <2>5 DEF Pause, Resume
  <2>6. UNCHANGED vars => UNCHANGED mutex
    BY DEF vars, mutex
  <2> QED BY <2>1, <2>2, <2>3, <2>4, <2>5, <2>6 DEF Next
<1> QED BY <1>1, <1>2, Invariance, WaitersInvariance, PTL DEF Spec, ImplementsFairLock
================================================================================
