----------------------------- MODULE EventSystem -----------------------------
(***************************************************************************)
(* The event system of the framework: Event_t (src/core/adx_Event.h and     *)
(* adx_Event.cpp), its three priority queues, the dispatcher                *)
(* ProcessNextEventInQue, and the main loop every application runs,         *)
(*                                                                          *)
(*    while (ProcessSystemStatus(Status)) { ProcessNextEventInQue(); }      *)
(*                                                                          *)
(* One processor runs the main loop and the tasks it calls; interrupt       *)
(* handlers preempt both wherever no critical section is open.  So a step   *)
(* here is one critical section (Send, SetMode, the destructor, one turn    *)
(* of the dispatcher's inner loop) and an interrupt handler may take its    *)
(* step between any two of them.                                            *)
(***************************************************************************)
EXTENDS SystemQueueOps, SystemStatus

CONSTANTS Event,       \* the event objects
          Dynamic,     \* those that live in a task's scope and come and go
          InUse,       \* the priorities the application gives its events
          NoFsm,       \* those constructed with a null FSM pointer
          Size,        \* queue size of each priority
          MaxSucc,     \* MaxNumberOfSuccessive...PrtyCalls of each priority
          MaxCounter   \* the largest SignalCounter_t: 65535

Priority == {"High", "Middle", "Low"}
Mode     == {"Disabled", "Silent", "Active"}
Entry    == Event \cup {Null}

ASSUME EventAssumption ==
  /\ Null \notin Event
  /\ Dynamic \subseteq Event
  /\ NoFsm \subseteq Event
  /\ InUse \subseteq Priority /\ InUse # {}
  /\ Size \in [Priority -> Nat] /\ \A p \in Priority : ValidSize(Size[p])
  /\ MaxSucc \in [Priority -> Nat \ {0}]
  /\ MaxCounter \in Nat \ {0}

VARIABLES
  alive,     \* alive[e]: the object exists
  mode,      \* Signal_t::Mode
  counter,   \* Signal_t::Counter
  priority,  \* Event_t::Priority
  slot,      \* Event_t::pptrEventInQueue: the queue and cell it points into
  queue,     \* the three static queues
  status,    \* CurrentSystemStatus
  pc,        \* where the main loop is
  stage,     \* which of the dispatcher's three loops it is in
  succ,      \* the dispatcher's three static counters
  handed     \* the event and count the running FSM was called with

eventVars == <<alive, mode, counter, priority, slot, queue>>
loopVars  == <<pc, stage, succ, handed>>
vars      == <<alive, mode, counter, priority, slot, queue, status,
               pc, stage, succ, handed>>

\* No FSM is being called.
Nothing == [event |-> Null, count |-> 0]

NoSlot == [level |-> "None", cell |-> 0]

\* A pointer into a queue's array.
SlotOf(p, c) == [level |-> p, cell |-> c]

Lower == [p \in {"High", "Middle"} |-> IF p = "High" THEN "Middle" ELSE "Low"]

--------------------------------------------------------------------------------
\* Tasks have run Start() up to their first Wait() or are about to; events are
\* freshly constructed, with the mode and priority their constructor was given;
\* no task has constructed one of its own yet.
Init ==
  /\ alive = [e \in Event |-> e \notin Dynamic]
  /\ mode \in [Event -> Mode]
  /\ priority \in [Event -> InUse]
  /\ counter = [e \in Event |-> 0]
  /\ slot = [e \in Event |-> NoSlot]
  /\ queue = [p \in Priority |-> EmptyQueue(Size[p])]
  /\ status = OkStatus
  /\ pc = "Start"
  /\ stage = "High"
  /\ succ = [p \in Priority |-> 0]
  /\ handed = Nothing

--------------------------------------------------------------------------------
(* A name with an underscore is a faulty variant of the operator it is named  *)
(* after: a run replaces the one by the other to see its properties fail.     *)

\* PutPtrEventInQueue: PutE into the queue of the event's priority; a full
\* queue yields a null pointer and an Error.
Fits(e) == IsNotFull(queue[priority[e]], Size[priority[e]])

\* The event does not remember where it is queued.
PutPtrEventInQueue_Forget(e) ==
  LET p == priority[e] IN
  /\ queue' = IF Fits(e) THEN [queue EXCEPT ![p] = Put(@, Size[p], e)] ELSE queue
  /\ UNCHANGED slot

PutPtrEventInQueue(e) ==
  LET p == priority[e] IN
  IF Fits(e)
  THEN /\ queue' = [queue EXCEPT ![p] = Put(@, Size[p], e)]
       /\ slot' = [slot EXCEPT ![e] = SlotOf(p, PutCell(queue[p], Size[p]))]
  ELSE UNCHANGED <<queue, slot>>

\* The overflow of a queue goes unreported.
StatusAfterPut_Mute(e) == status

StatusAfterPut(e) ==
  IF Fits(e) THEN status ELSE RaiseError(status, "QueueOverflow")

\* A counter that is not saturated.
Counted_Wrapping(e) == [counter EXCEPT ![e] = (@ + 1) % (MaxCounter + 1)]

\* The counters after a Send: SignalCounter_t saturates.
Counted(e) == [counter EXCEPT ![e] = IF @ < MaxCounter THEN @ + 1 ELSE @]

\* Event_t::Send.  A disabled event answers false and changes nothing.
Send(e) ==
  LET wanted == mode[e] = "Active" /\ slot[e] = NoSlot
      st     == IF wanted THEN StatusAfterPut(e) ELSE status
  IN
  /\ alive[e]
  /\ mode[e] # "Disabled"
  /\ IF wanted THEN PutPtrEventInQueue(e) ELSE UNCHANGED <<queue, slot>>
  /\ counter' = Counted(e)
  /\ status' = IF counter[e] < MaxCounter
               THEN st ELSE RaiseWarning(st, "EventCounterOverflow")
  /\ UNCHANGED <<alive, mode, priority, loopVars>>

\* Event_t::SetMode.
SetMode(e, m) ==
  LET wanted == m = "Active" /\ counter[e] > 0 /\ slot[e] = NoSlot IN
  /\ alive[e]
  /\ mode' = [mode EXCEPT ![e] = m]
  /\ counter' = IF m = "Disabled" THEN [counter EXCEPT ![e] = 0] ELSE counter
  /\ IF wanted THEN PutPtrEventInQueue(e) ELSE UNCHANGED <<queue, slot>>
  /\ status' = IF wanted THEN StatusAfterPut(e) ELSE status
  /\ UNCHANGED <<alive, priority, loopVars>>

\* Event_t::SetPriority: a queued event stays in the queue it is in.
SetPriority(e, p) ==
  /\ alive[e]
  /\ priority' = [priority EXCEPT ![e] = p]
  /\ UNCHANGED <<alive, mode, counter, slot, queue, status, loopVars>>

\* Event_t's constructor, for an event that is a local of a task.
Construct(e, m, p) ==
  /\ e \in Dynamic
  /\ ~alive[e]
  /\ alive' = [alive EXCEPT ![e] = TRUE]
  /\ mode' = [mode EXCEPT ![e] = m]
  /\ counter' = [counter EXCEPT ![e] = 0]
  /\ priority' = [priority EXCEPT ![e] = p]
  /\ slot' = [slot EXCEPT ![e] = NoSlot]
  /\ UNCHANGED <<queue, status, loopVars>>

\* A destructor that leaves the queue entry behind.
Destroy_LeaveEntry(e) ==
  /\ e \in Dynamic
  /\ alive[e]
  /\ alive' = [alive EXCEPT ![e] = FALSE]
  /\ slot' = [slot EXCEPT ![e] = NoSlot]
  /\ mode' = [mode EXCEPT ![e] = "Disabled"]
  /\ counter' = [counter EXCEPT ![e] = 0]
  /\ UNCHANGED <<queue, priority, status, loopVars>>

\* ~Event_t: the cell the event's pointer names is emptied through the pointer.
\* The members of the dead object mean nothing any more; they are set to fixed
\* values.
Destroy(e) ==
  /\ e \in Dynamic
  /\ alive[e]
  /\ alive' = [alive EXCEPT ![e] = FALSE]
  /\ slot' = [slot EXCEPT ![e] = NoSlot]
  /\ queue' = IF slot[e] = NoSlot THEN queue
              ELSE [queue EXCEPT ![slot[e].level].cell[slot[e].cell] = Null]
  /\ mode' = [mode EXCEPT ![e] = "Disabled"]
  /\ counter' = [counter EXCEPT ![e] = 0]
  /\ UNCHANGED <<priority, status, loopVars>>

\* adx_fsm::Exit, called by a task.
Exit ==
  /\ status' = RaiseExit(status, "Requested")
  /\ UNCHANGED <<eventVars, loopVars>>

--------------------------------------------------------------------------------
\* main() after FSM_t::Start() has returned.
FinishStart ==
  /\ pc = "Start"
  /\ pc' = "Status"
  /\ UNCHANGED <<eventVars, status, stage, succ, handed>>

\* The condition of the main loop: ProcessSystemStatus.
ProcessSystemStatus ==
  /\ pc = "Status"
  /\ status' = Fetched(status)
  /\ pc' = IF GoOn(status) THEN "Poll" ELSE "Stopped"
  /\ stage' = "High"
  /\ UNCHANGED <<eventVars, succ, handed>>

\* Leaving the loop of the current stage: its counter is cleared and the next
\* stage begins; after the last one ProcessNextEventInQue returns true (idle).
NextStage ==
  /\ succ' = [succ EXCEPT ![stage] = 0]
  /\ IF stage = "Low" THEN pc' = "Status" /\ UNCHANGED stage
                      ELSE stage' = Lower[stage] /\ UNCHANGED pc

\* A limit on successive calls that is off by one.
HasShare_OffByOne  == succ[stage] <= MaxSucc[stage]

\* HighPrtyCounter < MaxNumberOfSuccessiveHighPrtyCalls, and so on.
HasShare == succ[stage] < MaxSucc[stage]

\* The stage has had its share of successive calls: warn, pass it over.
PassOver ==
  /\ pc = "Poll"
  /\ ~HasShare
  /\ status' = RaiseWarning(status, "QueueOverload")
  /\ NextStage
  /\ UNCHANGED <<eventVars, handed>>

\* The queue is empty: break out of the stage's loop.
FindEmpty ==
  /\ pc = "Poll"
  /\ HasShare
  /\ ~IsNotEmpty(queue[stage])
  /\ NextStage
  /\ UNCHANGED <<eventVars, status, handed>>

\* One critical section of the stage's loop with an entry to take.
TakeEntry ==
  LET e == Front(queue[stage], Size[stage])
      deliverable == e # Null /\ mode[e] = "Active" /\ counter[e] > 0
  IN
  /\ pc = "Poll"
  /\ HasShare
  /\ IsNotEmpty(queue[stage])
  /\ queue' = [queue EXCEPT ![stage] = Get(@, Size[stage])]
  /\ slot' = IF e = Null THEN slot ELSE [slot EXCEPT ![e] = NoSlot]
  /\ counter' = IF deliverable THEN [counter EXCEPT ![e] = 0] ELSE counter
  /\ IF deliverable /\ e \notin NoFsm
     THEN /\ handed' = [event |-> e, count |-> counter[e]]
          /\ pc' = "Task"
     ELSE UNCHANGED <<handed, pc>>     \* continue
  /\ UNCHANGED <<alive, mode, priority, status, stage, succ>>

\* The successive calls of a stage are not counted.
TaskWait_Uncounted ==
  /\ pc = "Task"
  /\ pc' = "Status"
  /\ handed' = Nothing
  /\ UNCHANGED <<eventVars, status, stage, succ>>

\* The called task waits, the call returns, and so does the dispatcher (false).
TaskWait ==
  /\ pc = "Task"
  /\ succ' = [succ EXCEPT ![stage] = @ + 1]
  /\ pc' = "Status"
  /\ handed' = Nothing
  /\ UNCHANGED <<eventVars, status, stage>>

\* The main loop has ended and main() returned.
Stopped == pc = "Stopped" /\ UNCHANGED vars

--------------------------------------------------------------------------------
MainStep == \/ FinishStart
            \/ ProcessSystemStatus
            \/ PassOver
            \/ FindEmpty
            \/ TakeEntry
            \/ TaskWait

\* What the code of a running task may call.
TaskStep ==
  /\ pc \in {"Start", "Task"}
  /\ \/ \E e \in Event : Send(e)
     \/ \E e \in Event, m \in Mode : SetMode(e, m)
     \/ \E e \in Event, p \in InUse : SetPriority(e, p)
     \/ \E e \in Event, m \in Mode, p \in InUse : Construct(e, m, p)
     \/ \E e \in Event : Destroy(e)
     \/ Exit

\* An interrupt handler sends an event, wherever it strikes.
IsrStep == pc # "Stopped" /\ \E e \in Event : Send(e)

Next == MainStep \/ TaskStep \/ IsrStep \/ Stopped

\* The processor executes the main loop, and a task that was called comes to
\* its Wait(): tasks are cooperative.  Nothing forces tasks or interrupt
\* handlers to do anything.
Fairness == WF_vars(MainStep)

Spec == Init /\ [][Next]_vars
FairSpec == Spec /\ Fairness
--------------------------------------------------------------------------------
(* Properties *)

\* Every variable has its type.
TypeOK ==
  /\ alive \in [Event -> BOOLEAN]
  /\ mode \in [Event -> Mode]
  /\ counter \in [Event -> 0..MaxCounter]
  /\ priority \in [Event -> Priority]
  /\ slot \in [Event -> [level : Priority \cup {"None"}, cell : Nat]]
  /\ \A e \in Event : slot[e].level = "None" => slot[e] = NoSlot
  /\ DOMAIN queue = Priority
  /\ \A p \in Priority : /\ queue[p] \in Queues(Size[p], Entry)
                          /\ Used(queue[p]) <= Size[p]
  /\ status \in [type : StatusTypes,
                 code : {"None", "QueueOverflow", "EventCounterOverflow",
                         "QueueOverload", "Requested"}]
  /\ pc \in {"Start", "Status", "Poll", "Task", "Stopped"}
  /\ stage \in Priority
  /\ succ \in [Priority -> Nat] /\ \A p \in Priority : succ[p] <= MaxSucc[p]
  /\ handed \in [event : Entry, count : 0..MaxCounter]

Live(p) == LiveCells(queue[p], Size[p])

\* pptrEventInQueue always points at the one cell, between the indices of one
\* queue, that holds its event; so ~Event_t empties its own entry and never
\* another event's, and an event is never queued twice.
SlotsMatchCells ==
  /\ \A e \in Event : slot[e] # NoSlot =>
       /\ slot[e].level \in Priority
       /\ slot[e].cell \in Live(slot[e].level)
       /\ queue[slot[e].level].cell[slot[e].cell] = e
  /\ \A p \in Priority : \A c \in Live(p) :
       LET e == queue[p].cell[c] IN e # Null => slot[e] = SlotOf(p, c)

\* The dispatcher never reads through a pointer to a destroyed event: whatever
\* a queue still holds exists.
QueuedEventsExist ==
  \A p \in Priority : \A c \in Live(p) :
    LET e == queue[p].cell[c] IN e # Null => alive[e]

\* No wake-up is lost: an active event that has counted a Send is in a queue,
\* whatever order sends, mode changes, dispatches and destructors came in,
\* unless a queue overflowed, and then the system is in its Error state.
NoLostWakeup ==
  \A e \in Event : alive[e] /\ mode[e] = "Active" /\ counter[e] > 0
                    => slot[e] # NoSlot \/ status.type = "Error"

\* An error or an exit request ends the main loop: neither a later warning nor
\* the status the loop fetched before can make it go on for ever.
FailureStopsLoop == status.type \in {"Error", "Exit"} ~> pc = "Stopped"

Mailbox == INSTANCE EventMailbox WITH up <- pc # "Stopped"

\* The queues, the stages and the dispatcher do to an event what the mailbox
\* says and nothing else: each Send is counted once and handed over once.
ImplementsMailbox == Mailbox!Spec

\* An event that stays active with something counted is handed over, even if
\* interrupts and other tasks never stop sending events of higher priority:
\* the limits on successive calls starve nobody.
NoStarvation == Mailbox!Promise
================================================================================
