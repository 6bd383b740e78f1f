------------------------------ MODULE UsartDriver ------------------------------
(***************************************************************************)
(* UsartDriver_t (src/drivers/adx_UsartDriver.h and .cpp) around its data   *)
(* queues.  What the model follows is one buffer, connected in one of the   *)
(* three ways the framework uses:                                           *)
(*                                                                          *)
(*   "Receiver"     RxDataBuffer: the receive interrupt puts, without a     *)
(*                  functor, and the task that has opened the driver for    *)
(*                  reading gets;                                           *)
(*   "Transmitter"  TxDataBuffer: the task that has opened the driver for   *)
(*                  writing puts, and the driver gets.  Its functor is the  *)
(*                  driver itself, which moves one byte to the data         *)
(*                  register: called by Write, and by the interrupt for an  *)
(*                  empty data register as long as that is switched on;     *)
(*   "Tasks"        a queue of its own between two tasks.                   *)
(*                                                                          *)
(* The two buffers of a driver share nothing but Config.  Who may open a    *)
(* side is decided by a RecursiveMutex_t, which is a module of its own: a   *)
(* side here is open or not, and its task is whoever has opened it.         *)
(*                                                                          *)
(* The interrupts strike between any two steps of a task; a critical        *)
(* section is one step.                                                     *)
(***************************************************************************)
EXTENDS DataQueue, BaudRate

CONSTANT Kinds   \* the connections to look at

ASSUME UsartDriverAssumption == Kinds \subseteq {"Tasks", "Receiver", "Transmitter"}

VARIABLES
  kind,                \* the connection, which is fixed
  DRE,                 \* the interrupt for an empty data register is on
  DATA,                \* the data register: "Empty", or "Full" until it is shifted out
  DRE_InterruptLevel,  \* Config has given the interrupt a level
  TxCompleteFlag,
  lapse                \* an interrupt came at a moment a task's call does not
                       \* expect, or the driver was used before Config (history)

driverVars == <<DRE, DATA, DRE_InterruptLevel, TxCompleteFlag>>
vars == <<queueVars, kind, driverVars, lapse>>

DriverInit ==
  /\ kind \in Kinds
  /\ Constructed(CASE kind = "Tasks"       -> Side
                   [] kind = "Receiver"    -> {}
                   [] kind = "Transmitter" -> {"Get"},
                 IF kind = "Transmitter" THEN {"Get"} ELSE {})
  /\ DRE = FALSE
  /\ DATA = "Empty"
  /\ DRE_InterruptLevel = FALSE
  /\ TxCompleteFlag = TRUE
  /\ lapse = FALSE

\* The sides that are tasks.
TaskSides == CASE kind = "Tasks"       -> Side
               [] kind = "Receiver"    -> {"Get"}
               [] kind = "Transmitter" -> {"Put"}

--------------------------------------------------------------------------------
(* Opening and closing *)

\* OpenRead_bl and OpenWrite_bl, and OpenRead and OpenWrite when the mutex is
\* free, in a task whose event may have been sent before.
Open(s) ==
  /\ kind # "Tasks"
  /\ ~connected[s]
  /\ Connect(s)
  /\ UNCHANGED <<kind, driverVars, lapse>>

\* Only the functor is taken away.
Close_Unpurged(s) ==
  /\ kind # "Tasks"
  /\ connected[s]
  /\ ConnectFunctor(s, FALSE)
  /\ UNCHANGED <<pending, kind, driverVars, lapse>>

\* CloseRead and CloseWrite: the event, disabled for a moment, forgets what it
\* has counted.
Close(s) ==
  /\ kind # "Tasks"
  /\ connected[s]
  /\ ConnectFunctor(s, FALSE)
  /\ pending' = [pending EXCEPT ![s] = FALSE]
  /\ UNCHANGED <<kind, driverVars, lapse>>

--------------------------------------------------------------------------------
(* Receiving *)

\* PutDataToRxBufferFromISR: all of a Put at once.  A byte that finds the buffer
\* full is lost, with a warning.
PutDataToRxBufferFromISR(d) ==
  /\ kind = "Receiver"
  /\ IF IsNotFull THEN PutElement(d) ELSE UNCHANGED <<indexVars, got>>
  /\ IF Wakes("Put", 1)
     THEN /\ pending' = [pending EXCEPT !["Get"] = TRUE]
          /\ Remain' = [Remain EXCEPT !["Get"] = 0]
     ELSE UNCHANGED <<pending, Remain>>
  /\ lapse' = (lapse \/ pc["Get"] = "Short")
  /\ UNCHANGED <<connected, WakeupFlag, pc, todo, kind, driverVars>>

RXC_vect == \E d \in Data : PutDataToRxBufferFromISR(d)

--------------------------------------------------------------------------------
(* Transmitting *)

\* operator(): Get in a critical section, with the functor of the put side
\* called in it, and the interrupt left on as long as there is a byte.
Transmit ==
  /\ pending' = [pending EXCEPT !["Put"] = @ \/ Wakes("Get", 1)]
  /\ Remain' = [Remain EXCEPT !["Put"] = IF Wakes("Get", 1) THEN 0 ELSE @,
                              !["Get"] = IF IsNotEmpty THEN @ ELSE 1]
  /\ TxCompleteFlag' = ~IsNotEmpty
  /\ IF IsNotEmpty
     THEN /\ GetElement
          /\ DATA' = "Full"
          /\ DRE' = (DRE \/ DRE_InterruptLevel)
     ELSE /\ DRE' = FALSE
          /\ UNCHANGED <<indexVars, got, DATA>>
  /\ UNCHANGED DRE_InterruptLevel

\* The functor answers false, and is called again by the next Write.
NotifyDriver_Again ==
  /\ kind = "Transmitter"
  /\ Returns("Put")
  /\ IF WakeupFlag["Get"]
     THEN Transmit /\ lapse' = (lapse \/ ~DRE_InterruptLevel)
     ELSE UNCHANGED <<indexVars, got, pending, Remain, driverVars, lapse>>
  /\ UNCHANGED <<connected, WakeupFlag, kind>>

\* ProcGetsideWakeupCondition of a Write to the driver: its functor, which
\* answers true.
NotifyDriver ==
  /\ kind = "Transmitter"
  /\ Returns("Put")
  /\ IF WakeupFlag["Get"]
     THEN Transmit /\ lapse' = (lapse \/ ~DRE_InterruptLevel)
     ELSE UNCHANGED <<indexVars, got, pending, Remain, driverVars, lapse>>
  /\ WakeupFlag' = [WakeupFlag EXCEPT !["Get"] = FALSE]
  /\ UNCHANGED <<connected, kind>>

\* The interrupt.  A Write that has already decided whether it must call the
\* driver does not expect that it finds the buffer empty and switches itself off.
DRE_vect ==
  /\ kind = "Transmitter"
  /\ DRE /\ DATA = "Empty"
  /\ Transmit
  /\ lapse' = (lapse \/ (~IsNotEmpty /\ pc["Put"] \in {"Move", "Short"} /\ todo["Put"] > 0))
  /\ UNCHANGED <<connected, WakeupFlag, pc, todo, kind>>

\* The hardware moves a byte from the data register to the line.
Shift ==
  /\ DATA = "Full" /\ DRE_InterruptLevel
  /\ DATA' = "Empty"
  /\ UNCHANGED <<queueVars, kind, DRE, DRE_InterruptLevel, TxCompleteFlag, lapse>>

\* Config does not ask whether a transmission is under way.
Config_Anytime ==
  /\ kind = "Transmitter"
  /\ Quiet
  /\ DRE' = FALSE
  /\ DRE_InterruptLevel' = TRUE
  /\ UNCHANGED <<queueVars, kind, DATA, TxCompleteFlag, lapse>>

\* Config, called by a task or by main(), and not refused.
Config ==
  /\ kind = "Transmitter"
  /\ Quiet
  /\ TxCompleteFlag
  /\ DRE' = FALSE
  /\ DRE_InterruptLevel' = TRUE
  /\ UNCHANGED <<queueVars, kind, DATA, TxCompleteFlag, lapse>>

--------------------------------------------------------------------------------
\* A step of a call of the task of side s.
Step(s) ==
  /\ s \in TaskSides
  /\ Call(s) \/ (kind # "Transmitter" /\ Notify(s))
  /\ UNCHANGED <<kind, driverVars, lapse>>

StartsCall(s) ==
  /\ s \in TaskSides
  /\ Starts(s)
  /\ UNCHANGED <<kind, driverVars, lapse>>

Reconnect(s) ==
  /\ kind = "Tasks"
  /\ Connect(s)
  /\ UNCHANGED <<kind, driverVars, lapse>>

DriverNext ==
  \/ \E s \in TaskSides : StartsCall(s) \/ Step(s) \/ Reconnect(s) \/ Open(s) \/ Close(s)
  \/ NotifyDriver
  \/ RXC_vect \/ DRE_vect
  \/ Shift
  \/ Config

\* Tasks go on, and go on calling, although others run (NoStarvation of
\* EventSystem); bytes keep arriving; the hardware shifts bytes out, and an
\* interrupt that is on strikes.
Fairness ==
  /\ \A s \in Side : SF_vars(Step(s)) /\ SF_vars(StartsCall(s))
  /\ SF_vars(NotifyDriver)
  /\ WF_vars(RXC_vect) /\ WF_vars(DRE_vect) /\ WF_vars(Shift)

DriverSpec == DriverInit /\ [][DriverNext]_vars
FairSpec == DriverSpec /\ Fairness
--------------------------------------------------------------------------------
(* Properties *)

\* Every variable has its type, and there are never more elements than cells.
TypeOK ==
  /\ QueueTypeOK
  /\ kind \in Kinds
  /\ DRE \in BOOLEAN
  /\ DATA \in {"Empty", "Full"}
  /\ DRE_InterruptLevel \in BOOLEAN
  /\ TxCompleteFlag \in BOOLEAN
  /\ lapse \in BOOLEAN

\* No notification is missed, whatever the sizes of the calls: "WakeUp Getside if
\* data in buf will be enough for it after current put/write operation"
\* (adx_DataQueue.h, 190), and the same of the put side (217).  Between tasks this
\* always holds, with an interrupt handler on the other side unless there was a
\* lapse.  A writer the driver has not notified yet can rely on the interrupt
\* being on, which will.  (Two tasks that both need more than there is have not
\* missed a notification: that they block each other is for NotBothBlocked.)
WaitersAreNotified ==
  ~lapse => IF kind = "Transmitter"
            THEN Quiet /\ pc["Put"] = "Wait" => pending["Put"] \/ DRE
            ELSE \A s \in Side : Notified(s)

\* Unless there was a lapse the transmitter never stops with bytes left in its
\* buffer, and never says it has finished before the last one is taken.
TransmitterRuns ==
  kind = "Transmitter" /\ Quiet /\ ~lapse =>
    /\ currSize > 0 => DRE
    /\ TxCompleteFlag => currSize = 0 /\ DATA = "Empty"

\* No byte is written over one that waits in the data register, though a Write
\* moves its first byte there without looking.
NoByteOverwritten == [][kind = "Transmitter" /\ GetIndex' # GetIndex => DATA = "Empty"]_vars

\* What the driver has sent for a session is over with it: the task may use its
\* event for something else.
ClosedIsSilent == \A s \in Side : ~connected[s] => ~pending[s]

\* A call that has to wait returns, as long as the other side, if it is a task,
\* makes calls; a Write to the driver, unless there was a lapse.
CallsReturn ==
  [](kind = "Transmitter" => ~lapse) =>
    \A s \in Side : pc[s] = "Wait" ~> pc[s] = "Ready"

\* A driver that has been configured runs at the rate it was configured for,
\* whichever that is, if the hardware can make it: nothing reports a search of
\* GetConfig that has failed.
RatesAreMet == DRE_InterruptLevel => SettingsMeetRates

\* A task that reads what the receive interrupt puts is always notified.
ReaderIsNotified == kind = "Receiver" => Notified("Get")

\* Bytes that have been written to a driver with a configuration are sent: its
\* interrupt is on while there are any.
NothingStranded ==
  kind = "Transmitter" /\ DRE_InterruptLevel /\ Quiet /\ currSize > 0 => DRE
================================================================================
