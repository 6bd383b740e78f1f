------------------------------- MODULE DataQueue -------------------------------
(***************************************************************************)
(* DataQueue_t (src/core/adx_DataQueue.h): a ring buffer between a put side *)
(* and a get side.  A side that cannot finish leaves the size it still      *)
(* needs; the other side compares that, BEFORE it moves its own data, with  *)
(* what it is going to leave in the buffer, and calls the functor of the    *)
(* side that waits AFTER it has moved them.                                 *)
(*                                                                          *)
(* The two sides mirror each other, and so do the definitions: Remain is    *)
(* SizeRemainToWrite and SizeRemainToRead, WakeupFlag the two flags, and a  *)
(* call of either side goes through the same steps.  Put and Get are Write  *)
(* and Read of one element.                                                 *)
(*                                                                          *)
(* Here both sides are tasks with events for functors, and neither runs in  *)
(* the middle of a call of the other; UsartDriver makes one of them an      *)
(* interrupt handler, which may strike between any two steps of the task.   *)
(* An element is copied and its index advanced in one step: the other side  *)
(* looks at a cell only after the index has passed it, as the module        *)
(* SystemQueue shows of the same ring.                                       *)
(***************************************************************************)
EXTENDS Integers, FiniteSets

CONSTANTS Data,        \* the elements
          SIZE,        \* cells of the buffer
          IndexMod,    \* number of values of an index: 256
          PutSizes,    \* what the put side asks to write in a call
          GetSizes     \* what the get side asks to read

ASSUME DataQueueAssumption ==
  /\ SIZE \in Nat \ {0}
  /\ IndexMod \in Nat /\ IndexMod > SIZE /\ IndexMod % SIZE = 0
  /\ PutSizes \subseteq Nat \ {0}
  /\ GetSizes \subseteq Nat \ {0}

Side == {"Put", "Get"}

Other(s) == IF s = "Put" THEN "Get" ELSE "Put"

Sizes(s) == IF s = "Put" THEN PutSizes ELSE GetSizes

VARIABLES
  data_array, PutIndex, GetIndex,
  connected,    \* a side's functor is not null
  Remain,       \* SizeRemainToWrite, SizeRemainToRead
  WakeupFlag,   \* PutsideWakeupFlag, GetsideWakeupFlag
  pc,           \* where the task of a side is in its call
  todo,         \* what its call has still to move
  pending,      \* the event of a side has been sent and not been delivered
  got           \* the last element got (history)

indexVars == <<data_array, PutIndex, GetIndex>>
queueVars == <<data_array, PutIndex, GetIndex, connected, Remain, WakeupFlag,
               pc, todo, pending, got>>

\* Constructed: whose functors are given, and whose are to be called at once.
Constructed(functors, flags) ==
  /\ connected = [s \in Side |-> s \in functors]
  /\ WakeupFlag = [s \in Side |-> s \in flags]
  /\ data_array \in [0..(SIZE - 1) -> Data]
  /\ PutIndex = 0 /\ GetIndex = 0
  /\ Remain = [s \in Side |-> 0]
  /\ pc = [s \in Side |-> "Ready"]
  /\ todo = [s \in Side |-> 0]
  /\ pending = [s \in Side |-> FALSE]
  /\ got = <<>>

Init == Constructed(Side, {})

--------------------------------------------------------------------------------
(* A name with an underscore is a faulty variant of the operator it is named  *)
(* after: a run replaces the one by the other to see its properties fail.     *)

currSize == (PutIndex - GetIndex) % IndexMod

Cell(i) == i % SIZE

IsNotFull_OffByOne == currSize <= SIZE

IsNotFull == currSize < SIZE

\* Get trusts that it was called for a reason.
IsNotEmpty_Trusting == TRUE

IsNotEmpty == currSize # 0

\* Side s can move an element.
CanMove(s) == IF s = "Put" THEN IsNotFull ELSE IsNotEmpty

\* What side s finds: elements to get, or free cells to put them in.
Avail(s) == IF s = "Put" THEN SIZE - currSize ELSE currSize

\* It finds half of the buffer.
HasHalf(s) == IF s = "Put" THEN currSize <= SIZE \div 2 ELSE currSize >= SIZE \div 2

\* The other side may finish only if more than it needs will be there.
Wakes_Strict(s, n) ==
  /\ connected[Other(s)]
  /\ Remain[Other(s)] > 0
  /\ \/ Remain[Other(s)] < Avail(Other(s)) + n
     \/ HasHalf(Other(s))

\* A call of side s that is to move n elements has reason to wake the other
\* side: it may finish after that, or has half the buffer already.
Wakes(s, n) ==
  /\ connected[Other(s)]
  /\ Remain[Other(s)] > 0
  /\ \/ Remain[Other(s)] <= Avail(Other(s)) + n
     \/ HasHalf(Other(s))

PutElement(d) ==
  /\ data_array' = [data_array EXCEPT ![Cell(PutIndex)] = d]
  /\ PutIndex' = (PutIndex + 1) % IndexMod
  /\ UNCHANGED <<GetIndex, got>>

GetElement ==
  /\ got' = <<data_array[Cell(GetIndex)]>>
  /\ GetIndex' = (GetIndex + 1) % IndexMod
  /\ UNCHANGED <<data_array, PutIndex>>

\* The task of side s, which no other task interrupts, goes from p to q.
Goes(s, p, q) ==
  /\ pc[Other(s)] \in {"Ready", "Wait"}
  /\ pc[s] = p
  /\ pc' = [pc EXCEPT ![s] = q]

\* Write_bl and Read_bl, or a polling call of Write and Read, for n elements.
Begin(s, n) ==
  /\ connected[s]
  /\ Goes(s, "Ready", "Check")
  /\ todo' = [todo EXCEPT ![s] = n]
  /\ UNCHANGED <<indexVars, connected, Remain, WakeupFlag, pending, got>>

\* CheckGetsideWakeupCondition and CheckPutsideWakeupCondition.
Check(s) ==
  /\ Goes(s, "Check", "Move")
  /\ IF Wakes(s, todo[s])
     THEN /\ WakeupFlag' = [WakeupFlag EXCEPT ![Other(s)] = TRUE]
          /\ Remain' = [Remain EXCEPT ![Other(s)] = 0]
     ELSE UNCHANGED <<WakeupFlag, Remain>>
  /\ UNCHANGED <<indexVars, connected, todo, pending, got>>

\* The loop of Write and Read.
Move(s) ==
  /\ Goes(s, "Move", "Move")
  /\ todo[s] > 0
  /\ CanMove(s)
  /\ IF s = "Put" THEN \E d \in Data : PutElement(d) ELSE GetElement
  /\ todo' = [todo EXCEPT ![s] = @ - 1]
  /\ UNCHANGED <<connected, Remain, WakeupFlag, pending>>

\* It ends, with everything moved or the buffer full or empty, ...
Stop(s) ==
  /\ todo[s] = 0 \/ ~CanMove(s)
  /\ Goes(s, "Move", IF todo[s] = 0 THEN "Notify" ELSE "Short")
  /\ UNCHANGED <<indexVars, connected, Remain, WakeupFlag, todo, pending, got>>

\* The side that cannot finish says nothing.
Short_Silent(s) ==
  /\ Goes(s, "Short", "Notify")
  /\ UNCHANGED <<indexVars, connected, Remain, WakeupFlag, todo, pending, got>>

\* ... when the size that is missing is left for the other side.
Short(s) ==
  /\ Goes(s, "Short", "Notify")
  /\ Remain' = [Remain EXCEPT ![s] = todo[s]]
  /\ UNCHANGED <<indexVars, connected, WakeupFlag, todo, pending, got>>

\* A call ends; a task that is not done waits, or polls.
Returns(s) ==
  \/ Goes(s, "Notify", "Ready") /\ todo' = [todo EXCEPT ![s] = 0]
  \/ todo[s] > 0 /\ Goes(s, "Notify", "Wait") /\ UNCHANGED todo

\* ProcGetsideWakeupCondition and ProcPutsideWakeupCondition send the event of
\* the other side, which succeeds.
Notify(s) ==
  /\ Returns(s)
  /\ pending' = [pending EXCEPT ![Other(s)] = @ \/ WakeupFlag[Other(s)]]
  /\ WakeupFlag' = [WakeupFlag EXCEPT ![Other(s)] = FALSE]
  /\ UNCHANGED <<indexVars, connected, Remain, got>>

\* The event is delivered, and the call made again for the rest.
Resume(s) ==
  /\ pending[s]
  /\ Goes(s, "Wait", "Check")
  /\ pending' = [pending EXCEPT ![s] = FALSE]
  /\ UNCHANGED <<indexVars, connected, Remain, WakeupFlag, todo, got>>

\* ConnectPutsideFunctor and ConnectGetsideFunctor, with a functor that is
\* null or not.
ConnectFunctor(s, functor) ==
  /\ Goes(s, "Ready", "Ready")
  /\ connected' = [connected EXCEPT ![s] = functor]
  /\ Remain' = [Remain EXCEPT ![s] = 0]
  /\ WakeupFlag' = [WakeupFlag EXCEPT ![s] = FALSE]
  /\ UNCHANGED <<indexVars, todo, got>>

\* A side connects an event, which may have been sent before.
Connect(s) ==
  /\ ConnectFunctor(s, TRUE)
  /\ \E sent \in BOOLEAN : pending' = [pending EXCEPT ![s] = sent]

\* What a side does in its call.
Call(s) == Check(s) \/ Move(s) \/ Stop(s) \/ Short(s) \/ Resume(s)

Starts(s) == \E n \in Sizes(s) : Begin(s, n)

Next == \E s \in Side : Starts(s) \/ Call(s) \/ Notify(s) \/ Connect(s)

Spec == Init /\ [][Next]_queueVars
--------------------------------------------------------------------------------
(* Properties *)

\* Every variable has its type, and there are never more elements than cells.
QueueTypeOK ==
  /\ data_array \in [0..(SIZE - 1) -> Data]
  /\ PutIndex \in 0..(IndexMod - 1) /\ GetIndex \in 0..(IndexMod - 1)
  /\ currSize \in 0..SIZE
  /\ connected \in [Side -> BOOLEAN]
  /\ Remain \in [Side -> Nat]
  /\ WakeupFlag \in [Side -> BOOLEAN]
  /\ pc \in [Side -> {"Ready", "Check", "Move", "Short", "Notify", "Wait"}]
  /\ todo \in [Side -> Nat]
  /\ pending \in [Side -> BOOLEAN]
  /\ got = <<>> \/ \E d \in Data : got = <<d>>

Fifo == INSTANCE BoundedFifo WITH
  buf <- [i \in 1..currSize |-> data_array[Cell(GetIndex + i - 1)]]

\* Elements come out once each, in the order they went in, whoever puts and gets
\* them: "lossless data transfer between hardware and Task" (manual, 3.10).
ImplementsFifo == Fifo!Spec

\* No side is in the middle of a call.
Quiet == \A s \in Side : pc[s] \in {"Ready", "Wait"}

\* A side that waits has been notified, or is known to the other side to need
\* more than there is.
Notified(s) ==
  Quiet /\ pc[s] = "Wait" => pending[s] \/ Remain[s] > Avail(s)

\* A task is blocked only while the buffer is full or empty: "Read_bl() and
\* Write_bl() may block Task and return control to Scheduler if UART buffer is
\* emty/full accordingly" (README.md, 102); never are both.
NotBothBlocked ==
  (\A s \in Side : pc[s] = "Wait") => \E s \in Side : pending[s]
================================================================================
