--------------------------- MODULE UsartDriverProofs ---------------------------
(***************************************************************************)
(* Theorems about UsartDriver, and about the data queue in it, for every    *)
(* set of elements, every size of buffer, index and call, and every         *)
(* connection.                                                              *)
(***************************************************************************)
EXTENDS UsartDriver, Sequences, TLAPS, WellFoundedInduction

\* The ring of a data queue is the ring of a system queue.
Ring == INSTANCE SystemQueueOpsProofs WITH Null <- 0

--------------------------------------------------------------------------------
(* The inductive invariant *)

\* A call of side s has looked at the other side and has not yet called its
\* functor.
UnderWay(s) == pc[s] \in {"Move", "Short", "Notify"}

\* A call of side s could not be finished, and has said so.
Unfinished(s) == pc[s] = "Wait" \/ (pc[s] = "Notify" /\ todo[s] > 0)

\* Only a side that is open makes calls, is asked after, and is notified; a call
\* that goes on has something to move.
OpenInv ==
  \A s \in Side :
    /\ ~connected[s] => pc[s] = "Ready" /\ Remain[s] = 0 /\ ~WakeupFlag[s] /\ ~pending[s]
    /\ pc[s] \in {"Check", "Short", "Wait"} => todo[s] > 0

\* A side of the driver makes no calls of the queue in this sense; the transmitter
\* has a functor, and the receiver none.
DriverSideInv ==
  \A s \in Side \ TaskSides :
    /\ pc[s] = "Ready" /\ ~pending[s] /\ ~WakeupFlag[Other(s)]
    /\ connected[s] <=> kind = "Transmitter"

\* A task is to be notified only by a call that is under way.
FlagInv ==
  kind # "Transmitter" =>
    \A s \in Side : WakeupFlag[s] => kind = "Tasks" /\ UnderWay(Other(s))

\* Whoever has to wait has left what it needs, or is about to be notified.
AskedInv ==
  \A s \in Side : Unfinished(s) => pending[s] \/ WakeupFlag[s] \/ Remain[s] > 0

\* What is left is more than there is, and more than there will be when a call
\* of the other side that is under way has moved all of its elements; and a side
\* about to leave it has found nothing.
NeedsInv ==
  kind # "Transmitter" /\ ~lapse =>
    \A s \in Side :
      /\ Unfinished(s) /\ Remain[s] > 0 =>
           Remain[s] > Avail(s) + (IF pc[Other(s)] = "Move" THEN todo[Other(s)] ELSE 0)
      /\ pc[s] = "Short" => Avail(s) = 0

\* The transmitter has to be called by the next Write.
Idle == WakeupFlag["Get"] \/ Remain["Get"] > 0

\* When it has, its data register is empty and its interrupt off, and it is for
\* one reason only.
IdleInv ==
  kind = "Transmitter" =>
    /\ Remain["Get"] \in 0..1
    /\ ~(WakeupFlag["Get"] /\ Remain["Get"] > 0)
    /\ Idle => DATA = "Empty" /\ ~DRE
    /\ TxCompleteFlag <=> Idle

\* Unless there was a lapse it has its interrupt on when it has not; when it has,
\* there is nothing in the buffer but what a Write that is going to call it has
\* put there, and no writer has been left waiting.
RunningInv ==
  kind = "Transmitter" /\ ~lapse =>
    /\ ~Idle => DRE
    /\ WakeupFlag["Get"] => currSize = 0 \/ UnderWay("Put")
    /\ Remain["Get"] > 0 =>
         currSize = 0 /\ (pc["Put"] \in {"Move", "Short"} => todo["Put"] = 0)
    /\ Idle /\ Remain["Put"] > 0 => WakeupFlag["Get"] /\ pc["Put"] = "Notify"

IInv ==
  /\ TypeOK
  /\ OpenInv
  /\ DriverSideInv
  /\ FlagInv
  /\ AskedInv
  /\ NeedsInv
  /\ IdleInv
  /\ RunningInv

--------------------------------------------------------------------------------
(* The two sides, and the ring between them *)

\* Each side is the other one's other.
LEMMA Sides ==
  ASSUME NEW s \in Side
  PROVE  /\ Other(s) \in Side /\ Other(s) # s /\ Other(Other(s)) = s
         /\ \A t \in Side : t = s \/ t = Other(s)
         /\ s = "Put" <=> Other(s) = "Get"
  BY DEF Side, Other

\* Which sides are tasks.
LEMMA Connections ==
  ASSUME kind \in Kinds
  PROVE  /\ kind \in {"Tasks", "Receiver", "Transmitter"}
         /\ kind = "Tasks" => TaskSides = Side
         /\ kind = "Receiver" => TaskSides = {"Get"}
         /\ kind = "Transmitter" => TaskSides = {"Put"}
  BY UsartDriverAssumption DEF TaskSides

\* What the arithmetic of the ring says of a queue, in the terms of the queue.
LEMMA Indices ==
  ASSUME QueueTypeOK
  PROVE  /\ SIZE \in Nat \ {0} /\ IndexMod \in Nat \ {0} /\ SIZE < IndexMod
         /\ currSize \in 0..SIZE
         /\ GetIndex \in 0..(IndexMod - 1) /\ PutIndex \in 0..(IndexMod - 1)
         /\ (PutIndex + 1) % IndexMod \in 0..(IndexMod - 1)
         /\ (GetIndex + 1) % IndexMod \in 0..(IndexMod - 1)
         /\ currSize < SIZE =>
              (((PutIndex + 1) % IndexMod) - GetIndex) % IndexMod = currSize + 1
         /\ currSize > 0 =>
              (PutIndex - ((GetIndex + 1) % IndexMod)) % IndexMod = currSize - 1
         /\ Cell(PutIndex) = Cell(GetIndex + currSize)
         /\ \A i \in Int : Cell(GetIndex + i) \in 0..(SIZE - 1)
         /\ \A i \in Int : Cell(((GetIndex + 1) % IndexMod) + i) = Cell(GetIndex + (i + 1))
<1>1. /\ SIZE \in Nat \ {0} /\ IndexMod \in Nat \ {0} /\ SIZE < IndexMod
      /\ IndexMod % SIZE = 0
  BY DataQueueAssumption
<1>2. currSize \in 0..SIZE /\ GetIndex \in 0..(IndexMod - 1) /\ PutIndex \in 0..(IndexMod - 1)
  BY DEF QueueTypeOK
<1>3. PICK k \in Int : IndexMod = SIZE * k
  <2>1. IndexMod \div SIZE \in Int /\ IndexMod = SIZE * (IndexMod \div SIZE) + (IndexMod % SIZE)
    BY <1>1, Ring!DivMod
  <2>2. IndexMod = SIZE * (IndexMod \div SIZE)
    BY <1>1, <2>1
  <2> QED BY <2>1, <2>2, Zenon
<1>4. k \in 2..IndexMod /\ IndexMod = k * SIZE
  <2>1. k >= 1
    <3> SUFFICES ASSUME k <= 0 PROVE FALSE
      OBVIOUS
    <3>1. SIZE * k <= 0
      BY <1>1
    <3> QED BY <1>1, <1>3, <3>1
  <2>2. k # 1
    BY <1>1, <1>3
  <2>3. k <= SIZE * k
    BY <1>1, <2>1
  <2> QED BY <1>1, <1>3, <2>1, <2>2, <2>3
<1>5. Ring!IndexModAssumption
  BY <1>1 DEF Ring!IndexModAssumption
<1>6. Ring!ValidSize(SIZE)
  <2>1. 2 * SIZE <= IndexMod
    BY <1>1, <1>4
  <2> QED BY <1>1, <1>4, <2>1 DEF Ring!ValidSize
<1>7. /\ PutIndex = (GetIndex + currSize) % IndexMod
      /\ (PutIndex + 1) % IndexMod \in 0..(IndexMod - 1)
      /\ (GetIndex + 1) % IndexMod \in 0..(IndexMod - 1)
      /\ currSize + 1 < IndexMod =>
           (((PutIndex + 1) % IndexMod) - GetIndex) % IndexMod = currSize + 1
      /\ currSize > 0 =>
           (PutIndex - ((GetIndex + 1) % IndexMod)) % IndexMod = currSize - 1
  BY <1>2, <1>5, Ring!UsedSteps DEF currSize
<1>8. Cell(PutIndex) = Cell(GetIndex + currSize)
  <2>1. GetIndex + currSize \in Int
    BY <1>1, <1>2
  <2> QED BY <1>5, <1>6, <1>7, <2>1, Ring!CellOf DEF Cell
<1>9. ASSUME NEW i \in Int PROVE Cell(GetIndex + i) \in 0..(SIZE - 1)
  <2>1. GetIndex + i \in Int
    BY <1>1, <1>2
  <2> QED BY <1>5, <1>6, <2>1, Ring!CellOf DEF Cell
<1>10. ASSUME NEW i \in Int
       PROVE  Cell(((GetIndex + 1) % IndexMod) + i) = Cell(GetIndex + (i + 1))
  BY <1>2, <1>5, <1>6, Ring!NextCell DEF Cell
<1>11. currSize < SIZE => currSize + 1 < IndexMod
  BY <1>1, <1>2
<1> QED BY <1>1, <1>2, <1>7, <1>8, <1>9, <1>10, <1>11

\* The conjuncts of QueueTypeOK about the ring, and those about the calls.
RingTypeOK ==
  /\ data_array \in [0..(SIZE - 1) -> Data]
  /\ PutIndex \in 0..(IndexMod - 1) /\ GetIndex \in 0..(IndexMod - 1)
  /\ currSize \in 0..SIZE
  /\ got = <<>> \/ \E d \in Data : got = <<d>>

CallTypeOK ==
  /\ connected \in [Side -> BOOLEAN]
  /\ Remain \in [Side -> Nat]
  /\ WakeupFlag \in [Side -> BOOLEAN]
  /\ pc \in [Side -> {"Ready", "Check", "Move", "Short", "Notify", "Wait"}]
  /\ todo \in [Side -> Nat]
  /\ pending \in [Side -> BOOLEAN]

\* Together they are all of it.
LEMMA QueueTypes == QueueTypeOK <=> RingTypeOK /\ CallTypeOK
  BY DEF QueueTypeOK, RingTypeOK, CallTypeOK

\* A put leaves one element more.
LEMMA PutEffect ==
  ASSUME QueueTypeOK, IsNotFull, NEW d \in Data, PutElement(d)
  PROVE  RingTypeOK' /\ currSize' = currSize + 1
<1>1. currSize < SIZE /\ PutIndex' = (PutIndex + 1) % IndexMod /\ UNCHANGED <<GetIndex, got>>
  BY DEF IsNotFull, PutElement
<1>2. currSize' = currSize + 1
  <2>1. currSize' = (((PutIndex + 1) % IndexMod) - GetIndex) % IndexMod
    BY <1>1 DEF currSize
  <2> QED BY <1>1, <2>1, Indices
<1>3. currSize' \in 0..SIZE /\ PutIndex' \in 0..(IndexMod - 1)
  <2>0. currSize \in 0..SIZE /\ SIZE \in Nat
    BY Indices
  <2>1. currSize + 1 \in 0..SIZE
    BY <1>1, <2>0
  <2>2. (PutIndex + 1) % IndexMod \in 0..(IndexMod - 1)
    BY Indices
  <2> QED BY <1>1, <1>2, <2>1, <2>2
<1>4. data_array' \in [0..(SIZE - 1) -> Data]
  BY DEF PutElement, QueueTypeOK
<1> QED BY <1>1, <1>2, <1>3, <1>4 DEF RingTypeOK, QueueTypeOK

\* A get leaves one less.
LEMMA GetEffect ==
  ASSUME QueueTypeOK, IsNotEmpty, GetElement
  PROVE  RingTypeOK' /\ currSize' = currSize - 1
<1>1. /\ currSize > 0 /\ GetIndex' = (GetIndex + 1) % IndexMod
      /\ UNCHANGED <<data_array, PutIndex>> /\ got' = <<data_array[Cell(GetIndex)]>>
  BY Indices DEF IsNotEmpty, GetElement
<1>2. currSize' = currSize - 1
  <2>1. currSize' = (PutIndex - ((GetIndex + 1) % IndexMod)) % IndexMod
    BY <1>1 DEF currSize
  <2>2. (PutIndex - ((GetIndex + 1) % IndexMod)) % IndexMod = currSize - 1
    BY <1>1, Indices
  <2> QED BY <2>1, <2>2
<1>3. currSize' \in 0..SIZE /\ GetIndex' \in 0..(IndexMod - 1)
  <2>1. currSize - 1 \in 0..SIZE
    BY <1>1, Indices
  <2>2. (GetIndex + 1) % IndexMod \in 0..(IndexMod - 1)
    BY Indices
  <2> QED BY <1>1, <1>2, <2>1, <2>2
<1>4. data_array[Cell(GetIndex)] \in Data
  <2>1. GetIndex + 0 = GetIndex
    BY Indices
  <2>2. Cell(GetIndex) \in 0..(SIZE - 1)
    BY <2>1, Indices
  <2> QED BY <2>2 DEF QueueTypeOK
<1> QED BY <1>1, <1>2, <1>3, <1>4 DEF RingTypeOK, QueueTypeOK

\* When the indices rest, so does the number of elements.
LEMMA RestEffect ==
  ASSUME QueueTypeOK, UNCHANGED <<indexVars, got>>
  PROVE  RingTypeOK' /\ currSize' = currSize
  BY DEF indexVars, currSize, QueueTypeOK, RingTypeOK

\* What the invariant says of the present state, in parts.
LEMMA Facts ==
  ASSUME IInv
  PROVE  /\ TypeOK /\ QueueTypeOK /\ RingTypeOK /\ CallTypeOK
         /\ currSize \in 0..SIZE /\ SIZE \in Nat \ {0}
         /\ kind \in Kinds /\ TaskSides \subseteq Side
<1>1. TypeOK /\ QueueTypeOK /\ kind \in Kinds
  BY DEF IInv, TypeOK
<1>2. TaskSides \subseteq Side
  BY <1>1, Connections DEF Side
<1>3. RingTypeOK /\ CallTypeOK
  BY <1>1, QueueTypes
<1>4. currSize \in 0..SIZE /\ SIZE \in Nat \ {0}
  BY <1>1, Indices
<1> QED BY <1>1, <1>2, <1>3, <1>4

\* The parts of the type make the whole again.
LEMMA TypeAgain ==
  ASSUME TypeOK, RingTypeOK', CallTypeOK', UNCHANGED kind,
         DRE' \in BOOLEAN, DATA' \in {"Empty", "Full"}, DRE_InterruptLevel' \in BOOLEAN,
         TxCompleteFlag' \in BOOLEAN, lapse' \in BOOLEAN
  PROVE  TypeOK' /\ TaskSides' = TaskSides
<1>1. QueueTypeOK'
  BY DEF QueueTypeOK, RingTypeOK, CallTypeOK
<1>2. TaskSides' = TaskSides
  BY DEF TaskSides
<1>3. kind' \in Kinds
  BY DEF TypeOK
<1> QED BY <1>1, <1>2, <1>3, Zenon DEF TypeOK

--------------------------------------------------------------------------------
(* The steps of a call *)

\* A call begins.
LEMMA BeginInv ==
  ASSUME IInv, NEW s \in TaskSides, NEW n \in Sizes(s), Begin(s, n),
         UNCHANGED <<kind, driverVars, lapse>>
  PROVE  IInv'
<1>1. /\ TypeOK /\ QueueTypeOK /\ RingTypeOK /\ CallTypeOK
      /\ currSize \in 0..SIZE /\ SIZE \in Nat \ {0} /\ kind \in Kinds /\ TaskSides \subseteq Side
  BY Facts
<1>2. RingTypeOK' /\ currSize' = currSize
  BY <1>1, RestEffect DEF Begin
<1>3. CallTypeOK'
  BY <1>1, DataQueueAssumption DEF Begin, Goes, CallTypeOK, Sizes
<1>4. TypeOK' /\ TaskSides' = TaskSides
  BY <1>1, <1>2, <1>3, TypeAgain DEF Begin, Goes, Sizes, driverVars, TypeOK
<1>5. OpenInv'
  BY <1>1, <1>2, <1>4, DataQueueAssumption, Sides, Connections
     DEF IInv, OpenInv, CallTypeOK, Begin, Goes, Sizes, driverVars
<1>6. DriverSideInv'
  BY <1>1, <1>2, <1>4, DataQueueAssumption, Sides, Connections
     DEF IInv, DriverSideInv, CallTypeOK, Begin, Goes, Sizes, driverVars
<1>7. FlagInv'
  BY <1>1, <1>2, <1>4, DataQueueAssumption, Sides, Connections
     DEF IInv, DriverSideInv, FlagInv, CallTypeOK, UnderWay, Side, Begin, Goes,
         Sizes, driverVars
<1>8. AskedInv'
  BY <1>1, <1>2, <1>4, DataQueueAssumption, Sides, Connections
     DEF IInv, OpenInv, AskedInv, Unfinished, CallTypeOK, Begin, Goes, Sizes,
         driverVars
<1>9. NeedsInv'
  BY <1>1, <1>2, <1>4, DataQueueAssumption, Sides, Connections
     DEF IInv, OpenInv, DriverSideInv, NeedsInv, Unfinished, CallTypeOK, Avail,
         Side, Other, Begin, Goes, Sizes, driverVars
<1>10. IdleInv'
  BY <1>1, <1>2, <1>4, DataQueueAssumption, Sides, Connections
     DEF IInv, OpenInv, DriverSideInv, IdleInv, Idle, CallTypeOK, Side, Begin,
         Goes, Sizes, driverVars
<1>11. RunningInv'
  BY <1>1, <1>2, <1>4, DataQueueAssumption, Sides, Connections
     DEF IInv, OpenInv, DriverSideInv, IdleInv, RunningInv, Idle, UnderWay,
         CallTypeOK, Avail, Side, Begin, Goes, Sizes, driverVars
<1> QED BY <1>4, <1>5, <1>6, <1>7, <1>8, <1>9, <1>10, <1>11 DEF IInv

\* A side that wakes the other one promises to call its functor, and one that does
\* not leaves it needing more than there will be.
LEMMA CheckInv ==
  ASSUME IInv, NEW s \in TaskSides, Check(s),
         UNCHANGED <<kind, driverVars, lapse>>
  PROVE  IInv'
<1>1. /\ TypeOK /\ QueueTypeOK /\ RingTypeOK /\ CallTypeOK
      /\ currSize \in 0..SIZE /\ SIZE \in Nat \ {0} /\ kind \in Kinds /\ TaskSides \subseteq Side
  BY Facts
<1>2. RingTypeOK' /\ currSize' = currSize
  BY <1>1, RestEffect DEF Check
<1>3. CallTypeOK'
  <2>1. CASE Wakes(s, todo[s])
    <3>1. /\ WakeupFlag' = [WakeupFlag EXCEPT ![Other(s)] = TRUE]
          /\ Remain' = [Remain EXCEPT ![Other(s)] = 0]
      BY <2>1 DEF Check
    <3>2. Remain' \in [Side -> Nat]
      BY <1>1, <3>1 DEF CallTypeOK
    <3>3. WakeupFlag' \in [Side -> BOOLEAN]
      BY <1>1, <3>1 DEF CallTypeOK
    <3> QED BY <1>1, <3>2, <3>3 DEF Check, Goes, CallTypeOK
  <2>2. CASE ~Wakes(s, todo[s])
    BY <1>1, <2>2 DEF Check, Goes, CallTypeOK
  <2> QED BY <2>1, <2>2
<1>4. TypeOK' /\ TaskSides' = TaskSides
  BY <1>1, <1>2, <1>3, TypeAgain DEF Check, Goes, Wakes, driverVars, TypeOK
<1>5. OpenInv'
  BY <1>1, <1>2, <1>4, Sides, Connections
     DEF IInv, OpenInv, CallTypeOK, Check, Goes, Wakes, driverVars
<1>6. DriverSideInv'
  BY <1>1, <1>2, <1>4, Sides, Connections
     DEF IInv, DriverSideInv, CallTypeOK, Check, Goes, Wakes, driverVars
<1>7. FlagInv'
  BY <1>1, <1>2, <1>4, Sides, Connections
     DEF IInv, DriverSideInv, FlagInv, CallTypeOK, UnderWay, Side, Check, Goes,
         Wakes, driverVars
<1>8. AskedInv'
  BY <1>1, <1>2, <1>4, Sides, Connections
     DEF IInv, OpenInv, AskedInv, Unfinished, CallTypeOK, Check, Goes, Wakes,
         driverVars
<1>9. NeedsInv'
  BY <1>1, <1>2, <1>4, Sides, Connections
     DEF IInv, OpenInv, DriverSideInv, NeedsInv, Unfinished, CallTypeOK, Avail,
         Side, Other, Check, Goes, Wakes, driverVars
<1>10. IdleInv'
  BY <1>1, <1>2, <1>4, Sides, Connections
     DEF IInv, OpenInv, DriverSideInv, IdleInv, Idle, CallTypeOK, Side, Check,
         Goes, Wakes, driverVars
<1>11. RunningInv'
  BY <1>1, <1>2, <1>4, Sides, Connections
     DEF IInv, OpenInv, DriverSideInv, IdleInv, RunningInv, Idle, UnderWay,
         CallTypeOK, Avail, Side, Check, Goes, Wakes, driverVars
<1> QED BY <1>4, <1>5, <1>6, <1>7, <1>8, <1>9, <1>10, <1>11 DEF IInv

\* Each element moved is one that was counted on.
LEMMA MoveInv ==
  ASSUME IInv, NEW s \in TaskSides, Move(s),
         UNCHANGED <<kind, driverVars, lapse>>
  PROVE  IInv'
<1>1. /\ TypeOK /\ QueueTypeOK /\ RingTypeOK /\ CallTypeOK
      /\ currSize \in 0..SIZE /\ SIZE \in Nat \ {0} /\ kind \in Kinds /\ TaskSides \subseteq Side
  BY Facts
<1>2. /\ RingTypeOK'
      /\ s = "Put" => currSize < SIZE /\ currSize' = currSize + 1
      /\ s = "Get" => currSize > 0 /\ currSize' = currSize - 1
  <2>1. CASE s = "Put"
    BY <1>1, <2>1, PutEffect DEF Move, CanMove, IsNotFull
  <2>2. CASE s = "Get"
    <3>1. IsNotEmpty /\ GetElement /\ currSize > 0
      BY <1>1, <2>2 DEF Move, CanMove, IsNotEmpty
    <3> QED BY <1>1, <2>2, <3>1, GetEffect
  <2> QED BY <1>1, <2>1, <2>2 DEF Side
<1>3. CallTypeOK'
  BY <1>1 DEF Move, Goes, CallTypeOK
<1>4. TypeOK' /\ TaskSides' = TaskSides
  BY <1>1, <1>2, <1>3, TypeAgain DEF Move, Goes, driverVars, TypeOK
<1>5. OpenInv'
  BY <1>1, <1>2, <1>4, Sides, Connections
     DEF IInv, OpenInv, CallTypeOK, Move, Goes, driverVars
<1>6. DriverSideInv'
  BY <1>1, <1>2, <1>4, Sides, Connections
     DEF IInv, DriverSideInv, CallTypeOK, Move, Goes, driverVars
<1>7. FlagInv'
  BY <1>1, <1>2, <1>4, Sides, Connections
     DEF IInv, DriverSideInv, FlagInv, CallTypeOK, UnderWay, Side, Move, Goes,
         driverVars
<1>8. AskedInv'
  BY <1>1, <1>2, <1>4, Sides, Connections
     DEF IInv, OpenInv, AskedInv, Unfinished, CallTypeOK, Move, Goes, driverVars
<1>9. NeedsInv'
  BY <1>1, <1>2, <1>4, Sides, Connections
     DEF IInv, OpenInv, DriverSideInv, NeedsInv, Unfinished, CallTypeOK, Avail,
         Side, Other, Move, Goes, driverVars
<1>10. IdleInv'
  BY <1>1, <1>2, <1>4, Sides, Connections
     DEF IInv, OpenInv, DriverSideInv, IdleInv, Idle, CallTypeOK, Side, Move, Goes,
         driverVars
<1>11. RunningInv'
  BY <1>1, <1>2, <1>4, Sides, Connections
     DEF IInv, OpenInv, DriverSideInv, IdleInv, RunningInv, Idle, UnderWay,
         CallTypeOK, Avail, Side, Move, Goes, driverVars
<1> QED BY <1>4, <1>5, <1>6, <1>7, <1>8, <1>9, <1>10, <1>11 DEF IInv

\* Whoever stops short has found nothing.
LEMMA StopInv ==
  ASSUME IInv, NEW s \in TaskSides, Stop(s),
         UNCHANGED <<kind, driverVars, lapse>>
  PROVE  IInv'
<1>1. /\ TypeOK /\ QueueTypeOK /\ RingTypeOK /\ CallTypeOK
      /\ currSize \in 0..SIZE /\ SIZE \in Nat \ {0} /\ kind \in Kinds /\ TaskSides \subseteq Side
  BY Facts
<1>2. RingTypeOK' /\ currSize' = currSize
  BY <1>1, RestEffect DEF Stop
<1>3. CallTypeOK'
  BY <1>1 DEF Stop, Goes, CallTypeOK
<1>4. TypeOK' /\ TaskSides' = TaskSides
  BY <1>1, <1>2, <1>3, TypeAgain
     DEF Stop, Goes, CanMove, IsNotFull, IsNotEmpty, driverVars, TypeOK
<1>5. OpenInv'
  BY <1>1, <1>2, <1>4, Sides, Connections
     DEF IInv, OpenInv, CallTypeOK, Stop, Goes, CanMove, IsNotFull, IsNotEmpty,
         driverVars
<1>6. DriverSideInv'
  BY <1>1, <1>2, <1>4, Sides, Connections
     DEF IInv, DriverSideInv, CallTypeOK, Stop, Goes, CanMove, IsNotFull,
         IsNotEmpty, driverVars
<1>7. FlagInv'
  BY <1>1, <1>2, <1>4, Sides, Connections
     DEF IInv, DriverSideInv, FlagInv, CallTypeOK, UnderWay, Side, Stop, Goes,
         CanMove, IsNotFull, IsNotEmpty, driverVars
<1>8. AskedInv'
  BY <1>1, <1>2, <1>4, Sides, Connections
     DEF IInv, OpenInv, AskedInv, Unfinished, CallTypeOK, Stop, Goes, CanMove,
         IsNotFull, IsNotEmpty, driverVars
<1>9. NeedsInv'
  BY <1>1, <1>2, <1>4, Sides, Connections
     DEF IInv, OpenInv, DriverSideInv, NeedsInv, Unfinished, CallTypeOK, Avail,
         Side, Other, Stop, Goes, CanMove, IsNotFull, IsNotEmpty, driverVars
<1>10. IdleInv'
  BY <1>1, <1>2, <1>4, Sides, Connections
     DEF IInv, OpenInv, DriverSideInv, IdleInv, Idle, CallTypeOK, Side, Stop, Goes,
         CanMove, IsNotFull, IsNotEmpty, driverVars
<1>11. RunningInv'
  BY <1>1, <1>2, <1>4, Sides, Connections
     DEF IInv, OpenInv, DriverSideInv, IdleInv, RunningInv, Idle, UnderWay,
         CallTypeOK, Avail, Side, Stop, Goes, CanMove, IsNotFull, IsNotEmpty,
         driverVars
<1> QED BY <1>4, <1>5, <1>6, <1>7, <1>8, <1>9, <1>10, <1>11 DEF IInv

\* What is missing is left for the other side.
LEMMA ShortInv ==
  ASSUME IInv, NEW s \in TaskSides, Short(s),
         UNCHANGED <<kind, driverVars, lapse>>
  PROVE  IInv'
<1>1. /\ TypeOK /\ QueueTypeOK /\ RingTypeOK /\ CallTypeOK
      /\ currSize \in 0..SIZE /\ SIZE \in Nat \ {0} /\ kind \in Kinds /\ TaskSides \subseteq Side
  BY Facts
<1>2. RingTypeOK' /\ currSize' = currSize
  BY <1>1, RestEffect DEF Short
<1>3. CallTypeOK'
  BY <1>1 DEF Short, Goes, CallTypeOK
<1>4. TypeOK' /\ TaskSides' = TaskSides
  BY <1>1, <1>2, <1>3, TypeAgain DEF Short, Goes, driverVars, TypeOK
<1>5. OpenInv'
  BY <1>1, <1>2, <1>4, Sides, Connections
     DEF IInv, OpenInv, CallTypeOK, Short, Goes, driverVars
<1>6. DriverSideInv'
  BY <1>1, <1>2, <1>4, Sides, Connections
     DEF IInv, DriverSideInv, CallTypeOK, Short, Goes, driverVars
<1>7. FlagInv'
  BY <1>1, <1>2, <1>4, Sides, Connections
     DEF IInv, DriverSideInv, FlagInv, CallTypeOK, UnderWay, Side, Short, Goes,
         driverVars
<1>8. AskedInv'
  BY <1>1, <1>2, <1>4, Sides, Connections
     DEF IInv, OpenInv, AskedInv, Unfinished, CallTypeOK, Short, Goes, driverVars
<1>9. NeedsInv'
  BY <1>1, <1>2, <1>4, Sides, Connections
     DEF IInv, OpenInv, DriverSideInv, NeedsInv, Unfinished, CallTypeOK, Avail,
         Side, Other, Short, Goes, driverVars
<1>10. IdleInv'
  BY <1>1, <1>2, <1>4, Sides, Connections
     DEF IInv, OpenInv, DriverSideInv, IdleInv, Idle, CallTypeOK, Side, Short,
         Goes, driverVars
<1>11. RunningInv'
  BY <1>1, <1>2, <1>4, Sides, Connections
     DEF IInv, OpenInv, DriverSideInv, IdleInv, RunningInv, Idle, UnderWay,
         CallTypeOK, Avail, Side, Short, Goes, driverVars
<1> QED BY <1>4, <1>5, <1>6, <1>7, <1>8, <1>9, <1>10, <1>11 DEF IInv

\* A task that was notified goes on.
LEMMA ResumeInv ==
  ASSUME IInv, NEW s \in TaskSides, Resume(s),
         UNCHANGED <<kind, driverVars, lapse>>
  PROVE  IInv'
<1>1. /\ TypeOK /\ QueueTypeOK /\ RingTypeOK /\ CallTypeOK
      /\ currSize \in 0..SIZE /\ SIZE \in Nat \ {0} /\ kind \in Kinds /\ TaskSides \subseteq Side
  BY Facts
<1>2. RingTypeOK' /\ currSize' = currSize
  BY <1>1, RestEffect DEF Resume
<1>3. CallTypeOK'
  BY <1>1 DEF Resume, Goes, CallTypeOK
<1>4. TypeOK' /\ TaskSides' = TaskSides
  BY <1>1, <1>2, <1>3, TypeAgain DEF Resume, Goes, driverVars, TypeOK
<1>5. OpenInv'
  BY <1>1, <1>2, <1>4, Sides, Connections
     DEF IInv, OpenInv, CallTypeOK, Resume, Goes, driverVars
<1>6. DriverSideInv'
  BY <1>1, <1>2, <1>4, Sides, Connections
     DEF IInv, DriverSideInv, CallTypeOK, Resume, Goes, driverVars
<1>7. FlagInv'
  BY <1>1, <1>2, <1>4, Sides, Connections
     DEF IInv, DriverSideInv, FlagInv, CallTypeOK, UnderWay, Side, Resume, Goes,
         driverVars
<1>8. AskedInv'
  BY <1>1, <1>2, <1>4, Sides, Connections
     DEF IInv, OpenInv, AskedInv, Unfinished, CallTypeOK, Resume, Goes, driverVars
<1>9. NeedsInv'
  BY <1>1, <1>2, <1>4, Sides, Connections
     DEF IInv, OpenInv, DriverSideInv, NeedsInv, Unfinished, CallTypeOK, Avail,
         Side, Other, Resume, Goes, driverVars
<1>10. IdleInv'
  BY <1>1, <1>2, <1>4, Sides, Connections
     DEF IInv, OpenInv, DriverSideInv, IdleInv, Idle, CallTypeOK, Side, Resume,
         Goes, driverVars
<1>11. RunningInv'
  BY <1>1, <1>2, <1>4, Sides, Connections
     DEF IInv, OpenInv, DriverSideInv, IdleInv, RunningInv, Idle, UnderWay,
         CallTypeOK, Avail, Side, Resume, Goes, driverVars
<1> QED BY <1>4, <1>5, <1>6, <1>7, <1>8, <1>9, <1>10, <1>11 DEF IInv

\* A call ends with the notification it has promised.
LEMMA NotifyInv ==
  ASSUME IInv, NEW s \in TaskSides, kind # "Transmitter", Notify(s),
         UNCHANGED <<kind, driverVars, lapse>>
  PROVE  IInv'
<1>1. /\ TypeOK /\ QueueTypeOK /\ RingTypeOK /\ CallTypeOK
      /\ currSize \in 0..SIZE /\ SIZE \in Nat \ {0} /\ kind \in Kinds /\ TaskSides \subseteq Side
  BY Facts
<1>2. RingTypeOK' /\ currSize' = currSize
  BY <1>1, RestEffect DEF Notify
<1>3. CallTypeOK'
  <2>1. pc' \in [Side -> {"Ready", "Check", "Move", "Short", "Notify", "Wait"}]
    BY <1>1 DEF Notify, Returns, Goes, CallTypeOK
  <2>2. todo' \in [Side -> Nat]
    BY <1>1 DEF Notify, Returns, CallTypeOK
  <2>3. pending' \in [Side -> BOOLEAN] /\ WakeupFlag' \in [Side -> BOOLEAN]
    BY <1>1, Sides DEF Notify, CallTypeOK
  <2> QED BY <1>1, <2>1, <2>2, <2>3 DEF Notify, CallTypeOK
<1>4. TypeOK' /\ TaskSides' = TaskSides
  BY <1>1, <1>2, <1>3, TypeAgain DEF Notify, Returns, Goes, driverVars, TypeOK
<1>5. OpenInv'
  BY <1>1, <1>2, <1>4, Sides, Connections
     DEF IInv, OpenInv, CallTypeOK, Notify, Returns, Goes, driverVars
<1>6. DriverSideInv'
  BY <1>1, <1>2, <1>4, Sides, Connections
     DEF IInv, DriverSideInv, FlagInv, CallTypeOK, Notify, Returns, Goes, driverVars
<1>7. FlagInv'
  BY <1>1, <1>2, <1>4, Sides, Connections
     DEF IInv, DriverSideInv, FlagInv, CallTypeOK, UnderWay, Side, Notify, Returns,
         Goes, driverVars
<1>8. AskedInv'
  BY <1>1, <1>2, <1>4, Sides, Connections
     DEF IInv, OpenInv, AskedInv, Unfinished, CallTypeOK, Notify, Returns, Goes,
         driverVars
<1>9. NeedsInv'
  BY <1>1, <1>2, <1>4, Sides, Connections
     DEF IInv, OpenInv, DriverSideInv, NeedsInv, Unfinished, CallTypeOK, Avail,
         Side, Other, Notify, Returns, Goes, driverVars
<1>10. IdleInv'
  BY <1>1, <1>2, <1>4, Sides, Connections
     DEF IInv, OpenInv, DriverSideInv, IdleInv, Idle, CallTypeOK, Side, Notify,
         Returns, Goes, driverVars
<1>11. RunningInv'
  BY <1>1, <1>2, <1>4, Sides, Connections
     DEF IInv, OpenInv, DriverSideInv, IdleInv, RunningInv, Idle, UnderWay,
         CallTypeOK, Avail, Side, Notify, Returns, Goes, driverVars
<1> QED BY <1>4, <1>5, <1>6, <1>7, <1>8, <1>9, <1>10, <1>11 DEF IInv

\* A side connects its functor: nothing is left from before.
LEMMA ConnectInv ==
  ASSUME IInv, NEW s \in TaskSides, kind # "Transmitter" \/ ~connected[s], Connect(s),
         UNCHANGED <<kind, driverVars, lapse>>
  PROVE  IInv'
<1>1. /\ TypeOK /\ QueueTypeOK /\ RingTypeOK /\ CallTypeOK
      /\ currSize \in 0..SIZE /\ SIZE \in Nat \ {0} /\ kind \in Kinds /\ TaskSides \subseteq Side
  BY Facts
<1>2. RingTypeOK' /\ currSize' = currSize
  BY <1>1, RestEffect DEF Connect, ConnectFunctor
<1>3. CallTypeOK'
  BY <1>1 DEF Connect, ConnectFunctor, Goes, CallTypeOK
<1>4. TypeOK' /\ TaskSides' = TaskSides
  BY <1>1, <1>2, <1>3, TypeAgain
     DEF Connect, ConnectFunctor, Goes, driverVars, TypeOK
<1>5. OpenInv'
  BY <1>1, <1>2, <1>4, Sides, Connections
     DEF IInv, OpenInv, CallTypeOK, Connect, ConnectFunctor, Goes, driverVars
<1>6. DriverSideInv'
  BY <1>1, <1>2, <1>4, Sides, Connections
     DEF IInv, DriverSideInv, CallTypeOK, Connect, ConnectFunctor, Goes, driverVars
<1>7. FlagInv'
  BY <1>1, <1>2, <1>4, Sides, Connections
     DEF IInv, DriverSideInv, FlagInv, CallTypeOK, UnderWay, Side, Connect,
         ConnectFunctor, Goes, driverVars
<1>8. AskedInv'
  BY <1>1, <1>2, <1>4, Sides, Connections
     DEF IInv, OpenInv, AskedInv, Unfinished, CallTypeOK, Connect, ConnectFunctor,
         Goes, driverVars
<1>9. NeedsInv'
  BY <1>1, <1>2, <1>4, Sides, Connections
     DEF IInv, OpenInv, DriverSideInv, NeedsInv, Unfinished, CallTypeOK, Avail,
         Side, Other, Connect, ConnectFunctor, Goes, driverVars
<1>10. IdleInv'
  BY <1>1, <1>2, <1>4, Sides, Connections
     DEF IInv, OpenInv, DriverSideInv, IdleInv, Idle, CallTypeOK, Side, Connect,
         ConnectFunctor, Goes, driverVars
<1>11. RunningInv'
  BY <1>1, <1>2, <1>4, Sides, Connections
     DEF IInv, OpenInv, DriverSideInv, IdleInv, RunningInv, Idle, UnderWay,
         CallTypeOK, Avail, Side, Connect, ConnectFunctor, Goes, driverVars
<1> QED BY <1>4, <1>5, <1>6, <1>7, <1>8, <1>9, <1>10, <1>11 DEF IInv

\* A side closes.
LEMMA CloseInv ==
  ASSUME IInv, NEW s \in TaskSides, Close(s)
  PROVE  IInv'
<1>1. /\ TypeOK /\ QueueTypeOK /\ RingTypeOK /\ CallTypeOK
      /\ currSize \in 0..SIZE /\ SIZE \in Nat \ {0} /\ kind \in Kinds /\ TaskSides \subseteq Side
  BY Facts
<1>2. RingTypeOK' /\ currSize' = currSize
  BY <1>1, RestEffect DEF Close, ConnectFunctor
<1>3. CallTypeOK'
  BY <1>1 DEF Close, ConnectFunctor, Goes, CallTypeOK
<1>4. TypeOK' /\ TaskSides' = TaskSides
  BY <1>1, <1>2, <1>3, TypeAgain DEF Close, ConnectFunctor, Goes, driverVars, TypeOK
<1>5. OpenInv'
  BY <1>1, <1>2, <1>4, Sides, Connections
     DEF IInv, OpenInv, CallTypeOK, Close, ConnectFunctor, Goes, driverVars
<1>6. DriverSideInv'
  BY <1>1, <1>2, <1>4, Sides, Connections
     DEF IInv, DriverSideInv, CallTypeOK, Close, ConnectFunctor, Goes, driverVars
<1>7. FlagInv'
  BY <1>1, <1>2, <1>4, Sides, Connections
     DEF IInv, DriverSideInv, FlagInv, CallTypeOK, UnderWay, Side, Close,
         ConnectFunctor, Goes, driverVars
<1>8. AskedInv'
  BY <1>1, <1>2, <1>4, Sides, Connections
     DEF IInv, OpenInv, AskedInv, Unfinished, CallTypeOK, Close, ConnectFunctor,
         Goes, driverVars
<1>9. NeedsInv'
  BY <1>1, <1>2, <1>4, Sides, Connections
     DEF IInv, OpenInv, DriverSideInv, NeedsInv, Unfinished, CallTypeOK, Avail,
         Side, Other, Close, ConnectFunctor, Goes, driverVars
<1>10. IdleInv'
  BY <1>1, <1>2, <1>4, Sides, Connections
     DEF IInv, OpenInv, DriverSideInv, IdleInv, Idle, CallTypeOK, Side, Close,
         ConnectFunctor, Goes, driverVars
<1>11. RunningInv'
  BY <1>1, <1>2, <1>4, Sides, Connections
     DEF IInv, OpenInv, DriverSideInv, IdleInv, RunningInv, Idle, UnderWay,
         CallTypeOK, Avail, Side, Close, ConnectFunctor, Goes, driverVars
<1> QED BY <1>4, <1>5, <1>6, <1>7, <1>8, <1>9, <1>10, <1>11 DEF IInv

--------------------------------------------------------------------------------
(* The steps of the driver *)

\* What the driver's functor does, when there is a byte and when there is none.
LEMMA TransmitEffect ==
  ASSUME IInv, kind = "Transmitter", Transmit
  PROVE  /\ RingTypeOK' /\ Remain' \in [Side -> Nat] /\ pending' \in [Side -> BOOLEAN]
         /\ \/ /\ currSize > 0 /\ currSize' = currSize - 1
               /\ Remain'["Get"] = Remain["Get"] /\ ~TxCompleteFlag'
               /\ DATA' = "Full" /\ DRE' = (DRE \/ DRE_InterruptLevel)
            \/ /\ currSize = 0 /\ currSize' = 0
               /\ Remain'["Get"] = 1 /\ TxCompleteFlag' = TRUE
               /\ DATA' = DATA /\ DRE' = FALSE
         /\ TxCompleteFlag' \in BOOLEAN
         /\ pending'["Get"] <=> pending["Get"]
         /\ \/ pending'["Put"] /\ Remain'["Put"] = 0 /\ connected["Put"]
            \/ (pending'["Put"] <=> pending["Put"]) /\ Remain'["Put"] = Remain["Put"]
         /\ currSize = 0 => Remain'["Put"] = 0
         /\ UNCHANGED DRE_InterruptLevel
<1>1. /\ TypeOK /\ QueueTypeOK /\ RingTypeOK /\ CallTypeOK
      /\ currSize \in 0..SIZE /\ SIZE \in Nat \ {0} /\ kind \in Kinds /\ TaskSides \subseteq Side
  BY Facts
<1>2. Remain' \in [Side -> Nat] /\ pending' \in [Side -> BOOLEAN]
  BY <1>1 DEF Transmit, CallTypeOK
<1>3. \/ /\ currSize > 0 /\ currSize' = currSize - 1 /\ RingTypeOK'
         /\ Remain'["Get"] = Remain["Get"] /\ TxCompleteFlag' = FALSE
         /\ DATA' = "Full" /\ DRE' = (DRE \/ DRE_InterruptLevel)
      \/ /\ currSize = 0 /\ currSize' = 0 /\ RingTypeOK'
         /\ Remain'["Get"] = 1 /\ TxCompleteFlag' = TRUE
         /\ DATA' = DATA /\ DRE' = FALSE
  <2>1. CASE IsNotEmpty
    <3>1. GetElement /\ currSize > 0
      BY <1>1, <2>1 DEF Transmit, IsNotEmpty
    <3>2. RingTypeOK' /\ currSize' = currSize - 1
      BY <1>1, <2>1, <3>1, GetEffect
    <3>3. Remain'["Get"] = Remain["Get"]
      BY <1>1, <2>1 DEF Transmit, CallTypeOK, Side
    <3> QED BY <2>1, <3>1, <3>2, <3>3 DEF Transmit
  <2>2. CASE ~IsNotEmpty
    <3>1. RingTypeOK' /\ currSize' = currSize
      BY <1>1, <2>2, RestEffect DEF Transmit
    <3>2. Remain'["Get"] = 1
      BY <1>1, <2>2 DEF Transmit, CallTypeOK, Side
    <3> QED BY <2>2, <3>1, <3>2 DEF Transmit, IsNotEmpty
  <2> QED BY <2>1, <2>2
<1>4. pending'["Get"] <=> pending["Get"]
  BY <1>1 DEF Transmit, CallTypeOK, Side
<1>5. \/ pending'["Put"] /\ Remain'["Put"] = 0 /\ connected["Put"]
      \/ (pending'["Put"] <=> pending["Put"]) /\ Remain'["Put"] = Remain["Put"]
  BY <1>1 DEF Transmit, CallTypeOK, Side, Wakes, Other
<1>6. ASSUME currSize = 0 PROVE Remain'["Put"] = 0
  <2>1. Remain["Put"] \in Nat /\ (Remain["Put"] > 0 => connected["Put"])
    BY <1>1 DEF IInv, OpenInv, CallTypeOK, Side
  <2>2. currSize <= SIZE \div 2
    BY <1>1, <1>6
  <2>3. Remain["Put"] > 0 => Wakes("Get", 1)
    BY <2>1, <2>2 DEF Wakes, HasHalf, Other
  <2> QED BY <1>1, <2>1, <2>3 DEF Transmit, CallTypeOK, Side
<1> QED BY <1>2, <1>3, <1>4, <1>5, <1>6 DEF Transmit

\* The interrupt for an empty data register.
LEMMA DRE_vectInv ==
  ASSUME IInv, DRE_vect
  PROVE  IInv'
<1>1. /\ TypeOK /\ QueueTypeOK /\ RingTypeOK /\ CallTypeOK
      /\ currSize \in 0..SIZE /\ SIZE \in Nat \ {0} /\ kind \in Kinds /\ TaskSides \subseteq Side
  BY Facts
<1>2. /\ RingTypeOK' /\ Remain' \in [Side -> Nat] /\ pending' \in [Side -> BOOLEAN]
      /\ \/ /\ currSize > 0 /\ currSize' = currSize - 1
            /\ Remain'["Get"] = Remain["Get"] /\ ~TxCompleteFlag'
            /\ DATA' = "Full" /\ DRE' = (DRE \/ DRE_InterruptLevel)
         \/ /\ currSize = 0 /\ currSize' = 0
            /\ Remain'["Get"] = 1 /\ TxCompleteFlag' = TRUE
            /\ DATA' = DATA /\ DRE' = FALSE
      /\ TxCompleteFlag' \in BOOLEAN /\ (pending'["Get"] <=> pending["Get"])
      /\ \/ pending'["Put"] /\ Remain'["Put"] = 0 /\ connected["Put"]
         \/ (pending'["Put"] <=> pending["Put"]) /\ Remain'["Put"] = Remain["Put"]
      /\ (currSize = 0 => Remain'["Put"] = 0) /\ UNCHANGED DRE_InterruptLevel
  BY TransmitEffect DEF DRE_vect
<1>3. CallTypeOK'
  BY <1>1, <1>2 DEF DRE_vect, CallTypeOK
<1>4. TypeOK' /\ TaskSides' = TaskSides
  <2>1. DRE' \in BOOLEAN /\ DATA' \in {"Empty",
         "Full"} /\ DRE_InterruptLevel' \in BOOLEAN
    BY <1>1, <1>2 DEF TypeOK
  <2>2. lapse' \in BOOLEAN /\ kind' = kind
    BY <1>1 DEF DRE_vect, TypeOK
  <2> QED BY <1>1, <1>2, <1>3, <2>1, <2>2, TypeAgain
<1>5. /\ kind = "Transmitter" /\ DRE /\ DATA = "Empty"
      /\ UNCHANGED <<connected, WakeupFlag, pc, todo, kind>>
      /\ lapse' <=> lapse \/ (currSize = 0 /\ pc["Put"] \in {"Move", "Short"} /\ todo["Put"] > 0)
  BY <1>1 DEF DRE_vect, IsNotEmpty
<1>6. OpenInv'
  BY <1>1, <1>2, <1>4, <1>5, Sides, Connections
     DEF IInv, OpenInv, DriverSideInv, CallTypeOK, Side
<1>7. DriverSideInv'
  BY <1>1, <1>2, <1>4, <1>5, Sides, Connections
     DEF IInv, DriverSideInv, CallTypeOK, Side
<1>8. FlagInv'
  BY <1>1, <1>2, <1>4, <1>5, Sides, Connections DEF IInv, FlagInv
<1>9. AskedInv'
  BY <1>1, <1>2, <1>4, <1>5, Sides, Connections
     DEF IInv, OpenInv, DriverSideInv, AskedInv, Unfinished, CallTypeOK, Side
<1>10. NeedsInv'
  BY <1>1, <1>2, <1>4, <1>5, Sides, Connections DEF IInv, NeedsInv
<1>11. IdleInv'
  BY <1>1, <1>2, <1>4, <1>5, Sides, Connections
     DEF IInv, IdleInv, Idle, CallTypeOK, Side
<1>12. RunningInv'
  BY <1>1, <1>2, <1>4, <1>5, Sides, Connections
     DEF IInv, OpenInv, DriverSideInv, IdleInv, RunningInv, Idle, UnderWay,
         CallTypeOK, Avail, Side
<1> QED BY <1>4, <1>6, <1>7, <1>8, <1>9, <1>10, <1>11, <1>12 DEF IInv

\* A Write calls the driver that it has to call.
LEMMA NotifyDriverInv ==
  ASSUME IInv, NotifyDriver, WakeupFlag["Get"]
  PROVE  IInv'
<1>1. /\ TypeOK /\ QueueTypeOK /\ RingTypeOK /\ CallTypeOK
      /\ currSize \in 0..SIZE /\ SIZE \in Nat \ {0} /\ kind \in Kinds /\ TaskSides \subseteq Side
  BY Facts
<1>2. /\ RingTypeOK' /\ Remain' \in [Side -> Nat] /\ pending' \in [Side -> BOOLEAN]
      /\ \/ /\ currSize > 0 /\ currSize' = currSize - 1
            /\ Remain'["Get"] = Remain["Get"] /\ ~TxCompleteFlag'
            /\ DATA' = "Full" /\ DRE' = (DRE \/ DRE_InterruptLevel)
         \/ /\ currSize = 0 /\ currSize' = 0
            /\ Remain'["Get"] = 1 /\ TxCompleteFlag' = TRUE
            /\ DATA' = DATA /\ DRE' = FALSE
      /\ TxCompleteFlag' \in BOOLEAN /\ (pending'["Get"] <=> pending["Get"])
      /\ \/ pending'["Put"] /\ Remain'["Put"] = 0 /\ connected["Put"]
         \/ (pending'["Put"] <=> pending["Put"]) /\ Remain'["Put"] = Remain["Put"]
      /\ (currSize = 0 => Remain'["Put"] = 0) /\ UNCHANGED DRE_InterruptLevel
  BY TransmitEffect DEF NotifyDriver
<1>3. CallTypeOK'
  <2>1. pc' \in [Side -> {"Ready", "Check", "Move", "Short", "Notify", "Wait"}]
    BY <1>1 DEF NotifyDriver, Returns, Goes, CallTypeOK
  <2>2. todo' \in [Side -> Nat]
    BY <1>1 DEF NotifyDriver, Returns, CallTypeOK
  <2>3. WakeupFlag' \in [Side -> BOOLEAN]
    BY <1>1 DEF NotifyDriver, CallTypeOK
  <2> QED BY <1>1, <1>2, <2>1, <2>2, <2>3 DEF NotifyDriver, CallTypeOK
<1>4. TypeOK' /\ TaskSides' = TaskSides
  <2>1. DRE' \in BOOLEAN /\ DATA' \in {"Empty",
         "Full"} /\ DRE_InterruptLevel' \in BOOLEAN
    BY <1>1, <1>2 DEF TypeOK
  <2>2. lapse' \in BOOLEAN /\ kind' = kind
    BY <1>1 DEF NotifyDriver, TypeOK
  <2> QED BY <1>1, <1>2, <1>3, <2>1, <2>2, TypeAgain
<1>5. /\ kind = "Transmitter" /\ UNCHANGED <<connected,
       kind>> /\ (lapse' <=> lapse \/ ~DRE_InterruptLevel)
      /\ WakeupFlag["Get"] /\ WakeupFlag' = [WakeupFlag EXCEPT !["Get"] = FALSE]
      /\ pc["Put"] = "Notify" /\ pc'["Get"] = pc["Get"]
      /\ \/ pc'["Put"] = "Ready"
         \/ pc'["Put"] = "Wait" /\ todo["Put"] > 0 /\ todo' = todo
  BY <1>1 DEF NotifyDriver, Returns, Goes, CallTypeOK, Side, TypeOK
<1>6. OpenInv'
  BY <1>1, <1>2, <1>4, <1>5, Sides, Connections
     DEF IInv, OpenInv, DriverSideInv, CallTypeOK, Side
<1>7. DriverSideInv'
  BY <1>1, <1>2, <1>4, <1>5, Sides, Connections
     DEF IInv, DriverSideInv, CallTypeOK, Side
<1>8. FlagInv'
  BY <1>1, <1>2, <1>4, <1>5, Sides, Connections DEF IInv, FlagInv
<1>9. AskedInv'
  BY <1>1, <1>2, <1>4, <1>5, Sides, Connections
     DEF IInv, OpenInv, DriverSideInv, AskedInv, Unfinished, CallTypeOK, Side
<1>10. NeedsInv'
  BY <1>1, <1>2, <1>4, <1>5, Sides, Connections DEF IInv, NeedsInv
<1>11. IdleInv'
  BY <1>1, <1>2, <1>4, <1>5, Sides, Connections
     DEF IInv, IdleInv, Idle, CallTypeOK, Side
<1>12. RunningInv'
  BY <1>1, <1>2, <1>4, <1>5, Sides, Connections
     DEF IInv, OpenInv, DriverSideInv, IdleInv, RunningInv, Idle, UnderWay,
         CallTypeOK, Avail, Side
<1> QED BY <1>4, <1>6, <1>7, <1>8, <1>9, <1>10, <1>11, <1>12 DEF IInv

\* A Write that need not call the driver ends.
LEMMA NotifyDriverNotInv ==
  ASSUME IInv, NotifyDriver, ~WakeupFlag["Get"]
  PROVE  IInv'
<1>1. /\ TypeOK /\ QueueTypeOK /\ RingTypeOK /\ CallTypeOK
      /\ currSize \in 0..SIZE /\ SIZE \in Nat \ {0} /\ kind \in Kinds /\ TaskSides \subseteq Side
  BY Facts
<1>2. RingTypeOK' /\ currSize' = currSize
  BY <1>1, RestEffect DEF NotifyDriver
<1>3. CallTypeOK'
  BY <1>1 DEF NotifyDriver, Returns, Goes, CallTypeOK, Side
<1>4. TypeOK' /\ TaskSides' = TaskSides
  BY <1>1, <1>2, <1>3, TypeAgain DEF NotifyDriver, Returns, Goes, driverVars, TypeOK
<1>5. OpenInv'
  BY <1>1, <1>2, <1>4, Sides, Connections
     DEF IInv, OpenInv, CallTypeOK, NotifyDriver, Returns, Goes, driverVars
<1>6. DriverSideInv'
  BY <1>1, <1>2, <1>4, Sides, Connections
     DEF IInv, DriverSideInv, CallTypeOK, NotifyDriver, Returns, Goes, driverVars
<1>7. FlagInv'
  BY <1>1, <1>2, <1>4, Sides, Connections
     DEF IInv, DriverSideInv, FlagInv, CallTypeOK, UnderWay, Side, NotifyDriver,
         Returns, Goes, driverVars
<1>8. AskedInv'
  BY <1>1, <1>2, <1>4, Sides, Connections
     DEF IInv, OpenInv, AskedInv, Unfinished, CallTypeOK, NotifyDriver, Returns,
         Goes, driverVars
<1>9. NeedsInv'
  BY <1>1, <1>2, <1>4, Sides, Connections
     DEF IInv, OpenInv, DriverSideInv, NeedsInv, Unfinished, CallTypeOK, Avail,
         Side, Other, NotifyDriver, Returns, Goes, driverVars
<1>10. IdleInv'
  BY <1>1, <1>2, <1>4, Sides, Connections
     DEF IInv, OpenInv, DriverSideInv, IdleInv, Idle, CallTypeOK, Side,
         NotifyDriver, Returns, Goes, driverVars
<1>11. RunningInv'
  BY <1>1, <1>2, <1>4, Sides, Connections
     DEF IInv, OpenInv, DriverSideInv, IdleInv, RunningInv, Idle, UnderWay,
         CallTypeOK, Avail, Side, NotifyDriver, Returns, Goes, driverVars
<1> QED BY <1>4, <1>5, <1>6, <1>7, <1>8, <1>9, <1>10, <1>11 DEF IInv

\* Config is not refused, and changes nothing that is under way.
LEMMA ConfigInv ==
  ASSUME IInv, Config
  PROVE  IInv'
<1>1. /\ TypeOK /\ QueueTypeOK /\ RingTypeOK /\ CallTypeOK
      /\ currSize \in 0..SIZE /\ SIZE \in Nat \ {0} /\ kind \in Kinds /\ TaskSides \subseteq Side
  BY Facts
<1>2. RingTypeOK' /\ currSize' = currSize
  BY <1>1, RestEffect DEF Config, queueVars, indexVars
<1>3. CallTypeOK'
  BY <1>1 DEF Config, queueVars, CallTypeOK
<1>4. TypeOK' /\ TaskSides' = TaskSides
  BY <1>1, <1>2, <1>3, TypeAgain DEF Config, queueVars, driverVars, TypeOK
<1>5. OpenInv'
  BY <1>1, <1>2, <1>4, Sides, Connections
     DEF IInv, OpenInv, CallTypeOK, Config, queueVars, driverVars
<1>6. DriverSideInv'
  BY <1>1, <1>2, <1>4, Sides, Connections
     DEF IInv, DriverSideInv, CallTypeOK, Config, queueVars, driverVars
<1>7. FlagInv'
  BY <1>1, <1>2, <1>4, Sides, Connections
     DEF IInv, DriverSideInv, FlagInv, CallTypeOK, UnderWay, Side, Config,
         queueVars, driverVars
<1>8. AskedInv'
  BY <1>1, <1>2, <1>4, Sides, Connections
     DEF IInv, OpenInv, AskedInv, Unfinished, CallTypeOK, Config, queueVars,
         driverVars
<1>9. NeedsInv'
  BY <1>1, <1>2, <1>4, Sides, Connections
     DEF IInv, OpenInv, DriverSideInv, NeedsInv, Unfinished, CallTypeOK, Avail,
         Side, Other, Config, queueVars, driverVars
<1>10. IdleInv'
  BY <1>1, <1>2, <1>4, Sides, Connections
     DEF IInv, OpenInv, DriverSideInv, IdleInv, Idle, CallTypeOK, Side, Config,
         queueVars, driverVars
<1>11. RunningInv'
  BY <1>1, <1>2, <1>4, Sides, Connections
     DEF IInv, OpenInv, DriverSideInv, IdleInv, RunningInv, Idle, UnderWay,
         CallTypeOK, Avail, Side, Config, queueVars, driverVars
<1> QED BY <1>4, <1>5, <1>6, <1>7, <1>8, <1>9, <1>10, <1>11 DEF IInv

\* A byte goes out.
LEMMA ShiftInv ==
  ASSUME IInv, Shift
  PROVE  IInv'
<1>1. /\ TypeOK /\ QueueTypeOK /\ RingTypeOK /\ CallTypeOK
      /\ currSize \in 0..SIZE /\ SIZE \in Nat \ {0} /\ kind \in Kinds /\ TaskSides \subseteq Side
  BY Facts
<1>2. RingTypeOK' /\ currSize' = currSize
  BY <1>1, RestEffect DEF Shift, queueVars, indexVars
<1>3. CallTypeOK'
  BY <1>1 DEF Shift, queueVars, CallTypeOK
<1>4. TypeOK' /\ TaskSides' = TaskSides
  BY <1>1, <1>2, <1>3, TypeAgain DEF Shift, queueVars, driverVars, TypeOK
<1>5. OpenInv'
  BY <1>1, <1>2, <1>4, Sides, Connections
     DEF IInv, OpenInv, CallTypeOK, Shift, queueVars, driverVars
<1>6. DriverSideInv'
  BY <1>1, <1>2, <1>4, Sides, Connections
     DEF IInv, DriverSideInv, CallTypeOK, Shift, queueVars, driverVars
<1>7. FlagInv'
  BY <1>1, <1>2, <1>4, Sides, Connections
     DEF IInv, DriverSideInv, FlagInv, CallTypeOK, UnderWay, Side, Shift,
         queueVars, driverVars
<1>8. AskedInv'
  BY <1>1, <1>2, <1>4, Sides, Connections
     DEF IInv, OpenInv, AskedInv, Unfinished, CallTypeOK, Shift, queueVars,
         driverVars
<1>9. NeedsInv'
  BY <1>1, <1>2, <1>4, Sides, Connections
     DEF IInv, OpenInv, DriverSideInv, NeedsInv, Unfinished, CallTypeOK, Avail,
         Side, Other, Shift, queueVars, driverVars
<1>10. IdleInv'
  BY <1>1, <1>2, <1>4, Sides, Connections
     DEF IInv, OpenInv, DriverSideInv, IdleInv, Idle, CallTypeOK, Side, Shift,
         queueVars, driverVars
<1>11. RunningInv'
  BY <1>1, <1>2, <1>4, Sides, Connections
     DEF IInv, OpenInv, DriverSideInv, IdleInv, RunningInv, Idle, UnderWay,
         CallTypeOK, Avail, Side, Shift, queueVars, driverVars
<1> QED BY <1>4, <1>5, <1>6, <1>7, <1>8, <1>9, <1>10, <1>11 DEF IInv

\* Nothing happens.
LEMMA StutterInv ==
  ASSUME IInv, UNCHANGED vars
  PROVE  IInv'
<1>1. /\ TypeOK /\ QueueTypeOK /\ RingTypeOK /\ CallTypeOK
      /\ currSize \in 0..SIZE /\ SIZE \in Nat \ {0} /\ kind \in Kinds /\ TaskSides \subseteq Side
  BY Facts
<1>2. RingTypeOK' /\ currSize' = currSize
  BY <1>1, RestEffect DEF vars, queueVars, indexVars
<1>3. CallTypeOK'
  BY <1>1 DEF vars, queueVars, CallTypeOK
<1>4. TypeOK' /\ TaskSides' = TaskSides
  BY <1>1, <1>2, <1>3, TypeAgain DEF vars, queueVars, driverVars, TypeOK
<1>5. OpenInv'
  BY <1>1, <1>2, <1>4, Sides, Connections
     DEF IInv, OpenInv, CallTypeOK, vars, queueVars, driverVars
<1>6. DriverSideInv'
  BY <1>1, <1>2, <1>4, Sides, Connections
     DEF IInv, DriverSideInv, CallTypeOK, vars, queueVars, driverVars
<1>7. FlagInv'
  BY <1>1, <1>2, <1>4, Sides, Connections
     DEF IInv, DriverSideInv, FlagInv, CallTypeOK, UnderWay, Side, vars, queueVars,
         driverVars
<1>8. AskedInv'
  BY <1>1, <1>2, <1>4, Sides, Connections
     DEF IInv, OpenInv, AskedInv, Unfinished, CallTypeOK, vars, queueVars,
         driverVars
<1>9. NeedsInv'
  BY <1>1, <1>2, <1>4, Sides, Connections
     DEF IInv, OpenInv, DriverSideInv, NeedsInv, Unfinished, CallTypeOK, Avail,
         Side, Other, vars, queueVars, driverVars
<1>10. IdleInv'
  BY <1>1, <1>2, <1>4, Sides, Connections
     DEF IInv, OpenInv, DriverSideInv, IdleInv, Idle, CallTypeOK, Side, vars,
         queueVars, driverVars
<1>11. RunningInv'
  BY <1>1, <1>2, <1>4, Sides, Connections
     DEF IInv, OpenInv, DriverSideInv, IdleInv, RunningInv, Idle, UnderWay,
         CallTypeOK, Avail, Side, vars, queueVars, driverVars
<1> QED BY <1>4, <1>5, <1>6, <1>7, <1>8, <1>9, <1>10, <1>11 DEF IInv

\* A byte arrives.
LEMMA ReceiveInv ==
  ASSUME IInv, NEW d \in Data, PutDataToRxBufferFromISR(d)
  PROVE  IInv'
<1>1. /\ TypeOK /\ QueueTypeOK /\ RingTypeOK /\ CallTypeOK
      /\ currSize \in 0..SIZE /\ SIZE \in Nat \ {0} /\ kind \in Kinds /\ TaskSides \subseteq Side
  BY Facts
<1>2. /\ RingTypeOK'
      /\ \/ currSize < SIZE /\ currSize' = currSize + 1
         \/ currSize = SIZE /\ currSize' = currSize
  <2>1. CASE IsNotFull
    <3>1. PutElement(d) /\ currSize < SIZE
      BY <2>1 DEF PutDataToRxBufferFromISR, IsNotFull
    <3> QED BY <1>1, <2>1, <3>1, PutEffect
  <2>2. CASE ~IsNotFull
    BY <1>1, <2>2, RestEffect DEF PutDataToRxBufferFromISR, IsNotFull
  <2> QED BY <2>1, <2>2
<1>3. CallTypeOK'
  <2>1. CASE Wakes("Put", 1)
    <3>1. Remain' \in [Side -> Nat]
      BY <1>1, <2>1 DEF PutDataToRxBufferFromISR, CallTypeOK
    <3>2. pending' \in [Side -> BOOLEAN]
      BY <1>1, <2>1 DEF PutDataToRxBufferFromISR, CallTypeOK
    <3> QED BY <1>1, <3>1, <3>2 DEF PutDataToRxBufferFromISR, CallTypeOK
  <2>2. CASE ~Wakes("Put", 1)
    BY <1>1, <2>2 DEF PutDataToRxBufferFromISR, CallTypeOK
  <2> QED BY <2>1, <2>2
<1>4. TypeOK' /\ TaskSides' = TaskSides
  BY <1>1, <1>2, <1>3, TypeAgain
     DEF PutDataToRxBufferFromISR, Wakes, driverVars, TypeOK
<1>5. OpenInv'
  BY <1>1, <1>2, <1>4, Sides, Connections
     DEF IInv, OpenInv, CallTypeOK, PutDataToRxBufferFromISR, Wakes, driverVars
<1>6. DriverSideInv'
  BY <1>1, <1>2, <1>4, Sides, Connections
     DEF IInv, DriverSideInv, CallTypeOK, PutDataToRxBufferFromISR, Wakes,
         driverVars
<1>7. FlagInv'
  BY <1>1, <1>2, <1>4, Sides, Connections
     DEF IInv, DriverSideInv, FlagInv, CallTypeOK, UnderWay, Side,
         PutDataToRxBufferFromISR, Wakes, driverVars
<1>8. AskedInv'
  BY <1>1, <1>2, <1>4, Sides, Connections
     DEF IInv, OpenInv, AskedInv, Unfinished, CallTypeOK, PutDataToRxBufferFromISR,
         Wakes, driverVars
<1>9. NeedsInv'
  BY <1>1, <1>2, <1>4, Sides, Connections
     DEF IInv, OpenInv, DriverSideInv, NeedsInv, Unfinished, CallTypeOK, Avail,
         Side, Other, PutDataToRxBufferFromISR, Wakes, driverVars
<1>10. IdleInv'
  BY <1>1, <1>2, <1>4, Sides, Connections
     DEF IInv, OpenInv, DriverSideInv, IdleInv, Idle, CallTypeOK, Side,
         PutDataToRxBufferFromISR, Wakes, driverVars
<1>11. RunningInv'
  BY <1>1, <1>2, <1>4, Sides, Connections
     DEF IInv, OpenInv, DriverSideInv, IdleInv, RunningInv, Idle, UnderWay,
         CallTypeOK, Avail, Side, PutDataToRxBufferFromISR, Wakes, driverVars
<1> QED BY <1>4, <1>5, <1>6, <1>7, <1>8, <1>9, <1>10, <1>11 DEF IInv

--------------------------------------------------------------------------------
(* The invariant holds *)

\* A driver starts with nothing to send, ...
LEMMA InitEmpty ==
  ASSUME DriverInit
  PROVE  /\ SIZE \in Nat \ {0} /\ IndexMod \in Nat \ {0}
         /\ PutIndex = 0 /\ GetIndex = 0 /\ currSize = 0
<1>1. SIZE \in Nat \ {0} /\ IndexMod \in Nat \ {0}
  BY DataQueueAssumption
<1>2. (IndexMod * 0 + 0) % IndexMod = 0
  BY <1>1, Ring!ModUnique
<1>3. PutIndex = 0 /\ GetIndex = 0
  BY DEF DriverInit, Constructed
<1>4. currSize = 0
  BY <1>1, <1>2, <1>3 DEF currSize
<1> QED BY <1>1, <1>3, <1>4

\* ... and its transmitter to be called by the first Write.
LEMMA InitInv == DriverInit => IInv
<1> SUFFICES ASSUME DriverInit PROVE IInv
  OBVIOUS
<1>1. /\ SIZE \in Nat \ {0} /\ IndexMod \in Nat \ {0}
      /\ PutIndex = 0 /\ GetIndex = 0
  BY InitEmpty
<1>2. currSize = 0
  BY InitEmpty
<1>3. kind \in Kinds /\ kind \in {"Tasks", "Receiver", "Transmitter"}
  BY UsartDriverAssumption DEF DriverInit
<1>4. /\ RingTypeOK /\ CallTypeOK
      /\ \A s \in Side : pc[s] = "Ready" /\ Remain[s] = 0 /\ ~pending[s]
  BY <1>1, <1>2 DEF DriverInit, Constructed, RingTypeOK, CallTypeOK
<1>5. TypeOK
  BY <1>3, <1>4, QueueTypes DEF TypeOK, DriverInit
<1>6. \A s \in Side : WakeupFlag[s] <=> kind = "Transmitter" /\ s = "Get"
  BY <1>3 DEF DriverInit, Constructed
<1>7. /\ kind = "Tasks" => \A s \in Side : connected[s]
      /\ kind = "Receiver" => \A s \in Side : ~connected[s]
      /\ kind = "Transmitter" => \A s \in Side : connected[s] <=> s = "Get"
  <2>1. connected = [s \in Side |-> s \in (CASE kind = "Tasks"       -> Side
                                           [] kind = "Receiver"    -> {}
                                           [] kind = "Transmitter" -> {"Get"})]
    BY DEF DriverInit, Constructed
  <2>2. CASE kind = "Tasks"
    BY <2>1, <2>2
  <2>3. CASE kind = "Receiver"
    BY <2>1, <2>3
  <2>4. CASE kind = "Transmitter"
    BY <2>1, <2>4
  <2> QED BY <1>3, <2>2, <2>3, <2>4
<1>8. OpenInv /\ DriverSideInv /\ FlagInv
  BY <1>3, <1>4, <1>6, <1>7, Connections
     DEF OpenInv, DriverSideInv, FlagInv, Side, Other
<1>9. AskedInv /\ NeedsInv
  BY <1>4 DEF AskedInv, NeedsInv, Unfinished
<1>10. IdleInv /\ RunningInv
  BY <1>2, <1>4, <1>6 DEF DriverInit, IdleInv, RunningInv, Idle, Side
<1> QED BY <1>5, <1>8, <1>9, <1>10 DEF IInv

\* Every step keeps it.
LEMMA NextInv == IInv /\ [DriverNext]_vars => IInv'
<1> SUFFICES ASSUME IInv, [DriverNext]_vars PROVE IInv'
  OBVIOUS
<1>1. ASSUME NEW s \in TaskSides, StartsCall(s) PROVE IInv'
  BY <1>1, BeginInv DEF StartsCall, Starts
<1>2. ASSUME NEW s \in TaskSides, Step(s) PROVE IInv'
  BY <1>2, CheckInv, MoveInv, StopInv, ShortInv, ResumeInv, NotifyInv DEF Step, Call
<1>3. ASSUME NEW s \in TaskSides, Reconnect(s) \/ Open(s) PROVE IInv'
  <2>1. Connect(s) /\ UNCHANGED <<kind, driverVars, lapse>>
    BY <1>3 DEF Reconnect, Open
  <2>2. kind # "Transmitter" \/ ~connected[s]
    BY <1>3 DEF Reconnect, Open
  <2> QED BY <2>1, <2>2, ConnectInv
<1>4. ASSUME NEW s \in TaskSides, Close(s) PROVE IInv'
  BY <1>4, CloseInv
<1>5. CASE NotifyDriver
  BY <1>5, NotifyDriverInv, NotifyDriverNotInv
<1>6. CASE RXC_vect
  BY <1>6, ReceiveInv DEF RXC_vect
<1>7. CASE DRE_vect
  BY <1>7, DRE_vectInv
<1>8. CASE Shift
  BY <1>8, ShiftInv
<1>9. CASE Config
  BY <1>9, ConfigInv
<1>10. CASE UNCHANGED vars
  BY <1>10, StutterInv
<1> QED BY <1>1, <1>2, <1>3, <1>4, <1>5, <1>6, <1>7, <1>8, <1>9,
       <1>10 DEF DriverNext

\* The invariant holds in every reachable state.
THEOREM Invariance == DriverSpec => []IInv
  BY InitInv, NextInv, PTL DEF DriverSpec

\* The indices stay in range, and the buffer never holds more than its cells,
\* whatever interrupts whom.
THEOREM TypeCorrect == DriverSpec => []TypeOK
  BY Invariance, PTL DEF IInv

\* A session leaves no notification behind.
THEOREM ClosedSilent == DriverSpec => []ClosedIsSilent
<1>1. IInv => ClosedIsSilent
  BY DEF IInv, OpenInv, ClosedIsSilent
<1> QED BY <1>1, Invariance, PTL

\* Whoever waits for more elements, or for more room, than there was when it
\* looked is notified once there is enough, for buffers and calls of every size.
THEOREM NoMissedWakeup == DriverSpec => []WaitersAreNotified
<1>1. IInv => WaitersAreNotified
  <2> SUFFICES ASSUME IInv, ~lapse PROVE WaitersAreNotified
    BY DEF WaitersAreNotified
  <2>0. kind \in {"Tasks", "Receiver", "Transmitter"}
    BY Facts, Connections
  <2>1. CASE kind = "Transmitter"
    <3> SUFFICES ASSUME Quiet, pc["Put"] = "Wait" PROVE pending["Put"] \/ DRE
      BY <2>1 DEF WaitersAreNotified
    <3>1. pending["Put"] \/ WakeupFlag["Put"] \/ Remain["Put"] > 0
      BY DEF IInv, AskedInv, Unfinished, Side
    <3>2. ~WakeupFlag["Put"]
      BY <2>1, Facts, Connections DEF IInv, DriverSideInv, Side, Other
    <3>3. Remain["Put"] > 0 => DRE
      BY <2>1 DEF IInv, RunningInv
    <3> QED BY <3>1, <3>2, <3>3
  <2>2. CASE kind # "Transmitter"
    <3> SUFFICES ASSUME NEW s \in Side, Quiet, pc[s] = "Wait"
                 PROVE  pending[s] \/ Remain[s] > Avail(s)
      BY <2>2 DEF WaitersAreNotified, Notified
    <3>1. pending[s] \/ WakeupFlag[s] \/ Remain[s] > 0
      BY DEF IInv, AskedInv, Unfinished
    <3>2. ~WakeupFlag[s] /\ pc[Other(s)] # "Move"
      BY <2>2, Sides DEF IInv, FlagInv, UnderWay, Quiet
    <3>3. Remain[s] > 0 => Remain[s] > Avail(s) + 0
      BY <2>2, <3>2 DEF IInv, NeedsInv, Unfinished
    <3>4. Avail(s) \in Int
      BY Facts DEF Avail
    <3> QED BY <3>1, <3>2, <3>3, <3>4
  <2> QED BY <2>1, <2>2
<1> QED BY <1>1, Invariance, PTL

\* The transmitter goes on as long as there are bytes, and says that it has
\* finished only when there is none.
THEOREM KeepsRunning == DriverSpec => []TransmitterRuns
<1>1. IInv => TransmitterRuns
  <2> SUFFICES ASSUME IInv, kind = "Transmitter", Quiet, ~lapse
               PROVE  (currSize > 0 => DRE) /\ (TxCompleteFlag => currSize = 0 /\ DATA = "Empty")
    BY DEF TransmitterRuns
  <2>1. Idle => currSize = 0
    BY Facts DEF IInv, RunningInv, Idle, Quiet, UnderWay, Side
  <2> QED BY <2>1, Facts DEF IInv, RunningInv, IdleInv
<1> QED BY <1>1, Invariance, PTL

\* The transmitter's functor, called by a Write, finds the data register empty.
THEOREM NoOverwrite == DriverSpec => NoByteOverwritten
<1>1. IInv /\ [DriverNext]_vars =>
        [kind = "Transmitter" /\ GetIndex' # GetIndex => DATA = "Empty"]_vars
  <2> SUFFICES ASSUME IInv, [DriverNext]_vars, kind = "Transmitter",
         GetIndex' # GetIndex
               PROVE  DATA = "Empty"
    OBVIOUS
  <2>1. TaskSides = {"Put"}
    BY Facts, Connections
  <2>2. ASSUME NEW s \in TaskSides,
         StartsCall(s) \/ Step(s) \/ Reconnect(s) \/ Open(s) \/ Close(s)
        PROVE  FALSE
    <3>1. s = "Put"
      BY <2>1, <2>2
    <3>2. CASE Move(s)
      BY <3>1, <3>2 DEF Move, PutElement
    <3>3. CASE ~Move(s)
      BY <2>2, <3>3
         DEF StartsCall, Step, Reconnect, Open, Close, Starts, Begin, Call, Check,
             Stop,
                        Short, Resume, Connect, ConnectFunctor, indexVars
    <3> QED BY <3>2, <3>3
  <2>3. CASE NotifyDriver
    BY <2>3 DEF NotifyDriver, IInv, IdleInv, Idle, indexVars
  <2>4. CASE DRE_vect
    BY <2>4 DEF DRE_vect
  <2>5. CASE RXC_vect
    BY <2>5 DEF RXC_vect, PutDataToRxBufferFromISR
  <2>6. CASE Shift \/ Config \/ UNCHANGED vars
    BY <2>6 DEF Shift, Config, vars, queueVars
  <2> QED BY <2>2, <2>3, <2>4, <2>5, <2>6 DEF DriverNext
<1> QED BY <1>1, Invariance, PTL DEF DriverSpec, NoByteOverwritten
--------------------------------------------------------------------------------
(* The FIFO that the buffer is *)

\* The buffer as a sequence, oldest element first.
Contents == [i \in 1..currSize |-> data_array[Cell(GetIndex + i - 1)]]

\* Its elements, and where they are.
LEMMA ContentsType ==
  ASSUME QueueTypeOK
  PROVE  /\ Contents \in [1..currSize -> Data]
         /\ Contents \in Seq(Data) /\ Len(Contents) = currSize
         /\ \A i \in 0..(currSize - 1) : Contents[i + 1] = data_array[Cell(GetIndex + i)]
<1>1. currSize \in Nat /\ GetIndex \in Int
  BY Indices
<1>2. ASSUME NEW i \in 1..currSize
      PROVE  data_array[Cell(GetIndex + i - 1)] \in Data
  <2>1. i - 1 \in Int /\ GetIndex + i - 1 = GetIndex + (i - 1)
    BY <1>1
  <2>2. Cell(GetIndex + i - 1) \in 0..(SIZE - 1)
    BY <2>1, Indices
  <2> QED BY <2>2 DEF QueueTypeOK
<1>3. ASSUME NEW i \in 0..(currSize - 1)
      PROVE  Contents[i + 1] = data_array[Cell(GetIndex + i)]
  <2>1. i + 1 \in 1..currSize /\ GetIndex + (i + 1) - 1 = GetIndex + i
    BY <1>1
  <2> QED BY <2>1 DEF Contents
<1>4. Contents \in [1..currSize -> Data]
  BY <1>2 DEF Contents
<1> QED BY <1>1, <1>3, <1>4

\* Two sequences of the same elements are the same.
LEMMA SameElements ==
  ASSUME NEW n \in Nat, NEW S, NEW f \in [1..n -> S], NEW g \in Seq(S), Len(g) = n,
         \A i \in 1..n : f[i] = g[i]
  PROVE  f = g
  OBVIOUS

\* Different places of the buffer are different cells.
LEMMA OwnCell ==
  ASSUME QueueTypeOK, IsNotFull, NEW i \in 0..(currSize - 1)
  PROVE  Cell(GetIndex + i) # Cell(PutIndex)
<1>1. PICK b \in Int : b = GetIndex + i
  BY Indices
<1>2. PICK d \in 1..(SIZE - 1) : d = currSize - i
  BY Indices DEF IsNotFull
<1>3. (b + d) % SIZE # b % SIZE
  BY Indices, Ring!ModApart
<1>4. b + d = GetIndex + currSize
  BY <1>1, <1>2, Indices
<1>5. Cell(PutIndex) = Cell(GetIndex + currSize)
  BY Indices
<1> QED BY <1>1, <1>3, <1>4, <1>5 DEF Cell

\* A put appends its element.
LEMMA PutAppends ==
  ASSUME QueueTypeOK, IsNotFull, NEW d \in Data, PutElement(d)
  PROVE  Fifo!Put(d)
<1>1. PICK n \in Nat : n = currSize /\ n < SIZE /\ currSize' = n + 1
  BY PutEffect, Indices DEF IsNotFull
<1>2. /\ GetIndex' = GetIndex /\ got' = got /\ GetIndex \in Int
      /\ data_array' = [data_array EXCEPT ![Cell(PutIndex)] = d]
  BY Indices DEF PutElement
<1>3. /\ Contents \in Seq(Data) /\ Len(Contents) = n
      /\ \A i \in 0..(n - 1) : Contents[i + 1] = data_array[Cell(GetIndex + i)]
  BY <1>1, ContentsType
<1>4. Contents' = [i \in 1..(n + 1) |-> data_array'[Cell(GetIndex + i - 1)]]
  BY <1>1, <1>2 DEF Contents, Cell
<1>5. data_array'[Cell(GetIndex + n)] = d
  <2>1. Cell(PutIndex) = Cell(GetIndex + n) /\ Cell(GetIndex + n) \in 0..(SIZE - 1)
    BY <1>1, Indices
  <2> QED BY <1>2, <2>1 DEF QueueTypeOK
<1>6. ASSUME NEW i \in 0..(n - 1)
      PROVE  data_array'[Cell(GetIndex + i)] = data_array[Cell(GetIndex + i)]
  <2>1. Cell(GetIndex + i) # Cell(PutIndex)
    BY <1>1, OwnCell
  <2>2. i \in Int
    BY <1>1
  <2>3. Cell(GetIndex + i) \in 0..(SIZE - 1)
    BY <2>2, Indices
  <2> QED BY <1>2, <2>1, <2>3 DEF QueueTypeOK
<1>7. /\ Append(Contents, d) \in Seq(Data) /\ Len(Append(Contents, d)) = n + 1
      /\ \A i \in 1..n : Append(Contents, d)[i] = Contents[i]
      /\ Append(Contents, d)[n + 1] = d
  BY <1>3
<1>8. ASSUME NEW i \in 1..(n + 1) PROVE Contents'[i] = Append(Contents, d)[i]
  <2>1. PICK k \in 0..n : k = i - 1 /\ i = k + 1 /\ GetIndex + i - 1 = GetIndex + k
    BY <1>2
  <2>2. Contents'[i] = data_array'[Cell(GetIndex + k)]
    BY <1>4, <2>1
  <2>3. CASE k = n
    BY <1>5, <1>7, <2>1, <2>2, <2>3
  <2>4. CASE k # n
    <3>1. k \in 0..(n - 1) /\ i \in 1..n
      BY <2>1, <2>4
    <3>2. Contents'[i] = Contents[i]
      BY <1>3, <1>6, <2>1, <2>2, <3>1
    <3> QED BY <1>7, <3>1, <3>2
  <2> QED BY <2>3, <2>4
<1>9. Contents' \in [1..(n + 1) -> Data]
  <2>1. \A i \in 1..(n + 1) : Append(Contents, d)[i] \in Data
    BY <1>7
  <2>2. \A i \in 1..(n + 1) : Contents'[i] \in Data
    BY <1>8, <2>1
  <2> QED BY <1>4, <2>2
<1>10. Contents' = Append(Contents, d)
  BY <1>7, <1>8, <1>9, SameElements
<1> QED BY <1>1, <1>2, <1>3, <1>10 DEF Fifo!Put, Contents

\* A get takes out the oldest.
LEMMA GetTakes ==
  ASSUME QueueTypeOK, IsNotEmpty, GetElement
  PROVE  Fifo!Get
<1>1. PICK n \in Nat \ {0} : n = currSize /\ currSize' = n - 1
  BY GetEffect, Indices DEF IsNotEmpty
<1>2. /\ GetIndex' = (GetIndex + 1) % IndexMod /\ GetIndex' \in Int /\ GetIndex \in Int
      /\ data_array' = data_array /\ got' = <<data_array[Cell(GetIndex)]>>
  BY Indices DEF GetElement
<1>3. /\ Contents \in Seq(Data) /\ Len(Contents) = n
      /\ \A i \in 0..(n - 1) : Contents[i + 1] = data_array[Cell(GetIndex + i)]
  BY <1>1, ContentsType
<1>4. Contents' = [i \in 1..(n - 1) |-> data_array[Cell(GetIndex' + i - 1)]]
  BY <1>1, <1>2 DEF Contents, Cell
<1>5. /\ Contents # <<>> /\ Tail(Contents) \in Seq(Data) /\ Len(Tail(Contents)) = n - 1
      /\ \A i \in 1..(n - 1) : Tail(Contents)[i] = Contents[i + 1]
  BY <1>3
<1>6. ASSUME NEW i \in 1..(n - 1) PROVE Contents'[i] = Tail(Contents)[i]
  <2>1. PICK k \in 0..(n - 2) : k = i - 1 /\ i = k + 1
    OBVIOUS
  <2>2. GetIndex' + i - 1 = GetIndex' + k /\ i \in 0..(n - 1) /\ k \in Int
    BY <1>2, <2>1
  <2>3. Cell(GetIndex' + k) = Cell(GetIndex + (k + 1))
    BY <1>2, <2>2, Indices
  <2>4. Contents'[i] = data_array[Cell(GetIndex + i)]
    BY <1>4, <2>1, <2>2, <2>3
  <2>5. Contents[i + 1] = data_array[Cell(GetIndex + i)]
    BY <1>3, <2>2
  <2> QED BY <1>5, <2>4, <2>5
<1>7. Contents' \in [1..(n - 1) -> Data]
  BY <1>4, <1>5, <1>6
<1>8. Contents' = Tail(Contents)
  BY <1>1, <1>5, <1>6, <1>7, SameElements
<1>9. Head(Contents) = data_array[Cell(GetIndex)]
  <2>1. GetIndex + 0 = GetIndex /\ 0 \in 0..(n - 1)
    BY <1>1, <1>2
  <2>2. Contents[0 + 1] = data_array[Cell(GetIndex)]
    BY <1>3, <2>1
  <2> QED BY <1>3, <1>5, <2>2
<1> QED BY <1>2, <1>5, <1>8, <1>9 DEF Fifo!Get, Contents

\* Elements come out once each and in the order they went in, from buffers of
\* every size and with calls of every size, between tasks and interrupts.
THEOREM BufferIsFifo == DriverSpec => ImplementsFifo
<1>1. DriverInit => Fifo!Init
  <2> SUFFICES ASSUME DriverInit PROVE Contents = <<>> /\ got = <<>>
    BY DEF Fifo!Init, Contents
  <2>1. QueueTypeOK
    BY InitInv, Facts
  <2>2. currSize = 0
    BY InitEmpty
  <2> QED BY <2>1, <2>2, ContentsType DEF DriverInit, Constructed
<1>2. IInv /\ [DriverNext]_vars => [Fifo!Next]_(Fifo!vars)
  <2> SUFFICES ASSUME IInv,
         [DriverNext]_vars PROVE Fifo!Next \/ UNCHANGED <<Contents, got>>
    BY DEF Fifo!vars, Contents
  <2>1. QueueTypeOK /\ TaskSides \subseteq Side
    BY Facts
  <2>2. ASSUME NEW d \in Data, IsNotFull, PutElement(d) PROVE Fifo!Next
    BY <2>1, <2>2, PutAppends DEF Fifo!Next
  <2>3. ASSUME IsNotEmpty, GetElement PROVE Fifo!Next
    BY <2>1, <2>3, GetTakes DEF Fifo!Next
  <2>4. ASSUME UNCHANGED <<indexVars, got>> PROVE UNCHANGED <<Contents, got>>
    BY <2>4 DEF indexVars, Contents, currSize
  <2>5. ASSUME NEW s \in TaskSides,
         StartsCall(s) \/ Step(s) \/ Reconnect(s) \/ Open(s) \/ Close(s)
        PROVE  Fifo!Next \/ UNCHANGED <<Contents, got>>
    <3>1. CASE Move(s)
      BY <2>1, <2>2, <2>3, <3>1 DEF Move, CanMove, Side
    <3>2. CASE ~Move(s)
      <4>1. UNCHANGED <<indexVars, got>>
        BY <2>5, <3>2
           DEF StartsCall, Step, Reconnect, Open, Close, Starts, Begin, Call, Check,
                          Stop, Short, Resume, Notify, Connect, ConnectFunctor
      <4> QED BY <2>4, <4>1
    <3> QED BY <3>1, <3>2
  <2>6. CASE NotifyDriver \/ DRE_vect
    <3>1. UNCHANGED <<indexVars, got>> \/ (IsNotEmpty /\ GetElement)
      BY <2>6 DEF NotifyDriver, DRE_vect, Transmit, indexVars
    <3> QED BY <2>3, <2>4, <3>1
  <2>7. CASE RXC_vect
    <3>1. PICK d \in Data : PutDataToRxBufferFromISR(d)
      BY <2>7 DEF RXC_vect
    <3>2. UNCHANGED <<indexVars, got>> \/ (IsNotFull /\ PutElement(d))
      BY <3>1 DEF PutDataToRxBufferFromISR
    <3> QED BY <2>2, <2>4, <3>2
  <2>8. CASE Shift \/ Config \/ UNCHANGED vars
    BY <2>4, <2>8 DEF Shift, Config, vars, queueVars, indexVars
  <2> QED BY <2>5, <2>6, <2>7, <2>8 DEF DriverNext
<1> QED BY <1>1, <1>2, Invariance, PTL DEF DriverSpec, ImplementsFifo, Fifo!Spec
--------------------------------------------------------------------------------
(* The baud rate                                                              *)

\* A set of numbers that is not empty has a least element.
LEMMA LeastElement ==
  ASSUME NEW T \in SUBSET Nat, T # {}
  PROVE  \E x \in T : \A y \in T : x <= y
<1> DEFINE R == OpToRel(<, Nat)
<1>1. IsWellFoundedOn(R, Nat)
  BY NatLessThanWellFounded
<1>2. \A y, x \in Nat : y < x => <<y, x>> \in R
  BY DEF OpToRel
<1> HIDE DEF R
<1>3. PICK x \in T : \A y \in T : ~(<<y, x>> \in R)
  BY <1>1, WFMin
<1>4. ASSUME NEW y \in T PROVE x <= y
  <2>1. x \in Nat /\ y \in Nat /\ ~(y < x)
    BY <1>2, <1>3
  <2> QED BY <2>1
<1> QED BY <1>4

\* The settings that the registers hold.
Setting == [Bsel : 0..4095, Bscale : -7..7]

\* What the search accepts are settings that meet the rate.
LEMMA FoundMeets ==
  ASSUME NEW Fbaud, NEW c \in Found(Fbaud)
  PROVE  c \in Setting /\ Meets(c.Bsel, c.Bscale, Fbaud)
<1>1. PICK b \in -7..7, i \in 0..1 : c = [Bsel |-> BselOf(b, Fbaud) + i, Bscale |-> b]
  BY DEF Found
<1>2. c.Bsel \in 0..4094 /\ Meets(c.Bsel, c.Bscale, Fbaud)
  BY DEF Found
<1>3. c.Bsel \in 0..4095
  BY <1>2
<1>4. c.Bscale \in -7..7 /\ c = [Bsel |-> c.Bsel, Bscale |-> c.Bscale]
  BY <1>1
<1>5. c \in Setting
  <2> DEFINE x == c.Bsel
             y == c.Bscale
  <2>1. x \in 0..4095 /\ y \in -7..7 /\ c = [Bsel |-> x, Bscale |-> y]
    BY <1>3, <1>4
  <2> HIDE DEF x, y
  <2> QED BY <2>1 DEF Setting
<1> QED BY <1>2, <1>5

\* There is a best of those that were found: the order of Best is that of a number.
LEMMA BestFound ==
  ASSUME NEW Fbaud, Found(Fbaud) # {}
  PROVE  Best(Fbaud) \in Found(Fbaud)
<1> DEFINE Key(c) == 16 * c.Bsel + (c.Bscale + 7)
           T == {Key(c) : c \in Found(Fbaud)}
<1>1. \A c \in Found(Fbaud) : c.Bsel \in 0..4095 /\ c.Bscale \in -7..7
  BY FoundMeets DEF Setting
<1>2. T \in SUBSET Nat /\ T # {}
  <2>1. ASSUME NEW c \in Found(Fbaud) PROVE Key(c) \in Nat
    <3>1. PICK m, x : m = c.Bsel /\ x = c.Bscale
      OBVIOUS
    <3>2. m \in 0..4095 /\ x \in -7..7
      BY <1>1, <3>1
    <3>3. 16 * m + (x + 7) \in Nat
      BY <3>2
    <3> QED BY <3>1, <3>3
  <2> HIDE DEF Key
  <2> QED BY <2>1
<1>3. PICK k \in T : \A y \in T : k <= y
  <2> HIDE DEF T
  <2> QED BY <1>2, LeastElement
<1>4. PICK c \in Found(Fbaud) : k = Key(c)
  BY <1>3
<1>5. ASSUME NEW d \in Found(Fbaud)
      PROVE  c.Bsel < d.Bsel \/ (c.Bsel = d.Bsel /\ c.Bscale <= d.Bscale)
  <2>1. Key(c) <= Key(d)
    BY <1>3, <1>4
  <2>2. /\ c.Bsel \in 0..4095 /\ c.Bscale \in -7..7
        /\ d.Bsel \in 0..4095 /\ d.Bscale \in -7..7
    BY <1>1
  <2>3. PICK m, n, x, y : m = c.Bsel /\ n = d.Bsel /\ x = c.Bscale /\ y = d.Bscale
    OBVIOUS
  <2>4. 16 * m + (x + 7) <= 16 * n + (y + 7)
    BY <2>1, <2>3
  <2>5. m \in 0..4095 /\ n \in 0..4095 /\ x \in -7..7 /\ y \in -7..7
    BY <2>2, <2>3
  <2>6. m < n \/ (m = n /\ x <= y)
    BY <2>4, <2>5
  <2> QED BY <2>3, <2>6
<1>6. \E x \in Found(Fbaud) : \A d \in Found(Fbaud) :
        x.Bsel < d.Bsel \/ (x.Bsel = d.Bsel /\ x.Bscale <= d.Bscale)
  BY <1>5
<1> QED BY <1>6 DEF Best

\* The powers of two.
LEMMA Powers ==
  /\ 2^0 = 1
  /\ \A b \in 1..7 : 2^b \in {2, 4, 8, 16, 32, 64, 128}
<1>1. /\ 2^0 = 1 /\ 2^1 = 2 /\ 2^2 = 4 /\ 2^3 = 8
      /\ 2^4 = 16 /\ 2^5 = 32 /\ 2^6 = 64 /\ 2^7 = 128
  OBVIOUS
<1>2. ASSUME NEW b \in 1..7 PROVE 2^b \in {2, 4, 8, 16, 32, 64, 128}
  <2>1. CASE b = 1
    BY <1>1, <2>1
  <2>2. CASE b = 2
    BY <1>1, <2>2
  <2>3. CASE b = 3
    BY <1>1, <2>3
  <2>4. CASE b = 4
    BY <1>1, <2>4
  <2>5. CASE b = 5
    BY <1>1, <2>5
  <2>6. CASE b = 6
    BY <1>1, <2>6
  <2>7. CASE b = 7
    BY <1>1, <2>7
  <2> QED BY <2>1, <2>2, <2>3, <2>4, <2>5, <2>6, <2>7
<1> QED BY <1>1, <1>2

\* A divisor of zero is brought to a scale of zero at the same rate.
LEMMA NormalMeets ==
  ASSUME NEW Fbaud, NEW c \in Setting, Meets(c.Bsel, c.Bscale, Fbaud)
  PROVE  /\ Normal(c) \in Setting
         /\ Meets(Normal(c).Bsel, Normal(c).Bscale, Fbaud)
         /\ Normal(c).Bsel = 0 => Normal(c).Bscale = 0
<1>0. Fper \in Nat /\ c.Bsel \in 0..4095 /\ c.Bscale \in -7..7
  BY BaudRateAssumption DEF Setting
<1>1. CASE c.Bsel = 0 /\ c.Bscale \in 1..7
  <2>1. PICK p \in {2, 4, 8, 16, 32, 64, 128} : p = 2^c.Bscale
    BY <1>1, Powers
  <2>2. Normal(c) = [Bsel |-> p - 1, Bscale |-> 0]
    BY <1>1, <2>1 DEF Normal
  <2>3. fbaud_real(p - 1, 0) = fbaud_real(c.Bsel, c.Bscale)
    <3>1. fbaud_real(p - 1, 0) = Fper \div (1 * 16 * ((p - 1) + 1))
      BY Powers DEF fbaud_real
    <3>2. fbaud_real(c.Bsel, c.Bscale) = Fper \div (p * 16 * (0 + 1))
      BY <1>1, <2>1 DEF fbaud_real
    <3>3. 1 * 16 * ((p - 1) + 1) = p * 16 * (0 + 1)
      OBVIOUS
    <3> QED BY <3>1, <3>2, <3>3
  <2>4. Meets(p - 1, 0, Fbaud)
    BY <2>3 DEF Meets
  <2>5. p - 1 \in 0..4095 /\ p - 1 # 0 /\ 0 \in -7..7
    OBVIOUS
  <2> QED BY <2>2, <2>4, <2>5 DEF Setting
<1>2. CASE c.Bsel = 0 /\ c.Bscale \in -7..-1
  <2>1. PICK p \in {2, 4, 8, 16, 32, 64, 128} : p = 2^(-c.Bscale)
    <3>1. -c.Bscale \in 1..7
      BY <1>2
    <3> QED BY <3>1, Powers
  <2>2. Normal(c) = [Bsel |-> 0, Bscale |-> 0]
    BY <1>2 DEF Normal
  <2>3. fbaud_real(0, 0) = fbaud_real(c.Bsel, c.Bscale)
    <3>1. fbaud_real(0, 0) = Fper \div 16
      BY <1>0, Powers DEF fbaud_real
    <3>2. fbaud_real(c.Bsel, c.Bscale) = (p * Fper) \div (16 * (0 + p))
      BY <1>2, <2>1 DEF fbaud_real
    <3>3. (p * Fper) \div (16 * (0 + p)) = Fper \div 16
      <4>1. /\ (2 * Fper) \div 32 = Fper \div 16
            /\ (4 * Fper) \div 64 = Fper \div 16
            /\ (8 * Fper) \div 128 = Fper \div 16
            /\ (16 * Fper) \div 256 = Fper \div 16
        BY <1>0
      <4>2. /\ (32 * Fper) \div 512 = Fper \div 16
            /\ (64 * Fper) \div 1024 = Fper \div 16
            /\ (128 * Fper) \div 2048 = Fper \div 16
        BY <1>0
      <4> QED BY <1>0, <4>1, <4>2
    <3> QED BY <3>1, <3>2, <3>3
  <2>4. Meets(0, 0, Fbaud)
    BY <2>3 DEF Meets
  <2> QED BY <2>2, <2>4 DEF Setting
<1>3. CASE ~(c.Bsel = 0 /\ c.Bscale # 0)
  <2>1. Normal(c) = c
    BY <1>3 DEF Normal
  <2> QED BY <1>3, <2>1
<1> QED BY <1>0, <1>1, <1>2, <1>3

\* The hardware reads from the two registers the setting that was put in them.
LEMMA RegistersHold ==
  ASSUME NEW Fbaud, NEW c \in Setting, c = Normal(Best(Fbaud))
  PROVE  ReadBack(GetConfig(Fbaud)) = c
<1>0. PICK Bsel, Bscale : Bsel = c.Bsel /\ Bscale = c.Bscale
  OBVIOUS
<1>1. Bsel \in 0..4095 /\ Bscale \in -7..7 /\ c = [Bsel |-> Bsel, Bscale |-> Bscale]
  BY <1>0 DEF Setting
<1>2. PICK A, B : A = Bsel % 256 /\ B = (16 * (Bscale % 16)) + ((Bsel \div 256) % 16)
  OBVIOUS
<1>3. GetConfig(Fbaud) = [BAUDCTRLA |-> A, BAUDCTRLB |-> B]
  BY <1>0, <1>2 DEF GetConfig
<1>4. PICK nibble : nibble = B \div 16
  OBVIOUS
<1>5. nibble = Bscale % 16 /\ B % 16 = (Bsel \div 256) % 16
  <2>1. PICK x \in 0..15, y \in 0..15 : x = Bscale % 16 /\ y = (Bsel \div 256) % 16
    BY <1>1
  <2> QED BY <1>2, <1>4, <2>1
<1>6. A + (256 * (B % 16)) = Bsel
  BY <1>1, <1>2, <1>5
<1>7. (IF nibble >= 8 THEN nibble - 16 ELSE nibble) = Bscale
  BY <1>1, <1>5
<1>8. ReadBack(GetConfig(Fbaud))
        = [Bsel |-> A + (256 * (B % 16)), Bscale |-> IF nibble >= 8 THEN nibble - 16 ELSE nibble]
  BY <1>3, <1>4 DEF ReadBack
<1> QED BY <1>1, <1>6, <1>7, <1>8

\* The search finds something for every rate of the application that the hardware
\* can make.
SearchFinds == \A Fbaud \in Rates : CanMake(Fbaud) => Found(Fbaud) # {}

\* Whatever the search finds, the registers make the rate, in a setting the hardware
\* allows.
LEMMA RegistersMeet ==
  ASSUME SearchFinds
  PROVE  SettingsMeetRates
<1>1. ASSUME NEW Fbaud \in Rates, Found(Fbaud) # {}, NEW c, c = ReadBack(GetConfig(Fbaud))
      PROVE  Meets(c.Bsel, c.Bscale, Fbaud) /\ (c.Bsel = 0 => c.Bscale = 0)
  <2>1. Best(Fbaud) \in Setting /\ Meets(Best(Fbaud).Bsel, Best(Fbaud).Bscale, Fbaud)
    BY <1>1, BestFound, FoundMeets
  <2>2. PICK d : d = Normal(Best(Fbaud))
    OBVIOUS
  <2>3. d \in Setting /\ Meets(d.Bsel, d.Bscale, Fbaud) /\ (d.Bsel = 0 => d.Bscale = 0)
    BY <2>1, <2>2, NormalMeets
  <2>4. c = d
    BY <1>1, <2>2, <2>3, RegistersHold
  <2> QED BY <2>3, <2>4
<1>2. ASSUME NEW Fbaud \in Rates, CanMake(Fbaud) PROVE Found(Fbaud) # {}
  BY <1>2 DEF SearchFinds
<1> QED BY <1>1, <1>2 DEF SettingsMeetRates

\* A driver that has been configured runs at the rate it was configured for,
\* whichever of Rates that is, with any clock for which the search of GetConfig finds
\* something wherever the hardware has something: what is kept of what was found, the
\* way a divisor of zero is made legal, and the packing into two registers lose nothing.
THEOREM RatesMet == ASSUME SearchFinds PROVE DriverSpec => []RatesAreMet
<1>1. SettingsMeetRates
  BY RegistersMeet
<1>2. RatesAreMet
  BY <1>1 DEF RatesAreMet
<1> QED BY <1>2, PTL
================================================================================
