---------------------------- MODULE SpiDriverProofs ----------------------------
(***************************************************************************)
(* What the SPI driver leaves behind, for every mask of ports and every     *)
(* size of call.  A call can only go right if the hardware is at rest when  *)
(* it begins, and the proof follows what the flags of the hardware say at   *)
(* each point of a call (Phase).                                            *)
(***************************************************************************)
EXTENDS SpiDriver, TLAPS

\* No byte is on the line of h, nor behind it.
LineIdle(h) == shift[h] = NoByte /\ txbuf[h] = NoByte

\* h is at rest: the next access to its data clears its flag.
Rested(h) ==
  /\ LineIdle(h)
  /\ complete[h] => seen[h]
  /\ IsUsart(h) => ~complete[h] /\ rxbuf[h] = <<>>

\* A Write that fills the second register of a USART.
Ahead(h) == IsUsart(h) /\ op = "Write"

\* What the flags of h say in the call that uses it.
Phase(h) ==
  /\ pc = "Raise" => Rested(h)
  /\ pc = "Store" => IF Ahead(h) THEN txbuf[h] = NoByte /\ ~complete[h] ELSE Rested(h)
  /\ pc = "Poll" =>
       IF Ahead(h) /\ ~last
       THEN shift[h] # NoByte /\ ~complete[h]
       ELSE /\ complete[h] <=> shift[h] = NoByte
            /\ ~seen[h]
            /\ ~Ahead(h) => txbuf[h] = NoByte
  /\ pc = "Take" => LineIdle(h) /\ (IsUsart(h) \/ seen[h]) /\ op = "Read"
  /\ pc = "Clear" => LineIdle(h) /\ IsUsart(h)

\* A piece of hardware is at rest, but for the one a call uses.
HwOK(h) ==
  /\ txbuf[h] # NoByte => shift[h] # NoByte
  /\ IsUsart(h) => ~seen[h]
  /\ IF pc = "Idle" \/ h # Hw(PortNumber) THEN Rested(h) ELSE Phase(h)

\* That holds unless a Write has left it waiting.
AtRest == \A h \in Hardware \ late : HwOK(h)

\* The two halves of TypeOK.
CallType ==
  /\ pc \in {"Idle", "Store", "Poll", "Take", "Clear", "Raise"}
  /\ op \in {"Write", "Read"}
  /\ PortNumber \in Enabled
  /\ \E n \in 0..MaxSize : ptrData \in [0..(n - 1) -> Byte]
  /\ pc # "Idle" => DataSize \in DOMAIN ptrData /\ Data \in Byte
  /\ pc \in {"Poll", "Take"} => ReadIndex \in DOMAIN ptrData
  /\ last \in BOOLEAN
  /\ selected = IF pc = "Idle" THEN {} ELSE {PortNumber}
  /\ enabled \in {{}, Hardware}

HardwareType ==
  /\ txbuf \in [Hardware -> Byte \union {NoByte}]
  /\ shift \in [Hardware -> Byte \union {NoByte}]
  /\ rxbuf \in [Hardware -> Seq(Byte)]
  /\ complete \in [Hardware -> BOOLEAN]
  /\ seen \in [Hardware -> BOOLEAN]
  /\ late \subseteq Hardware

IInv == CallType /\ HardwareType /\ AtRest

LEMMA TypeHalves == TypeOK <=> CallType /\ HardwareType
BY DEF TypeOK, CallType, HardwareType

LEMMA HwType == PortNumber \in Enabled => Hw(PortNumber) \in Hardware
BY DEF Hardware

LEMMA EmptyBuffer == <<>> \in [0..(0 - 1) -> Byte]
OBVIOUS

\* Everything is at rest at first.
LEMMA InitIInv == Init => IInv
<1> SUFFICES ASSUME Init PROVE IInv
  OBVIOUS
<1>1. \E n \in 0..MaxSize : ptrData \in [0..(n - 1) -> Byte]
  <2>1. 0 \in 0..MaxSize
    BY SpiDriverAssumption
  <2>2. ptrData \in [0..(0 - 1) -> Byte]
    BY EmptyBuffer DEF Init
  <2> QED BY <2>1, <2>2
<1>2. CallType
  BY <1>1 DEF Init, CallType
<1>3. HardwareType
  <2>1. <<>> \in Seq(Byte)
    OBVIOUS
  <2> QED BY <2>1 DEF Init, HardwareType
<1>4. AtRest
  BY DEF Init, AtRest, HwOK, Rested, LineIdle
<1> QED BY <1>2, <1>3, <1>4 DEF IInv

\* A call begins with hardware at rest.
LEMMA SelectStep ==
  ASSUME IInv, NEW o \in {"Write", "Read"}, NEW p \in Enabled, NEW n \in 1..MaxSize,
         NEW buf \in [0..(n - 1) -> Byte], Select(o, p, n, buf)
  PROVE  IInv'
<1>1. CallType'
  <2>1. /\ n \in 0..MaxSize /\ n - 1 \in 0..(n - 1)
        /\ buf[n - 1] \in Byte
        /\ DOMAIN buf = 0..(n - 1)
    BY SpiDriverAssumption
  <2>2. \E m \in 0..MaxSize : buf \in [0..(m - 1) -> Byte]
    BY <2>1
  <2> QED BY <2>1, <2>2 DEF IInv, CallType, Select
<1>2. HardwareType'
  BY DEF IInv, HardwareType, Select, hwVars
<1>3. AtRest'
  <2> SUFFICES ASSUME NEW h \in Hardware \ late PROVE HwOK(h)'
    BY DEF AtRest, Select
  <2>1. Rested(h) /\ HwOK(h)
    BY DEF IInv, AtRest, HwOK, Select
  <2>2. UNCHANGED <<txbuf, shift, rxbuf, complete, seen>> /\ pc' = "Store"
    BY DEF Select, hwVars
  <2> QED BY <2>1, <2>2 DEF HwOK, Phase, Rested, LineIdle, Ahead
<1> QED BY <1>1, <1>2, <1>3 DEF IInv

\* A byte is handed to hardware that takes it.
LEMMA StoreStep == ASSUME IInv, Store PROVE IInv'
<1> DEFINE H == Hw(PortNumber)
<1>1. H \in Hardware /\ PortNumber' = PortNumber
  BY HwType DEF IInv, CallType, Store
<1>2. Data \in Byte /\ Data # NoByte
  BY SpiDriverAssumption DEF IInv, CallType, Store
<1>3. CallType'
  <2>1. PICK n \in 0..MaxSize : ptrData \in [0..(n - 1) -> Byte]
    BY DEF IInv, CallType
  <2>2. n \in Nat /\ DataSize \in 0..(n - 1) /\ DOMAIN ptrData = 0..(n - 1)
    BY <2>1, SpiDriverAssumption DEF IInv, CallType, Store
  <2>3. ptrData[DataSize'] \in Byte /\ DataSize' \in 0..(n - 1) /\ Data' \in Byte
    BY <1>2, <2>1, <2>2 DEF Store, Advance
  <2> QED BY <2>1, <2>2, <2>3 DEF IInv, CallType, Store, Advance
<1>4. HardwareType'
  BY <1>1, <1>2 DEF IInv, HardwareType, Store, StoreDATA, ClearSeen, history
<1>5. AtRest'
  <2> SUFFICES ASSUME NEW h \in Hardware \ late PROVE HwOK(h)'
    BY DEF AtRest, Store, history
  <2>1. HwOK(h)
    BY DEF IInv, AtRest
  <2>2. CASE h # H
    BY <1>1, <2>1, <2>2 DEF HwOK, Rested, LineIdle, IInv, HardwareType, Store, StoreDATA, ClearSeen
  <2>3. CASE h = H
    <3>1. Phase(h) /\ txbuf[h] = NoByte /\ (complete[h] => seen[h])
      BY <2>1, <2>3 DEF HwOK, Phase, Rested, LineIdle, Store
    <3>2. shift'[h] # NoByte /\ (~Ahead(h) => txbuf'[h] = NoByte)
      BY <1>1, <1>2, <2>3, <3>1 DEF Phase, Rested, LineIdle, Ahead, IInv, HardwareType, Store, StoreDATA
    <3>3. ~complete'[h] /\ ~seen'[h]
      BY <1>1, <2>3, <3>1 DEF IInv, HardwareType, Store, ClearSeen
    <3> QED BY <1>1, <2>3, <3>2, <3>3 DEF HwOK, Phase, Ahead, Store
  <2> QED BY <2>2, <2>3
<1> QED BY <1>3, <1>4, <1>5 DEF IInv

\* The call goes on when its hardware is ready for what comes next.
LEMMA PollStep == ASSUME IInv, Poll PROVE IInv'
<1> DEFINE H == Hw(PortNumber)
<1>1. H \in Hardware /\ PortNumber' = PortNumber
  BY HwType DEF IInv, CallType, Poll
<1>2. CallType'
  BY DEF IInv, CallType, Poll, NextByte
<1>3. HardwareType'
  BY <1>1 DEF IInv, HardwareType, Poll, history
<1>4. AtRest'
  <2> SUFFICES ASSUME NEW h \in Hardware \ late PROVE HwOK(h)'
    BY DEF AtRest, Poll, history
  <2>1. HwOK(h)
    BY DEF IInv, AtRest
  <2>2. CASE h # H
    BY <1>1, <2>1, <2>2 DEF HwOK, Rested, LineIdle, IInv, HardwareType, Poll
  <2>3. CASE h = H /\ UNCHANGED <<pc, seen>>
    BY <2>1, <2>3 DEF HwOK, Phase, Rested, LineIdle, Ahead, Poll
  <2>4. CASE h = H /\ Awaited(h) /\ seen' = [seen EXCEPT ![h] = ~IsUsart(h)]
               /\ pc' = IF op = "Read" THEN "Take"
                        ELSE IF IsUsart(h) /\ last THEN "Clear" ELSE NextByte
    <3>1. seen'[h] = ~IsUsart(h)
      BY <2>4 DEF IInv, HardwareType
    <3>2. Phase(h) /\ op \in {"Write", "Read"}
      BY <2>1, <2>4 DEF HwOK, Poll, IInv, CallType
    <3>3. UNCHANGED <<op, last, txbuf, shift, rxbuf, complete>> /\ pc = "Poll"
      BY DEF Poll
    <3>4. CASE Ahead(h) /\ ~last
      BY <1>1, <2>4, <3>1, <3>2, <3>3, <3>4
         DEF HwOK, Phase, Ahead, Awaited, NextByte
    <3>5. CASE ~(Ahead(h) /\ ~last)
      <4>1. LineIdle(h) /\ complete[h]
        BY <2>1, <2>4, <3>2, <3>3, <3>5 DEF HwOK, Phase, Ahead, Awaited, LineIdle
      <4>2. LineIdle(h)'
        BY <3>3, <4>1 DEF LineIdle
      <4> QED BY <1>1, <2>1, <2>4, <3>1, <3>2, <3>3, <3>5, <4>1, <4>2
              DEF HwOK, Phase, Rested, LineIdle, Ahead, NextByte
    <3> QED BY <3>4, <3>5
  <2> QED BY <1>1, <2>2, <2>3, <2>4 DEF Poll
<1> QED BY <1>2, <1>3, <1>4 DEF IInv

\* A byte that came back is taken, with its frame at an end.
LEMMA TakeStep == ASSUME IInv, Take PROVE IInv'
<1> DEFINE H == Hw(PortNumber)
<1>1. H \in Hardware /\ PortNumber' = PortNumber
  BY HwType DEF IInv, CallType, Take
<1>2. PICK d \in Byte : ptrData' = [ptrData EXCEPT ![ReadIndex] = d]
  <2>1. rxbuf[H] \in Seq(Byte)
    BY <1>1 DEF IInv, HardwareType
  <2>2. rxbuf[H] # <<>> => Head(rxbuf[H]) \in Byte
    BY <2>1
  <2> QED BY <2>2 DEF Take
<1>3. CallType'
  <2>1. PICK n \in 0..MaxSize : ptrData \in [0..(n - 1) -> Byte]
    BY DEF IInv, CallType
  <2>2. ptrData' \in [0..(n - 1) -> Byte] /\ DOMAIN ptrData' = DOMAIN ptrData
    BY <1>2, <2>1
  <2> QED BY <2>2 DEF IInv, CallType, Take, NextByte
<1>4. HardwareType'
  <2>1. rxbuf[H] \in Seq(Byte)
    BY <1>1 DEF IInv, HardwareType
  <2>2. rxbuf[H] # <<>> => Tail(rxbuf[H]) \in Seq(Byte)
    BY <2>1
  <2>3. rxbuf' \in [Hardware -> Seq(Byte)]
    BY <1>1, <2>1, <2>2 DEF IInv, HardwareType, Take
  <2> QED BY <1>1, <2>3 DEF IInv, HardwareType, Take, ClearSeen, history
<1>5. AtRest'
  <2> SUFFICES ASSUME NEW h \in Hardware \ late PROVE HwOK(h)'
    BY DEF AtRest, Take, history
  <2>1. HwOK(h)
    BY DEF IInv, AtRest
  <2>2. CASE h # H
    BY <1>1, <2>1, <2>2 DEF HwOK, Rested, LineIdle, IInv, HardwareType, Take, ClearSeen
  <2>3. CASE h = H
    <3>1. LineIdle(h) /\ (IsUsart(h) \/ seen[h]) /\ op = "Read" /\ (IsUsart(h) => ~seen[h])
      BY <2>1, <2>3 DEF HwOK, Phase, Take
    <3>2. LineIdle(h)' /\ ~seen'[h] /\ (~IsUsart(h) => ~complete'[h])
      BY <1>1, <2>3, <3>1 DEF LineIdle, IInv, HardwareType, Take, ClearSeen
    <3> QED BY <1>1, <2>3, <3>1, <3>2 DEF HwOK, Phase, Rested, LineIdle, Ahead, Take, NextByte
  <2> QED BY <2>2, <2>3
<1> QED BY <1>3, <1>4, <1>5 DEF IInv

\* The flags are cleared with no frame left that could set them again.
LEMMA ClearStep == ASSUME IInv, Clear PROVE IInv'
<1> DEFINE H == Hw(PortNumber)
<1>1. H \in Hardware /\ PortNumber' = PortNumber
  BY HwType DEF IInv, CallType, Clear
<1>2. CallType'
  BY DEF IInv, CallType, Clear, NextByte
<1>3. HardwareType'
  <2>1. <<>> \in Seq(Byte)
    OBVIOUS
  <2> QED BY <1>1, <2>1 DEF IInv, HardwareType, Clear, Flags, history
<1>4. AtRest'
  <2> SUFFICES ASSUME NEW h \in Hardware \ late PROVE HwOK(h)'
    BY DEF AtRest, Clear, history
  <2>1. HwOK(h)
    BY DEF IInv, AtRest
  <2>2. CASE h # H
    BY <1>1, <2>1, <2>2 DEF HwOK, Rested, LineIdle, IInv, HardwareType, Clear, Flags
  <2>3. CASE h = H
    <3>1. LineIdle(h)' /\ IsUsart(h) /\ ~seen'[h]
      BY <2>1, <2>3 DEF HwOK, Phase, LineIdle, Clear
    <3>2. ~complete'[h] /\ rxbuf'[h] = <<>>
      BY <1>1, <2>3 DEF IInv, HardwareType, Clear, Flags
    <3> QED BY <1>1, <2>3, <3>1, <3>2 DEF HwOK, Phase, Rested, LineIdle, Ahead, Clear, NextByte
  <2> QED BY <2>2, <2>3
<1> QED BY <1>2, <1>3, <1>4 DEF IInv

\* A call ends with its hardware at rest, and its chip the only one selected.
LEMMA RaiseStep == ASSUME IInv, Raise PROVE IInv'
<1>1. CallType'
  BY DEF IInv, CallType, Raise
<1>2. HardwareType'
  BY DEF IInv, HardwareType, Raise, hwVars, history
<1>3. AtRest'
  <2> SUFFICES ASSUME NEW h \in Hardware \ late PROVE HwOK(h)'
    BY DEF AtRest, Raise, history
  <2>1. HwOK(h)
    BY DEF IInv, AtRest
  <2> QED BY <2>1 DEF HwOK, Phase, Rested, LineIdle, Raise, hwVars
<1> QED BY <1>1, <1>2, <1>3 DEF IInv

\* A frame ends: a Write that is not ready with its next byte has left its
\* hardware waiting, and no other call can be taken by surprise.
LEMMA EndFrameStep ==
  ASSUME IInv, NEW g \in Hardware, NEW d \in Byte, EndFrame(g, d)
  PROVE  IInv'
<1>1. CallType'
  BY DEF IInv, CallType, EndFrame, callVars
<1>2. HardwareType'
  <2>1. rxbuf[g] \in Seq(Byte) /\ <<d>> \in Seq(Byte)
    BY DEF IInv, HardwareType
  <2>2. Append(rxbuf[g], d) \in Seq(Byte)
    BY <2>1
  <2>3. rxbuf' \in [Hardware -> Seq(Byte)]
    BY <2>1, <2>2 DEF IInv, HardwareType, EndFrame
  <2>4. late' \subseteq Hardware
    BY DEF IInv, HardwareType, EndFrame
  <2> QED BY <2>3, <2>4 DEF IInv, HardwareType, EndFrame
<1>3. AtRest'
  <2> SUFFICES ASSUME NEW h \in Hardware, h \notin late' PROVE HwOK(h)'
    BY DEF AtRest
  <2>1. HwOK(h) /\ UNCHANGED callVars
    BY DEF IInv, AtRest, EndFrame
  <2>2. CASE h # g
    BY <2>1, <2>2 DEF HwOK, Phase, Rested, LineIdle, Ahead, IInv, HardwareType, EndFrame, callVars
  <2>3. CASE h = g
    <3>1. shift[h] # NoByte
      BY <2>3 DEF EndFrame
    <3>2. /\ h = Hw(PortNumber) /\ Phase(h)
          /\ pc \in {"Store", "Poll"}
      BY <2>1, <3>1 DEF HwOK, Phase, Rested, LineIdle, IInv, CallType
    <3>3. /\ shift'[h] = txbuf[h] /\ txbuf'[h] = NoByte
          /\ seen'[h] = FALSE
          /\ complete'[h] <=> complete[h] \/ txbuf[h] = NoByte
      BY <2>3 DEF IInv, HardwareType, EndFrame
    <3>4. ~(IsUsart(h) /\ txbuf[h] = NoByte /\ WriteUnderWay(h))
      BY <2>3 DEF EndFrame
    <3>5. pc = "Poll"
      BY <3>1, <3>2, <3>4 DEF Phase, Rested, LineIdle, Ahead, WriteUnderWay
    <3>6. CASE Ahead(h) /\ ~last
      BY <2>1, <3>2, <3>3, <3>4, <3>5, <3>6 DEF HwOK, Phase, Ahead, WriteUnderWay, callVars
    <3>7. CASE ~(Ahead(h) /\ ~last)
      BY <2>1, <3>1, <3>2, <3>3, <3>5, <3>7 DEF HwOK, Phase, Ahead, callVars
    <3> QED BY <3>6, <3>7
  <2> QED BY <2>2, <2>3
<1> QED BY <1>1, <1>2, <1>3 DEF IInv

LEMMA StepIInv == IInv /\ [Next]_vars => IInv'
<1> SUFFICES ASSUME IInv, [Next]_vars PROVE IInv'
  OBVIOUS
<1>1. CASE MasterSPI_Config
  BY <1>1 DEF IInv, CallType, HardwareType, AtRest, HwOK, Phase, Rested, LineIdle, Ahead,
              MasterSPI_Config, callVars, hwVars, history
<1>2. CASE \E o \in {"Write", "Read"}, p \in Enabled, n \in 1..MaxSize :
             \E buf \in [0..(n - 1) -> Byte] : Select(o, p, n, buf)
  BY <1>2, SelectStep
<1>3. CASE Steps
  BY <1>3, StoreStep, PollStep, TakeStep, ClearStep, RaiseStep DEF Steps
<1>4. CASE \E h \in Hardware, d \in Byte : EndFrame(h, d)
  BY <1>4, EndFrameStep
<1>5. CASE UNCHANGED vars
  BY <1>5 DEF IInv, CallType, HardwareType, AtRest, HwOK, Phase, Rested, LineIdle, Ahead,
              vars, callVars, hwVars, history
<1> QED BY <1>1, <1>2, <1>3, <1>4, <1>5 DEF Next

LEMMA IInvAlways == Spec => []IInv
BY InitIInv, StepIInv, PTL DEF Spec

\* Every variable has its type; the index of a transfer stays inside the caller's
\* buffer, and one chip is selected during a call, none between calls.
THEOREM TypeCorrect == Spec => []TypeOK
<1>1. IInv => TypeOK
  BY TypeHalves DEF IInv
<1> QED BY <1>1, IInvAlways, PTL

\* A call leaves nothing behind that the next one could take for its own, unless a
\* Write was held up.
THEOREM CallsLeaveNothing == Spec => []NothingLeft
<1>1. IInv => NothingLeft
  BY DEF IInv, AtRest, HwOK, Rested, LineIdle, NothingLeft
<1> QED BY <1>1, IInvAlways, PTL

--------------------------------------------------------------------------------
(* The driver implements the bus.  The histories say how far a call has come. *)

\* So many bytes of the call have been handed to the hardware,
Stored ==
  IF pc = "Idle" \/ (pc # "Store" /\ last) THEN Len(asked) ELSE Len(asked) - 1 - DataSize

\* so many of them are still there,
Flying(h) == IF shift[h] = NoByte THEN 0 ELSE IF txbuf[h] = NoByte THEN 1 ELSE 2

\* and so many answers have been stored.
Taken ==
  IF op = "Write" THEN 0 ELSE IF pc \in {"Poll", "Take"} THEN Stored - 1 ELSE Stored

HistoryType ==
  /\ asked \in Seq(Byte) /\ sent \in Seq(Byte) /\ received \in Seq(Byte)
  /\ ptrData \in [0..(Len(asked) - 1) -> Byte]
  /\ Len(received) = Len(sent)
  /\ pc # "Idle" => asked # <<>>

\* Where the call is in its buffer.
Position ==
  /\ pc \in {"Poll", "Take"} => ReadIndex = Len(asked) - Stored
  /\ pc # "Idle" /\ Stored < Len(asked) => Data = asked[Stored + 1]
  /\ pc = "Raise" => last

\* What is on the line comes after what was.
Sending(h) ==
  /\ Len(sent) + Flying(h) = Stored
  /\ \A i \in 1..Len(sent) : sent[i] = asked[i]
  /\ shift[h] # NoByte => shift[h] = asked[Len(sent) + 1]
  /\ txbuf[h] # NoByte => txbuf[h] = asked[Len(sent) + 2]

\* The buffer holds the answers up to there, and what was asked behind.
Receiving(h) ==
  /\ \A i \in 1..Len(asked) :
       ptrData[Len(asked) - i] = IF i <= Taken THEN received[i] ELSE asked[i]
  /\ op = "Read" /\ pc = "Poll" /\ shift[h] # NoByte => (IsUsart(h) => rxbuf[h] = <<>>)
  /\ op = "Read" /\ pc \in {"Poll", "Take"} /\ shift[h] = NoByte =>
       rxbuf[h] = <<received[Len(received)]>>

HInv ==
  /\ HistoryType
  /\ LET h == Hw(PortNumber) IN h \notin late => Position /\ Sending(h) /\ Receiving(h)

LEMMA InitHInv == Init => HInv
<1> SUFFICES ASSUME Init PROVE HInv
  OBVIOUS
<1>1. Hw(PortNumber) \in Hardware
  BY HwType DEF Init
<1>2. HistoryType
  <2>1. <<>> \in Seq(Byte) /\ Len(<<>>) = 0
    OBVIOUS
  <2> QED BY <2>1, EmptyBuffer DEF Init, HistoryType
<1>3. shift[Hw(PortNumber)] = NoByte /\ txbuf[Hw(PortNumber)] = NoByte
  BY <1>1 DEF Init
<1>4. Position /\ Sending(Hw(PortNumber)) /\ Receiving(Hw(PortNumber))
  BY <1>3 DEF Init, Position, Sending, Receiving, Stored, Flying, Taken
<1> QED BY <1>2, <1>4 DEF HInv

\* The facts about the call's hardware and its buffer that the steps need.
LEMMA CallFacts ==
  ASSUME IInv, HInv
  PROVE  /\ Hw(PortNumber) \in Hardware
         /\ op \in {"Write", "Read"}
         /\ Len(asked) \in Nat /\ Len(sent) \in Nat
         /\ DOMAIN ptrData = 0..(Len(asked) - 1)
         /\ pc # "Idle" => DataSize \in 0..(Len(asked) - 1)
         /\ Stored \in Int
         /\ Hw(PortNumber) \notin late =>
              HwOK(Hw(PortNumber)) /\ Position /\ Sending(Hw(PortNumber)) /\ Receiving(Hw(PortNumber))
<1>1. /\ Len(asked) \in Nat /\ Len(sent) \in Nat
      /\ DOMAIN ptrData = 0..(Len(asked) - 1)
  BY DEF HInv, HistoryType
<1>2. pc # "Idle" => DataSize \in 0..(Len(asked) - 1)
  BY <1>1 DEF IInv, CallType
<1>3. Stored \in Int
  BY <1>1, <1>2 DEF Stored
<1>4. Hw(PortNumber) \in Hardware /\ op \in {"Write", "Read"}
  BY HwType DEF IInv, CallType
<1> QED BY <1>1, <1>2, <1>3, <1>4 DEF IInv, AtRest, HInv

\* A call that begins on hardware at rest.
LEMMA SelectHInv ==
  ASSUME IInv, HInv, NEW o \in {"Write", "Read"}, NEW p \in Enabled, NEW n \in 1..MaxSize,
         NEW buf \in [0..(n - 1) -> Byte], Select(o, p, n, buf)
  PROVE  HInv'
<1>1. n \in Nat /\ n >= 1
  BY SpiDriverAssumption
<1>2. /\ asked' = [i \in 1..n |-> buf[n - i]]
      /\ \A i \in 1..n : buf[n - i] \in Byte
  BY <1>1 DEF Select
<1>3. asked' \in Seq(Byte) /\ Len(asked') = n
  BY <1>1, <1>2
<1>4. /\ sent' = <<>> /\ received' = <<>>
      /\ ptrData' = buf /\ DataSize' = n - 1 /\ Data' = buf[n - 1]
      /\ pc' = "Store" /\ op' = o /\ PortNumber' = p
      /\ UNCHANGED <<late, shift, txbuf, rxbuf>>
  BY DEF Select, hwVars
<1>5. HistoryType'
  <2>1. <<>> \in Seq(Byte)
    OBVIOUS
  <2>2. asked' # <<>>
    BY <1>1, <1>3
  <2> QED BY <1>3, <1>4, <2>1, <2>2 DEF HistoryType
<1>6. ASSUME Hw(p) \notin late PROVE Position' /\ Sending(Hw(p))' /\ Receiving(Hw(p))'
  <2>1. shift[Hw(p)] = NoByte /\ txbuf[Hw(p)] = NoByte
    <3>1. Hw(p) \in Hardware
      BY DEF Hardware
    <3> QED BY <1>6, <3>1 DEF IInv, AtRest, HwOK, Rested, LineIdle, Select
  <2>2. Stored' = 0 /\ Flying(Hw(p))' = 0 /\ Taken' = 0
    BY <1>1, <1>3, <1>4, <2>1 DEF Stored, Flying, Taken
  <2>3. asked'[1] = buf[n - 1]
    BY <1>1, <1>2
  <2>4. Position'
    BY <1>1, <1>3, <1>4, <2>2, <2>3 DEF Position
  <2>5. Sending(Hw(p))'
    BY <1>4, <2>1, <2>2 DEF Sending
  <2>6. Receiving(Hw(p))'
    BY <1>1, <1>2, <1>3, <1>4, <2>1, <2>2 DEF Receiving
  <2> QED BY <2>4, <2>5, <2>6
<1> QED BY <1>4, <1>5, <1>6 DEF HInv

\* One more byte is handed over, the one after those that have been.
LEMMA StoreHInv == ASSUME IInv, HInv, Store PROVE HInv'
<1> DEFINE h == Hw(PortNumber)
<1>1. UNCHANGED <<op, PortNumber, ptrData, rxbuf, late, asked, sent, received>> /\ pc' = "Poll" /\ pc = "Store"
  BY DEF Store, history
<1>2. HistoryType'
  BY <1>1 DEF HInv, HistoryType
<1>3. ASSUME h \notin late PROVE Position' /\ Sending(h)' /\ Receiving(h)'
  <2>1. /\ HwOK(h) /\ Position /\ Sending(h) /\ Receiving(h)
        /\ Len(asked) \in Nat /\ Len(sent) \in Nat
        /\ DataSize \in 0..(Len(asked) - 1)
        /\ Stored = Len(asked) - 1 - DataSize
        /\ h \in Hardware /\ op \in {"Write", "Read"}
    BY <1>1, <1>3, CallFacts DEF Stored
  <2>2. Stored' = Stored + 1 /\ Taken' = Taken
    <3>1. CASE DataSize = 0
      <4>1. last'
        BY <3>1 DEF Store, Advance
      <4> QED BY <1>1, <2>1, <3>1, <4>1 DEF Stored, Taken
    <3>2. CASE DataSize # 0
      <4>1. ~last' /\ DataSize' = DataSize - 1
        BY <3>2 DEF Store, Advance
      <4> QED BY <1>1, <2>1, <3>2, <4>1 DEF Stored, Taken
    <3> QED BY <3>1, <3>2
  <2>3. Data = asked[Stored + 1] /\ Data # NoByte
    BY <1>1, <2>1, SpiDriverAssumption DEF Position, IInv, CallType
  <2>4. /\ txbuf[h] = NoByte
        /\ ~Ahead(h) => shift[h] = NoByte /\ (IsUsart(h) => rxbuf[h] = <<>>)
    BY <1>1, <2>1 DEF HwOK, Phase, Rested, LineIdle
  <2>5. Position'
    <3>1. ReadIndex' = Len(asked) - Stored'
      BY <2>1, <2>2 DEF Store
    <3>2. ASSUME Stored' < Len(asked) PROVE Data' = asked[Stored' + 1]
      <4>1. DataSize # 0 /\ Data' = ptrData[DataSize - 1]
        BY <2>1, <2>2, <3>2 DEF Store, Advance
      <4>2. Stored' + 1 \in 1..Len(asked) /\ Stored' + 1 > Taken
        BY <1>1, <2>1, <2>2, <3>2 DEF Taken
      <4>3. ptrData[Len(asked) - (Stored' + 1)] = asked[Stored' + 1]
        BY <2>1, <2>2, <4>2 DEF Receiving, Taken
      <4> QED BY <2>1, <2>2, <4>1, <4>3
    <3> QED BY <1>1, <3>1, <3>2 DEF Position
  <2>6. Sending(h)'
    <3>1. CASE shift[h] = NoByte
      <4>1. shift'[h] = Data /\ txbuf'[h] = NoByte
        BY <2>1, <2>4, <3>1 DEF IInv, HardwareType, Store, StoreDATA
      <4> QED BY <1>1, <2>1, <2>2, <2>3, <3>1, <4>1 DEF Sending, Flying
    <3>2. CASE shift[h] # NoByte
      <4>1. shift'[h] = shift[h] /\ txbuf'[h] = Data
        BY <2>1, <2>4, <3>2 DEF Ahead, IInv, HardwareType, Store, StoreDATA
      <4> QED BY <1>1, <2>1, <2>2, <2>3, <2>4, <3>2, <4>1 DEF Sending, Flying
    <3> QED BY <3>1, <3>2
  <2>7. Receiving(h)'
    <3>1. op = "Read" => shift'[h] # NoByte /\ (IsUsart(h) => rxbuf[h] = <<>>)
      BY <2>1, <2>3, <2>4 DEF Ahead, IInv, HardwareType, Store, StoreDATA
    <3> QED BY <1>1, <2>1, <2>2, <3>1 DEF Receiving
  <2> QED BY <2>5, <2>6, <2>7
<1> QED BY <1>1, <1>2, <1>3 DEF HInv

\* Nothing moves while the status is read.
LEMMA PollHInv == ASSUME IInv, HInv, Poll PROVE HInv'
<1> DEFINE h == Hw(PortNumber)
<1>1. /\ UNCHANGED <<op, PortNumber, ptrData, DataSize, Data, ReadIndex, last, txbuf, shift, rxbuf,
                     late, asked, sent, received>>
      /\ pc = "Poll"
  BY DEF Poll, history
<1>2. HistoryType'
  BY <1>1 DEF HInv, HistoryType
<1>3. ASSUME h \notin late PROVE Position' /\ Sending(h)' /\ Receiving(h)'
  <2>1. HwOK(h) /\ Position /\ Sending(h) /\ Receiving(h) /\ op \in {"Write", "Read"}
    BY <1>3, CallFacts
  <2>2. CASE pc' = "Poll"
    BY <1>1, <2>1, <2>2 DEF Position, Sending, Receiving, Stored, Flying, Taken
  <2>3. CASE pc' = "Take" /\ op = "Read"
    <3>1. shift[h] = NoByte
      BY <1>1, <2>1, <2>3 DEF Poll, Awaited, HwOK, Phase, Ahead
    <3> QED BY <1>1, <2>1, <2>3, <3>1 DEF Position, Sending, Receiving, Stored, Flying, Taken
  <2>4. CASE op = "Write" /\ ((pc' = "Clear" /\ last) \/ pc' = NextByte)
    BY <1>1, <2>1, <2>4 DEF Position, Sending, Receiving, Stored, Flying, Taken, NextByte
  <2> QED BY <1>1, <2>1, <2>2, <2>3, <2>4 DEF Poll
<1> QED BY <1>1, <1>2, <1>3 DEF HInv

\* The answer to the last byte sent replaces it.
LEMMA TakeHInv == ASSUME IInv, HInv, Take PROVE HInv'
<1> DEFINE h == Hw(PortNumber)
<1>1. /\ UNCHANGED <<op, PortNumber, DataSize, Data, ReadIndex, last, txbuf, shift,
                     late, asked, sent, received>>
      /\ pc = "Take" /\ pc' \in {"Clear", "Raise", "Store"}
      /\ pc' = "Clear" \/ pc' = NextByte
  BY DEF Take, NextByte, history
<1>2. PICK d : /\ d \in IF rxbuf[h] = <<>> THEN Byte ELSE {Head(rxbuf[h])}
               /\ ptrData' = [ptrData EXCEPT ![ReadIndex] = d]
  BY DEF Take
<1>3. HistoryType'
  <2>1. rxbuf[h] \in Seq(Byte)
    BY CallFacts DEF IInv, HardwareType
  <2>2. d \in Byte
    BY <1>2, <2>1
  <2>3. ptrData' \in [0..(Len(asked) - 1) -> Byte]
    BY <1>2, <2>2 DEF HInv, HistoryType
  <2> QED BY <1>1, <2>3 DEF HInv, HistoryType
<1>4. ASSUME h \notin late PROVE Position' /\ Sending(h)' /\ Receiving(h)'
  <2>1. /\ HwOK(h) /\ Position /\ Sending(h) /\ Receiving(h)
        /\ Len(asked) \in Nat /\ Len(sent) \in Nat /\ Len(received) = Len(sent)
        /\ DOMAIN ptrData = 0..(Len(asked) - 1)
        /\ DataSize \in 0..(Len(asked) - 1)
        /\ Stored \in Int
    BY <1>1, <1>4, CallFacts DEF HInv, HistoryType
  <2>2. /\ shift[h] = NoByte /\ op = "Read"
        /\ Len(sent) = Stored /\ Taken = Stored - 1
        /\ ReadIndex = Len(asked) - Stored
        /\ Stored \in 1..Len(asked)
    <3>1. shift[h] = NoByte /\ op = "Read"
      BY <1>1, <2>1 DEF HwOK, Phase, LineIdle
    <3>2. ReadIndex \in 0..(Len(asked) - 1)
      BY <1>1, <2>1 DEF IInv, CallType
    <3> QED BY <1>1, <2>1, <3>1, <3>2 DEF Position, Sending, Flying, Taken
  <2>3. Stored' = Stored /\ Taken' = Stored
    BY <1>1, <2>1, <2>2 DEF Stored, Taken, NextByte
  <2>4. d = received[Stored]
    <3>1. rxbuf[h] = <<received[Stored]>>
      BY <1>1, <2>1, <2>2 DEF Receiving
    <3>2. rxbuf[h] # <<>> /\ Head(rxbuf[h]) = received[Stored]
      BY <3>1
    <3> QED BY <1>2, <3>2
  <2>5. Position'
    BY <1>1, <2>1, <2>3 DEF Position, NextByte
  <2>6. Sending(h)'
    BY <1>1, <2>1, <2>3 DEF Sending, Flying
  <2>7. Receiving(h)'
    <3> SUFFICES ASSUME NEW i \in 1..Len(asked)
                 PROVE  ptrData'[Len(asked) - i] = IF i <= Stored THEN received[i] ELSE asked[i]
      BY <1>1, <2>3 DEF Receiving
    <3>1. Len(asked) - i \in 0..(Len(asked) - 1)
      BY <2>1
    <3>2. CASE i = Stored
      BY <1>2, <2>1, <2>2, <2>4, <3>1, <3>2
    <3>3. CASE i # Stored
      <4>1. ptrData'[Len(asked) - i] = ptrData[Len(asked) - i]
        BY <1>2, <2>1, <2>2, <3>1, <3>3
      <4>2. i <= Stored <=> i <= Taken
        BY <2>2, <3>3
      <4> QED BY <2>1, <4>1, <4>2 DEF Receiving
    <3> QED BY <3>2, <3>3
  <2> QED BY <2>5, <2>6, <2>7
<1> QED BY <1>1, <1>3, <1>4 DEF HInv

\* Clearing the flags loses nothing that is still to be read.
LEMMA ClearHInv == ASSUME IInv, HInv, Clear PROVE HInv'
<1> DEFINE h == Hw(PortNumber)
<1>1. /\ UNCHANGED <<op, PortNumber, ptrData, DataSize, Data, ReadIndex, last, txbuf, shift,
                     late, asked, sent, received>>
      /\ pc = "Clear" /\ pc' = NextByte
  BY DEF Clear, history
<1>2. HistoryType'
  BY <1>1 DEF HInv, HistoryType, NextByte
<1>3. ASSUME h \notin late PROVE Position' /\ Sending(h)' /\ Receiving(h)'
  <2>1. Position /\ Sending(h) /\ Receiving(h)
    BY <1>3, CallFacts
  <2> QED BY <1>1, <2>1 DEF Position, Sending, Receiving, Stored, Flying, Taken, NextByte
<1> QED BY <1>1, <1>2, <1>3 DEF HInv

\* The call is over when its last byte has been handed over.
LEMMA RaiseHInv == ASSUME IInv, HInv, Raise PROVE HInv'
<1> DEFINE h == Hw(PortNumber)
<1>1. /\ UNCHANGED <<op, PortNumber, ptrData, DataSize, Data, ReadIndex, last, txbuf, shift, rxbuf,
                     late, asked, sent, received>>
      /\ pc = "Raise" /\ pc' = "Idle"
  BY DEF Raise, history, hwVars
<1>2. HistoryType'
  BY <1>1 DEF HInv, HistoryType
<1>3. ASSUME h \notin late PROVE Position' /\ Sending(h)' /\ Receiving(h)'
  <2>1. Position /\ Sending(h) /\ Receiving(h)
    BY <1>3, CallFacts
  <2> QED BY <1>1, <2>1 DEF Position, Sending, Receiving, Stored, Flying, Taken
<1> QED BY <1>1, <1>2, <1>3 DEF HInv

\* The byte on the line is the next one of the call.
LEMMA EndFrameHInv ==
  ASSUME IInv, HInv, NEW g \in Hardware, NEW d \in Byte, EndFrame(g, d)
  PROVE  HInv'
<1> DEFINE h == Hw(PortNumber)
<1>1. UNCHANGED <<pc, op, PortNumber, ptrData, DataSize, Data, ReadIndex, last, asked>> /\ late \subseteq late'
  BY DEF EndFrame, callVars
<1>2. CASE g # h
  <2>1. UNCHANGED <<sent, received>> /\ h \in Hardware
    BY <1>2, CallFacts DEF EndFrame
  <2>2. shift'[h] = shift[h] /\ txbuf'[h] = txbuf[h] /\ rxbuf'[h] = rxbuf[h]
    BY <1>2, <2>1 DEF IInv, HardwareType, EndFrame
  <2>3. HistoryType'
    BY <1>1, <2>1 DEF HInv, HistoryType
  <2>4. Hw(PortNumber') \notin late' => Position' /\ Sending(h)' /\ Receiving(h)'
    BY <1>1, <2>1, <2>2 DEF HInv, Position, Sending, Receiving, Stored, Flying, Taken
  <2> QED BY <1>1, <2>3, <2>4 DEF HInv
<1>3. CASE g = h
  <2>1. /\ sent' = Append(sent, shift[h]) /\ received' = Append(received, d)
        /\ shift[h] \in Byte /\ shift[h] # NoByte
    BY <1>3 DEF EndFrame, IInv, HardwareType
  <2>2. /\ sent \in Seq(Byte) /\ received \in Seq(Byte) /\ Len(received) = Len(sent)
        /\ asked \in Seq(Byte)
    BY DEF HInv, HistoryType
  <2>3. /\ sent' \in Seq(Byte) /\ received' \in Seq(Byte)
        /\ Len(sent') = Len(sent) + 1 /\ Len(received') = Len(sent) + 1
        /\ \A i \in 1..Len(sent) : sent'[i] = sent[i] /\ received'[i] = received[i]
        /\ sent'[Len(sent) + 1] = shift[h] /\ received'[Len(sent) + 1] = d
    BY <2>1, <2>2
  <2>4. HistoryType'
    BY <1>1, <2>3 DEF HInv, HistoryType
  <2>5. ASSUME h \notin late' PROVE Position' /\ Sending(h)' /\ Receiving(h)'
    <3>1. /\ HwOK(h) /\ Position /\ Sending(h) /\ Receiving(h) /\ h \in Hardware
          /\ Stored \in Int /\ Len(asked) \in Nat /\ Len(sent) \in Nat
      BY <1>1, <2>5, CallFacts
    <3>2. shift'[h] = txbuf[h] /\ txbuf'[h] = NoByte
      BY <1>3, <3>1 DEF IInv, HardwareType, EndFrame
    <3>3. Stored' = Stored /\ Taken' = Taken
      BY <1>1 DEF Stored, Taken
    <3>4. Position'
      BY <1>1, <3>1, <3>3 DEF Position
    <3>5. Sending(h)'
      <4>1. Len(sent') + Flying(h)' = Stored'
        BY <1>1, <2>1, <2>3, <3>1, <3>2, <3>3 DEF Sending, Flying
      <4>2. \A i \in 1..Len(sent') : sent'[i] = asked[i]
        BY <2>1, <2>3, <3>1 DEF Sending
      <4>3. txbuf[h] # NoByte => txbuf[h] = asked[Len(sent') + 1]
        BY <2>3, <3>1 DEF Sending
      <4> QED BY <1>1, <3>2, <4>1, <4>2, <4>3 DEF Sending
    <3>6. Receiving(h)'
      <4>1. pc \in {"Store", "Poll"}
        BY <2>1, <3>1 DEF HwOK, Phase, Rested, LineIdle, IInv, CallType
      <4>2. Taken <= Len(sent)
        <5>1. op = "Read" => txbuf[h] = NoByte /\ pc = "Poll"
          BY <2>1, <3>1, <4>1 DEF HwOK, Phase, Rested, LineIdle, Ahead
        <5>2. op = "Read" => Taken = Len(sent)
          BY <2>1, <3>1, <5>1 DEF Sending, Flying, Taken
        <5> QED BY <3>1, <5>2 DEF Taken, IInv, CallType
      <4>3. \A i \in 1..Len(asked) :
              ptrData[Len(asked) - i] = IF i <= Taken THEN received'[i] ELSE asked[i]
        <5> SUFFICES ASSUME NEW i \in 1..Len(asked), i <= Taken
                     PROVE  ptrData[Len(asked) - i] = received'[i]
          BY <3>1 DEF Receiving
        <5>1. i \in 1..Len(sent)
          BY <3>1, <4>2 DEF Taken
        <5> QED BY <2>3, <3>1, <5>1 DEF Receiving
      <4>4. op = "Read" => /\ shift'[h] = NoByte
                           /\ rxbuf'[h] = <<d>>
        <5> SUFFICES ASSUME op = "Read" PROVE shift'[h] = NoByte /\ rxbuf'[h] = <<d>>
          OBVIOUS
        <5>1. txbuf[h] = NoByte /\ pc = "Poll"
          BY <2>1, <3>1, <4>1 DEF HwOK, Phase, Rested, LineIdle, Ahead
        <5>2. IsUsart(h) => rxbuf[h] = <<>>
          BY <2>1, <3>1, <5>1 DEF Receiving
        <5>3. IsUsart(h) => rxbuf'[h] = Append(<<>>, d)
          BY <1>3, <5>2, <3>1 DEF EndFrame, IInv, HardwareType
        <5>4. ~IsUsart(h) => rxbuf'[h] = <<d>>
          BY <1>3, <3>1 DEF EndFrame, IInv, HardwareType
        <5> QED BY <3>2, <5>1, <5>3, <5>4
      <4> QED BY <1>1, <2>3, <3>3, <4>3, <4>4 DEF Receiving
    <3> QED BY <3>4, <3>5, <3>6
  <2> QED BY <1>1, <2>4, <2>5 DEF HInv
<1> QED BY <1>2, <1>3

LEMMA StepHInv == IInv /\ HInv /\ [Next]_vars => HInv'
<1> SUFFICES ASSUME IInv, HInv, [Next]_vars PROVE HInv'
  OBVIOUS
<1>1. CASE MasterSPI_Config
  BY <1>1 DEF HInv, HistoryType, Position, Sending, Receiving, Stored, Flying, Taken,
              MasterSPI_Config, callVars, hwVars, history
<1>2. CASE \E o \in {"Write", "Read"}, p \in Enabled, n \in 1..MaxSize :
             \E buf \in [0..(n - 1) -> Byte] : Select(o, p, n, buf)
  BY <1>2, SelectHInv
<1>3. CASE Steps
  BY <1>3, StoreHInv, PollHInv, TakeHInv, ClearHInv, RaiseHInv DEF Steps
<1>4. CASE \E h \in Hardware, d \in Byte : EndFrame(h, d)
  BY <1>4, EndFrameHInv
<1>5. CASE UNCHANGED vars
  BY <1>5 DEF HInv, HistoryType, Position, Sending, Receiving, Stored, Flying, Taken,
              vars, callVars, hwVars, history
<1> QED BY <1>1, <1>2, <1>3, <1>4, <1>5 DEF Next

LEMMA HInvAlways == Spec => [](IInv /\ HInv)
<1>1. Init => IInv /\ HInv
  BY InitIInv, InitHInv
<1>2. IInv /\ HInv /\ [Next]_vars => (IInv /\ HInv)'
  BY StepIInv, StepHInv
<1> QED BY <1>1, <1>2, PTL DEF Spec

\* A call is not over while its last byte is under way, and what it answers then
\* is what has come back.
LEMMA RaiseRefines ==
  ASSUME IInv, HInv, Raise, Hw(PortNumber) \notin late
  PROVE  Bus!Deselect
<1> DEFINE h == Hw(PortNumber)
<1>1. /\ HwOK(h) /\ Position /\ Sending(h) /\ Receiving(h)
      /\ Len(asked) \in Nat /\ pc = "Raise" /\ last
      /\ op \in {"Write", "Read"}
  BY CallFacts DEF Raise, Position
<1>2. Len(sent) = Len(asked)
  BY <1>1 DEF HwOK, Phase, Rested, LineIdle, Sending, Flying, Stored
<1>3. sent = asked
  <2>1. asked \in Seq(Byte) /\ sent \in Seq(Byte)
    BY DEF HInv, HistoryType
  <2>2. \A i \in 1..Len(asked) : sent[i] = asked[i]
    BY <1>1, <1>2 DEF Sending
  <2> QED BY <1>2, <2>1, <2>2
<1>4. Answer' \in {<<>>, received}
  <2>1. CASE op = "Write"
    BY <2>1 DEF Answer, Raise
  <2>2. CASE op = "Read"
    <3>1. Answer' = [i \in 1..Len(asked) |-> ptrData[Len(asked) - i]]
      BY <2>2 DEF Answer, Raise, history
    <3>2. received \in Seq(Byte) /\ Len(received) = Len(asked)
      BY <1>2 DEF HInv, HistoryType
    <3>3. \A i \in 1..Len(asked) : ptrData[Len(asked) - i] = received[i]
      <4>1. Taken = Len(asked)
        BY <1>1, <2>2 DEF Taken, Stored
      <4> QED BY <1>1, <4>1 DEF Receiving
    <3>4. Answer' = [i \in 1..Len(asked) |-> received[i]]
      BY <3>1, <3>3
    <3> QED BY <3>2, <3>4
  <2> QED BY <1>1, <2>1, <2>2
<1>5. selected # {} /\ selected' = {}
  BY <1>1 DEF IInv, CallType, Raise
<1> QED BY <1>3, <1>4, <1>5 DEF Bus!Deselect, Raise, history

\* A frame that ends exchanges the next byte of the call.
LEMMA EndFrameRefines ==
  ASSUME IInv, HInv, NEW d \in Byte, EndFrame(Hw(PortNumber), d),
         Hw(PortNumber) \notin late
  PROVE  Bus!Exchange(d)
<1> DEFINE h == Hw(PortNumber)
<1>1. /\ HwOK(h) /\ Sending(h) /\ shift[h] # NoByte
      /\ Len(asked) \in Nat /\ Len(sent) \in Nat
  BY CallFacts DEF EndFrame
<1>2. pc \in {"Store", "Poll"}
  BY <1>1 DEF HwOK, Phase, Rested, LineIdle, IInv, CallType
<1>3. /\ selected # {} /\ DataSize \in 0..(Len(asked) - 1)
  BY <1>2, CallFacts DEF IInv, CallType
<1>4. Len(sent) < Len(asked)
  BY <1>1, <1>2, <1>3 DEF Sending, Flying, Stored
<1>5. sent' = Append(sent, asked[Len(sent) + 1]) /\ received' = Append(received, d)
  BY <1>1 DEF Sending, EndFrame
<1>6. Answer' = Answer
  BY <1>2 DEF Answer, EndFrame, callVars
<1> QED BY <1>3, <1>4, <1>5, <1>6 DEF Bus!Exchange, EndFrame

\* A call begins with no chip selected, and with no answer yet.
LEMMA SelectRefines ==
  ASSUME IInv, NEW o \in {"Write", "Read"}, NEW p \in Enabled, NEW n \in 1..MaxSize,
         NEW buf \in [0..(n - 1) -> Byte], Select(o, p, n, buf)
  PROVE  Bus!Select(p)
<1>1. n \in Nat /\ n >= 1
  BY SpiDriverAssumption
<1>2. asked' \in Seq(Byte) /\ asked' # <<>>
  <2>1. \A i \in 1..n : buf[n - i] \in Byte
    BY <1>1
  <2>2. asked' \in Seq(Byte) /\ Len(asked') = n
    BY <1>1, <2>1 DEF Select
  <2> QED BY <1>1, <2>2
<1>3. selected = {} /\ selected' = {p}
  BY DEF IInv, CallType, Select
<1>4. Answer' = <<>>
  BY DEF Answer, Select
<1> QED BY <1>2, <1>3, <1>4 DEF Bus!Select, Select

\* All bytes of a call go out in their order, to a chip that stays selected until
\* the last one has, and a Read stores each answer where the byte was that it
\* answers: the driver implements the bus, but for Writes that are held up.
THEOREM DriverImplementsBus == Spec => ImplementsSpiBus
<1>1. Init => Bus!Init
  BY DEF Init, Bus!Init, Answer
<1>2. IInv /\ HInv /\ [Next]_vars => [Hw(PortNumber') \notin late' => Bus!Next]_(Bus!vars)
  <2> SUFFICES ASSUME IInv, HInv, [Next]_vars, Hw(PortNumber') \notin late'
               PROVE  Bus!Next \/ UNCHANGED Bus!vars
    OBVIOUS
  <2>1. CASE MasterSPI_Config
    BY <2>1 DEF MasterSPI_Config, IInv, CallType, Bus!vars, Answer, callVars, history
  <2>2. CASE \E o \in {"Write", "Read"}, p \in Enabled, n \in 1..MaxSize :
               \E buf \in [0..(n - 1) -> Byte] : Select(o, p, n, buf)
    BY <2>2, SelectRefines DEF Bus!Next
  <2>3. CASE Store \/ Poll \/ Take \/ Clear
    BY <2>3 DEF Store, Poll, Take, Clear, NextByte, history, Bus!vars, Answer
  <2>4. CASE Raise
    BY <2>4, RaiseRefines DEF Bus!Next, Raise, history
  <2>5. CASE \E h \in Hardware, d \in Byte : EndFrame(h, d)
    <3>1. PICK h \in Hardware, d \in Byte : EndFrame(h, d)
      BY <2>5
    <3>2. CASE h = Hw(PortNumber)
      <4>1. Hw(PortNumber) \notin late
        BY <3>1, <3>2 DEF EndFrame, callVars
      <4> QED BY <3>1, <3>2, <4>1, EndFrameRefines DEF Bus!Next
    <3>3. CASE h # Hw(PortNumber)
      BY <3>1, <3>3 DEF EndFrame, callVars, Bus!vars, Answer
    <3> QED BY <3>2, <3>3
  <2>6. CASE UNCHANGED vars
    BY <2>6 DEF vars, callVars, history, Bus!vars, Answer
  <2> QED BY <2>1, <2>2, <2>3, <2>4, <2>5, <2>6 DEF Next, Steps
<1> QED BY <1>1, <1>2, HInvAlways, PTL DEF Spec, ImplementsSpiBus
================================================================================
