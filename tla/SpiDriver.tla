------------------------------- MODULE SpiDriver -------------------------------
(***************************************************************************)
(* The polling SPI driver of the RF-control boards                          *)
(* (src/drivers/adx_rfctl_SPI_Driver.cpp).  A call selects a chip, sends    *)
(* its bytes from the last one of the buffer to the first, and lets the     *)
(* chip go; all ports go through the same steps, on one of five pieces of   *)
(* hardware that several of them share.                                     *)
(*                                                                          *)
(* The hardware is of two kinds.  An SPI takes one byte at a time and marks *)
(* the end of each.  A USART in SPI mode has a second register behind the   *)
(* one that is shifted out: a Write fills it up as soon as it is empty and  *)
(* waits for the end only after its last byte.                              *)
(*                                                                          *)
(* Calls never overlap, since a task that calls the driver does not come    *)
(* back to its dispatcher.  Interrupt handlers do run in between, and take  *)
(* any time: a frame may end between any two steps of a call.  The speed    *)
(* only says how long a frame takes, which is left open.  A port that is    *)
(* not in the mask and a call for no bytes do nothing but report an error.  *)
(***************************************************************************)
EXTENDS Integers, Sequences

CONSTANTS Enabled,   \* RFCTL_SPI_PORT_MASK, as a set of port numbers
          Byte,
          NoByte,
          MaxSize    \* a bound on the size of a call: 255 in the code

ASSUME SpiDriverAssumption ==
  /\ Enabled \subseteq 0..9
  /\ NoByte \notin Byte
  /\ MaxSize \in 1..255

\* The hardware a port is a pin of.
Hw(PortNumber) ==
  CASE PortNumber \in {0, 7} -> "SPIE"
    [] PortNumber \in {1, 6} -> "SPID"
    [] PortNumber \in {2, 5} -> "SPIC"
    [] PortNumber \in {3, 4} -> "USARTC0"
    [] PortNumber \in {8, 9} -> "USARTF0"

Hardware == {Hw(p) : p \in Enabled}

IsUsart(h) == h \in {"USARTC0", "USARTF0"}

VARIABLES
  pc, op, PortNumber,
  ptrData,      \* the bytes of the caller
  DataSize,     \* the index of the next one
  Data,         \* the next one to be sent
  ReadIndex,    \* the index of the one last sent
  last,         \* there is no next one
  selected,     \* the ports whose chip is selected
  enabled,      \* the hardware MasterSPI_Config has switched on
  txbuf,        \* the second register of a USART
  shift,        \* the byte on the line
  rxbuf,        \* what has come back and not been read
  complete,     \* the flag for a frame that has ended
  seen,         \* an SPI's flag has been read while set, so an access to its data clears it
  late,         \* USARTs a Write left without a byte to send before its last one (history)
  asked, sent, received   \* the bytes of the call, in the order on the line (history)

callVars == <<pc, op, PortNumber, ptrData, DataSize, Data, ReadIndex, last>>
hwVars == <<txbuf, shift, rxbuf, complete, seen>>
history == <<late, asked, sent, received>>
vars == <<callVars, selected, enabled, hwVars, history>>

Init ==
  /\ pc = "Idle" /\ op = "Write" /\ PortNumber \in Enabled
  /\ ptrData = <<>>
  /\ DataSize = 0 /\ Data = NoByte /\ ReadIndex = 0 /\ last = FALSE
  /\ selected = {} /\ enabled = {}
  /\ txbuf = [h \in Hardware |-> NoByte]
  /\ shift = [h \in Hardware |-> NoByte]
  /\ rxbuf = [h \in Hardware |-> <<>>]
  /\ complete = [h \in Hardware |-> FALSE]
  /\ seen = [h \in Hardware |-> FALSE]
  /\ late = {} /\ asked = <<>> /\ sent = <<>> /\ received = <<>>

--------------------------------------------------------------------------------
(* The hardware *)

\* A byte is written to the data register of h; one too many is ignored.
StoreDATA(h, d) ==
  /\ shift' = IF shift[h] = NoByte THEN [shift EXCEPT ![h] = d] ELSE shift
  /\ txbuf' = IF shift[h] # NoByte /\ IsUsart(h) /\ txbuf[h] = NoByte
              THEN [txbuf EXCEPT ![h] = d] ELSE txbuf

\* An access to the data register of an SPI after its flag has been seen.
ClearSeen(h) ==
  /\ complete' = [complete EXCEPT ![h] = @ /\ ~seen[h]]
  /\ seen' = [seen EXCEPT ![h] = FALSE]

\* A Write to h has more bytes to send.
WriteUnderWay(h) ==
  op = "Write" /\ Hw(PortNumber) = h /\ (pc = "Store" \/ (pc = "Poll" /\ ~last))

\* A frame ends: the chip's answer d is in the receive buffer, of two bytes in a
\* USART, and the next byte follows, if there is one.
EndFrame(h, d) ==
  /\ shift[h] # NoByte
  /\ shift' = [shift EXCEPT ![h] = txbuf[h]]
  /\ txbuf' = [txbuf EXCEPT ![h] = NoByte]
  /\ complete' = [complete EXCEPT ![h] = @ \/ txbuf[h] = NoByte]
  /\ seen' = [seen EXCEPT ![h] = FALSE]
  /\ rxbuf' = [rxbuf EXCEPT ![h] = IF ~IsUsart(h) THEN <<d>>
                                   ELSE IF Len(@) < 2 THEN Append(@, d) ELSE @]
  /\ late' = IF IsUsart(h) /\ txbuf[h] = NoByte /\ WriteUnderWay(h)
             THEN late \union {h} ELSE late
  /\ IF h = Hw(PortNumber)
     THEN sent' = Append(sent, shift[h]) /\ received' = Append(received, d)
     ELSE UNCHANGED <<sent, received>>
  /\ UNCHANGED <<callVars, selected, enabled, asked>>

--------------------------------------------------------------------------------
(* The driver *)

\* MasterSPI_Config: the chips are not selected, the hardware is switched on.
MasterSPI_Config ==
  /\ pc = "Idle"
  /\ selected' = {}
  /\ enabled' = Hardware
  /\ UNCHANGED <<callVars, hwVars, history>>

\* MasterSPI_Write and MasterSPI_Read for the n bytes of buf, once the hardware
\* is switched on.
Select(o, p, n, buf) ==
  /\ pc = "Idle" /\ Hw(p) \in enabled
  /\ pc' = "Store" /\ op' = o /\ PortNumber' = p
  /\ ptrData' = buf
  /\ DataSize' = n - 1
  /\ Data' = buf[n - 1]
  /\ selected' = selected \union {p}
  /\ asked' = [i \in 1..n |-> buf[n - i]]
  /\ sent' = <<>> /\ received' = <<>>
  /\ UNCHANGED <<ReadIndex, last, enabled, hwVars, late>>

\* The size is taken down by one whatever it is, and wraps.
Advance_Unchecked ==
  /\ last' = (DataSize = 0)
  /\ DataSize' = (DataSize - 1) % 256
  /\ Data' = ptrData[IF DataSize = 0 THEN 0 ELSE DataSize - 1]

\* The next byte is fetched, before the answer to this one is stored.
Advance ==
  /\ last' = (DataSize = 0)
  /\ DataSize' = IF DataSize = 0 THEN 0 ELSE DataSize - 1
  /\ Data' = IF DataSize = 0 THEN Data ELSE ptrData[DataSize - 1]

\* A byte is written to the data register.
Store ==
  LET h == Hw(PortNumber) IN
  /\ pc = "Store"
  /\ StoreDATA(h, Data) /\ ClearSeen(h)
  /\ ReadIndex' = DataSize
  /\ Advance
  /\ pc' = "Poll"
  /\ UNCHANGED <<op, PortNumber, ptrData, selected, enabled, rxbuf, history>>

\* A Write to a USART waits for an empty register after its last byte, too.
Awaited_Register(h) ==
  IF IsUsart(h) /\ op = "Write" THEN txbuf[h] = NoByte ELSE complete[h]

\* The loops go on while the flag is set.
Awaited_Inverted(h) ==
  IF IsUsart(h) /\ op = "Write" /\ ~last THEN txbuf[h] # NoByte ELSE ~complete[h]

\* What is polled for: a Write to a USART goes on when the second register is
\* empty, except after its last byte; everything else when a frame has ended.
Awaited(h) ==
  IF IsUsart(h) /\ op = "Write" /\ ~last THEN txbuf[h] = NoByte ELSE complete[h]

\* After a byte comes the next, or the end.
NextByte == IF last THEN "Raise" ELSE "Store"

\* The status register is read, again and again until it shows what is awaited.
Poll ==
  LET h == Hw(PortNumber) IN
  /\ pc = "Poll"
  /\ \/ ~Awaited(h) /\ UNCHANGED <<pc, seen>>
     \/ /\ Awaited(h)
        /\ seen' = [seen EXCEPT ![h] = ~IsUsart(h)]
        /\ pc' = IF op = "Read" THEN "Take"
                 ELSE IF IsUsart(h) /\ last THEN "Clear" ELSE NextByte
  /\ UNCHANGED <<op, PortNumber, ptrData, DataSize, Data, ReadIndex, last,
                 selected, enabled, txbuf, shift, rxbuf, complete, history>>

\* What came back is stored where the byte was; an empty buffer gives anything.
Take ==
  LET h == Hw(PortNumber) IN
  /\ pc = "Take"
  /\ \E d \in IF rxbuf[h] = <<>> THEN Byte ELSE {Head(rxbuf[h])} :
       ptrData' = [ptrData EXCEPT ![ReadIndex] = d]
  /\ rxbuf' = [rxbuf EXCEPT ![h] = IF @ = <<>> \/ ~IsUsart(h) THEN @ ELSE Tail(@)]
  /\ ClearSeen(h)
  /\ pc' = IF IsUsart(h) THEN "Clear" ELSE NextByte
  /\ UNCHANGED <<op, PortNumber, DataSize, Data, ReadIndex, last,
                 selected, enabled, txbuf, shift, history>>

\* The flag for received bytes is not cleared.
Flags_TransmitOnly(h) ==
  complete' = [complete EXCEPT ![h] = FALSE] /\ UNCHANGED rxbuf

\* Writing ones to the two flags of a USART clears them, and what has been
\* received is given up with its flag.
Flags(h) ==
  complete' = [complete EXCEPT ![h] = FALSE] /\ rxbuf' = [rxbuf EXCEPT ![h] = <<>>]

Clear ==
  /\ pc = "Clear"
  /\ Flags(Hw(PortNumber))
  /\ pc' = NextByte
  /\ UNCHANGED <<op, PortNumber, ptrData, DataSize, Data, ReadIndex, last,
                 selected, enabled, txbuf, shift, seen, history>>

\* The chip is let go.
Raise ==
  /\ pc = "Raise"
  /\ selected' = selected \ {PortNumber}
  /\ pc' = "Idle"
  /\ UNCHANGED <<op, PortNumber, ptrData, DataSize, Data, ReadIndex, last,
                 enabled, hwVars, history>>

Steps == Store \/ Poll \/ Take \/ Clear \/ Raise

Next ==
  \/ MasterSPI_Config
  \/ \E o \in {"Write", "Read"}, p \in Enabled, n \in 1..MaxSize :
       \E buf \in [0..(n - 1) -> Byte] : Select(o, p, n, buf)
  \/ Steps
  \/ \E h \in Hardware, d \in Byte : EndFrame(h, d)

\* The processor goes on with a call, and a frame comes to its end.
Fairness ==
  /\ WF_vars(Steps)
  /\ \A h \in Hardware : WF_vars(\E d \in Byte : EndFrame(h, d))

Spec == Init /\ [][Next]_vars
FairSpec == Spec /\ Fairness
--------------------------------------------------------------------------------
(* Properties *)

\* Every variable has its type; the index stays inside the caller's buffer.
TypeOK ==
  /\ pc \in {"Idle", "Store", "Poll", "Take", "Clear", "Raise"}
  /\ op \in {"Write", "Read"}
  /\ PortNumber \in Enabled
  /\ \E n \in 0..MaxSize : ptrData \in [0..(n - 1) -> Byte]
  /\ pc # "Idle" => DataSize \in DOMAIN ptrData /\ Data \in Byte
  /\ pc \in {"Poll", "Take"} => ReadIndex \in DOMAIN ptrData
  /\ last \in BOOLEAN
  /\ selected = IF pc = "Idle" THEN {} ELSE {PortNumber}
  /\ enabled \in {{}, Hardware}
  /\ txbuf \in [Hardware -> Byte \union {NoByte}]
  /\ shift \in [Hardware -> Byte \union {NoByte}]
  /\ rxbuf \in [Hardware -> Seq(Byte)]
  /\ complete \in [Hardware -> BOOLEAN]
  /\ seen \in [Hardware -> BOOLEAN]
  /\ late \subseteq Hardware

\* A call leaves nothing behind that the next one could take for its own: no byte
\* on the line, and with a USART no flag and no byte that came back.  Not so after
\* a Write that was held up between two bytes.
NothingLeft ==
  pc = "Idle" => \A h \in Hardware \ late :
    /\ shift[h] = NoByte /\ txbuf[h] = NoByte
    /\ IsUsart(h) => ~complete[h] /\ rxbuf[h] = <<>>
    /\ complete[h] => seen[h]

Answer ==
  IF pc = "Idle" /\ op = "Read"
  THEN [i \in 1..Len(asked) |-> ptrData[Len(asked) - i]] ELSE <<>>

Bus == INSTANCE SpiBus WITH Chip <- Enabled, answer <- Answer

\* All bytes go out, in their order, to a chip that stays selected until the last
\* one has, and a Read stores each answer where the byte was that it answers; a
\* hold-up of a Write between two bytes is the only thing that may spoil it.
ImplementsSpiBus == Bus!Init /\ [][Hw(PortNumber') \notin late' => Bus!Next]_(Bus!vars)

\* Every call returns, after a hold-up too.
CallsReturn == pc # "Idle" ~> pc = "Idle"
================================================================================
