------------------------------ MODULE SystemQueue ------------------------------
(***************************************************************************)
(* SystemQueue_t (src/core/adx_SystemQueue.h) without the critical sections *)
(* its users put around it: the code itself marks nothing but the increment *)
(* of an index as atomic ("Enter Atomic").  One producer and one consumer,  *)
(* each of whose accesses to the shared memory is a step of its own; the    *)
(* ring of DataQueue_t takes the same steps, and is used in this way.  Two  *)
(* bytes cross: PutIndex, written by the producer only, and GetIndex,       *)
(* written by the consumer only.  An interrupt handler in fact runs to its  *)
(* end once it has begun, in either role; the steps here may interleave at  *)
(* will, which includes that.                                               *)
(***************************************************************************)
EXTENDS SystemQueueOps, Sequences

CONSTANTS Data, SIZE

ASSUME SizeAssumption == ValidSize(SIZE) /\ Null \notin Data

VARIABLES
  data_array, PutIndex, GetIndex,  \* the members of the queue
  pcPut, putArg,                   \* the producer: its next access, its argument
  pcGet, rData,                    \* the consumer: its next access, its result
  got                              \* the last result returned (history)

vars == <<data_array, PutIndex, GetIndex, pcPut, putArg, pcGet, rData, got>>

Count == (PutIndex - GetIndex) % IndexMod

Init ==
  /\ data_array = [c \in 0..(SIZE - 1) |-> Null]
  /\ PutIndex = 0 /\ GetIndex = 0
  /\ pcPut = "Idle" /\ putArg = Null
  /\ pcGet = "Idle" /\ rData = Null
  /\ got = <<>>

--------------------------------------------------------------------------------
(* PutBegin_OffByOne, PutPublish_NoWrap and GetBegin_Unchecked are faulty     *)
(* variants, which a run puts in place of the operators they are named after. *)

PutBegin_OffByOne(x) ==
  /\ pcPut = "Idle"
  /\ putArg' = x
  /\ pcPut' = IF Count <= SIZE THEN "Write" ELSE "Idle"
  /\ UNCHANGED <<data_array, PutIndex, GetIndex, pcGet, rData, got>>

\* Put and PutE: look whether there is room ...
PutBegin(x) ==
  /\ pcPut = "Idle"
  /\ putArg' = x
  /\ pcPut' = IF Count < SIZE THEN "Write" ELSE "Idle"   \* IsNotFull
  /\ UNCHANGED <<data_array, PutIndex, GetIndex, pcGet, rData, got>>

\* ... write the element into its cell ...
PutWrite ==
  /\ pcPut = "Write"
  /\ data_array' = [data_array EXCEPT ![PutIndex % SIZE] = putArg]
  /\ pcPut' = "Publish"
  /\ UNCHANGED <<PutIndex, GetIndex, putArg, pcGet, rData, got>>

PutPublish_NoWrap ==
  /\ pcPut = "Publish"
  /\ PutIndex' = PutIndex + 1
  /\ pcPut' = "Idle"
  /\ UNCHANGED <<data_array, GetIndex, putArg, pcGet, rData, got>>

\* ... and only then move the index past it.
PutPublish ==
  /\ pcPut = "Publish"
  /\ PutIndex' = (PutIndex + 1) % IndexMod
  /\ pcPut' = "Idle"
  /\ UNCHANGED <<data_array, GetIndex, putArg, pcGet, rData, got>>

GetBegin_Unchecked ==
  /\ pcGet = "Idle"
  /\ pcGet' = "Read"
  /\ UNCHANGED <<data_array, PutIndex, GetIndex, pcPut, putArg, rData, got>>

\* Get: look whether there is anything ...
GetBegin ==
  /\ pcGet = "Idle"
  /\ PutIndex # GetIndex                                 \* IsNotEmpty
  /\ pcGet' = "Read"
  /\ UNCHANGED <<data_array, PutIndex, GetIndex, pcPut, putArg, rData, got>>

\* ... copy the front element out ...
GetRead ==
  /\ pcGet = "Read"
  /\ rData' = data_array[GetIndex % SIZE]
  /\ pcGet' = "Release"
  /\ UNCHANGED <<data_array, PutIndex, GetIndex, pcPut, putArg, got>>

\* ... and only then give its cell back.
GetRelease ==
  /\ pcGet = "Release"
  /\ GetIndex' = (GetIndex + 1) % IndexMod
  /\ got' = <<rData>>
  /\ pcGet' = "Idle"
  /\ UNCHANGED <<data_array, PutIndex, pcPut, putArg, rData>>

Next == \/ \E x \in Data : PutBegin(x)
        \/ PutWrite \/ PutPublish
        \/ GetBegin \/ GetRead \/ GetRelease

Spec == Init /\ [][Next]_vars

--------------------------------------------------------------------------------
(* Properties *)

\* Every variable has its type: the indices wrap and nothing but elements and
\* empty cells is ever copied.
TypeOK ==
  /\ data_array \in [0..(SIZE - 1) -> Data \cup {Null}]
  /\ PutIndex \in 0..(IndexMod - 1)
  /\ GetIndex \in 0..(IndexMod - 1)
  /\ pcPut \in {"Idle", "Write", "Publish"}
  /\ putArg \in Data \cup {Null}
  /\ pcGet \in {"Idle", "Read", "Release"}
  /\ rData \in Data \cup {Null}
  /\ got = <<>> \/ \E x \in Data \cup {Null} : got = <<x>>

\* What the producer and the consumer know half way through: the room and the
\* element they saw are still theirs, whatever the other did meanwhile.
Handshake ==
  /\ Count <= SIZE
  /\ pcPut # "Idle" => Count < SIZE /\ putArg \in Data
  /\ pcPut = "Publish" => data_array[PutIndex % SIZE] = putArg
  /\ pcGet # "Idle" => Count > 0
  /\ pcGet = "Release" => rData = data_array[GetIndex % SIZE]

\* The elements between the two indices, oldest first.
Contents == [i \in 1..Count |-> data_array[(GetIndex + i - 1) % SIZE]]

Fifo == INSTANCE BoundedFifo WITH buf <- Contents

\* No element is lost, repeated, reordered or torn, across the wrap of the
\* indices and with no critical section: the ring is a bounded FIFO whose
\* operations happen at the two index increments.
ImplementsFifo == Fifo!Spec
================================================================================
