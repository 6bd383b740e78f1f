---------------------------- MODULE SystemQueueOps ----------------------------
(***************************************************************************)
(* The operators of SystemQueue_t (src/core/adx_SystemQueue.h): a ring of   *)
(* SIZE cells addressed by two free-running indices of type uint8_t, the    *)
(* cell of an index being the index masked with SIZE - 1.  Here a queue is  *)
(* a record of its cells and its two indices, and every operation is an     *)
(* operator from queue to queue; EventSystem and RecursiveMutex call them   *)
(* inside a critical section, where they are atomic.  The module            *)
(* SystemQueue opens the same operations into their separate memory         *)
(* accesses.                                                                *)
(***************************************************************************)
EXTENDS Integers

CONSTANTS IndexMod,  \* number of values of an index: 256 for uint8_t
          Null       \* the content of a cell that holds nothing

\* A power of two not above IndexMod / 2 divides IndexMod: this is what the
\* three static_asserts on SIZE are for.
ASSUME IndexModAssumption == IndexMod \in Nat \ {0}

ValidSize(size) ==
  /\ size \in Nat \ {0}
  /\ 2 * size <= IndexMod
  /\ \E k \in 1..IndexMod : IndexMod = k * size

Queues(size, Entry) == [cell : [0..(size - 1) -> Entry],
                        put  : 0..(IndexMod - 1),
                        get  : 0..(IndexMod - 1)]

EmptyQueue(size) == [cell |-> [c \in 0..(size - 1) |-> Null], put |-> 0, get |-> 0]

\* uint8_t(PutIndex - GetIndex)
Used(q) == (q.put - q.get) % IndexMod

\* x & ~Mask is zero exactly when x < SIZE, SIZE being a power of two.
IsNotFull(q, size) == Used(q) < size

IsNotEmpty(q) == q.put # q.get

PutCell(q, size) == q.put % size
GetCell(q, size) == q.get % size

\* PutE and Put on a queue that is not full; PutE also returns PutCell.
Put(q, size, x) == [q EXCEPT !.cell[PutCell(q, size)] = x,
                             !.put = (@ + 1) % IndexMod]

\* What Get copies out of a queue that is not empty.
Front(q, size) == q.cell[GetCell(q, size)]

\* Get on a queue that is not empty.  The cell it leaves keeps its old
\* content in the code, where nothing reads it again before it is written;
\* the model empties it, so that two queues with the same live cells are
\* the same queue.
Get(q, size) == [q EXCEPT !.cell[GetCell(q, size)] = Null,
                          !.get = (@ + 1) % IndexMod]

\* The cells between GetIndex and PutIndex.
LiveCells(q, size) == {(q.get + i) % size : i \in 0..(Used(q) - 1)}
================================================================================
