--------------------------- MODULE EventSystemProofs ---------------------------
(***************************************************************************)
(* Theorems about EventSystem, for every set of events, every valid size of *)
(* the queues and every limit: the inductive invariant IInv, the safety     *)
(* properties it implies, when no queue can overflow, and that every step   *)
(* is a step of EventMailbox.                                               *)
(***************************************************************************)
EXTENDS EventSystem, SystemQueueOpsProofs, FiniteSetTheorems

\* A destroyed event is in no queue.
DeadUnqueued == \A e \in Event : ~alive[e] => slot[e] = NoSlot

QueueInv == SlotsMatchCells /\ DeadUnqueued

\* Between calls the dispatcher holds no event; during one, its stage had not
\* used up its successive calls.
HandedInv == /\ pc # "Task" => handed = Nothing
             /\ pc = "Task" => succ[stage] < MaxSucc[stage]

\* What makes TypeOK and the three safety invariants inductive together.
IInv == TypeOK /\ QueueInv /\ NoLostWakeup /\ HandedInv

--------------------------------------------------------------------------------
\* The part of the type invariant about slots and queues.
SlotType  == /\ slot \in [Event -> [level : Priority \cup {"None"}, cell : Nat]]
             /\ \A e \in Event : slot[e].level = "None" => slot[e] = NoSlot
QueueType == /\ DOMAIN queue = Priority
             /\ \A p \in Priority : /\ queue[p] \in Queues(Size[p], Entry)
                                    /\ Used(queue[p]) <= Size[p]

\* The rest of it.
Codes == {"None", "QueueOverflow", "EventCounterOverflow", "QueueOverload", "Requested"}
Status == [type : StatusTypes, code : Codes]
EventType == /\ alive \in [Event -> BOOLEAN]
             /\ mode \in [Event -> Mode]
             /\ counter \in [Event -> 0..MaxCounter]
             /\ priority \in [Event -> Priority]
LoopType  == /\ pc \in {"Start", "Status", "Poll", "Task", "Stopped"}
             /\ stage \in Priority
             /\ succ \in [Priority -> Nat] /\ \A p \in Priority : succ[p] <= MaxSucc[p]
             /\ handed \in [event : Entry, count : 0..MaxCounter]

\* TypeOK is the conjunction of the parts the lemmas below speak of.
LEMMA TypeParts ==
  /\ TypeOK <=> EventType /\ SlotType /\ QueueType /\ status \in Status /\ LoopType
  /\ TypeOK' <=> EventType' /\ SlotType' /\ QueueType' /\ status' \in Status /\ LoopType'
  BY DEF TypeOK, EventType, SlotType, QueueType, LoopType, Status, Codes

\* An error stays an error, and every report leaves a status.
LEMMA StatusFacts ==
  ASSUME NEW st \in Status, NEW c \in Codes
  PROVE  /\ RaiseError(st, c) \in Status /\ RaiseError(st, c).type = "Error"
         /\ RaiseWarning(st, c) \in Status /\ RaiseExit(st, c) \in Status
         /\ Fetched(st) \in Status
         /\ st.type = "Error" => /\ RaiseWarning(st, c).type = "Error"
                                 /\ RaiseExit(st, c).type = "Error"
                                 /\ Fetched(st).type = "Error"
  BY DEF Status, StatusTypes, Codes, OkStatus, RaiseError, RaiseWarning, RaiseExit, Fetched

\* A slot that names a cell is not the null pointer.
LEMMA SlotFacts ==
  ASSUME NEW p \in Priority, NEW c
  PROVE  /\ SlotOf(p, c) # NoSlot
         /\ SlotOf(p, c).level = p /\ SlotOf(p, c).cell = c
         /\ c \in Nat => SlotOf(p, c) \in [level : Priority \cup {"None"}, cell : Nat]
  BY DEF SlotOf, NoSlot, Priority

\* What the assumptions on the constants say of one priority.
LEMMA SizeFacts ==
  ASSUME NEW p \in Priority
  PROVE  /\ ValidSize(Size[p]) /\ Size[p] \in Nat \ {0}
         /\ Null \in Entry /\ Null \notin Event
  BY EventAssumption DEF ValidSize, Entry

\* SlotsMatchCells of given slots and queues.
Matched(sl, qu) ==
  /\ \A e \in Event : sl[e] # NoSlot =>
       /\ sl[e].level \in Priority
       /\ sl[e].cell \in LiveCells(qu[sl[e].level], Size[sl[e].level])
       /\ qu[sl[e].level].cell[sl[e].cell] = e
  /\ \A p \in Priority : \A c \in LiveCells(qu[p], Size[p]) :
       qu[p].cell[c] # Null => sl[qu[p].cell[c]] = SlotOf(p, c)

\* SlotsMatchCells, with the slots and the queues as parameters.
LEMMA MatchedDef ==
  /\ SlotsMatchCells <=> Matched(slot, queue)
  /\ SlotsMatchCells' <=> Matched(slot', queue')
  BY DEF SlotsMatchCells, Matched, Live

\* Filling a cell that was not live, for an event that had no slot.
LEMMA FillCell ==
  ASSUME NEW sl, NEW qu, NEW slx, NEW qux, Matched(sl, qu),
         NEW e \in Event, sl[e] = NoSlot,
         NEW p \in Priority, NEW c, c \notin LiveCells(qu[p], Size[p]),
         LiveCells(qux[p], Size[p]) = LiveCells(qu[p], Size[p]) \cup {c},
         qux[p].cell[c] = e,
         \A d \in LiveCells(qu[p], Size[p]) :
            d # c => qux[p].cell[d] = qu[p].cell[d],
         \A r \in Priority \ {p} : qux[r] = qu[r],
         slx[e] = SlotOf(p, c),
         \A f \in Event \ {e} : slx[f] = sl[f],
         \A r \in Priority : \A d \in LiveCells(qu[r], Size[r]) :
            qu[r].cell[d] \in Event \cup {Null}
  PROVE  Matched(slx, qux)
<1>1. e # Null
  BY EventAssumption
<1>2. ASSUME NEW f \in Event, slx[f] # NoSlot
      PROVE  /\ slx[f].level \in Priority
             /\ slx[f].cell \in LiveCells(qux[slx[f].level], Size[slx[f].level])
             /\ qux[slx[f].level].cell[slx[f].cell] = f
  <2>1. CASE f = e
    <3>1. slx[f].level = p /\ slx[f].cell = c
      BY <2>1, SlotFacts
    <3> QED BY <2>1, <3>1
  <2>2. CASE f # e
    <3>1. slx[f] = sl[f]
      BY <2>2
    <3>2. /\ sl[f].level \in Priority
          /\ sl[f].cell \in LiveCells(qu[sl[f].level], Size[sl[f].level])
          /\ qu[sl[f].level].cell[sl[f].cell] = f
      BY <1>2, <3>1 DEF Matched
    <3>3. CASE sl[f].level = p
      <4>1. sl[f].cell # c
        BY <3>2, <3>3
      <4> QED BY <3>1, <3>2, <3>3, <4>1
    <3>4. CASE sl[f].level # p
      BY <3>1, <3>2, <3>4
    <3> QED BY <3>3, <3>4
  <2> QED BY <2>1, <2>2
<1>3. ASSUME NEW r \in Priority, NEW d \in LiveCells(qux[r], Size[r]),
             qux[r].cell[d] # Null
      PROVE  slx[qux[r].cell[d]] = SlotOf(r, d)
  <2>1. CASE r = p /\ d = c
    BY <2>1
  <2>2. CASE ~(r = p /\ d = c)
    <3>1. d \in LiveCells(qu[r], Size[r]) /\ qux[r].cell[d] = qu[r].cell[d]
      BY <1>3, <2>2
    <3>2. sl[qu[r].cell[d]] = SlotOf(r, d) /\ qu[r].cell[d] \in Event
      BY <1>3, <3>1 DEF Matched
    <3>3. qu[r].cell[d] # e
      BY <3>2, SlotFacts
    <3> QED BY <3>1, <3>2, <3>3
  <2> QED BY <2>1, <2>2
<1> QED BY <1>2, <1>3 DEF Matched

\* Emptying the cell of an event, or taking the cell out of its queue, leaves
\* slots and cells matched once the event's slot is cleared.
LEMMA LeaveCell ==
  ASSUME NEW sl, NEW qu, NEW slx, NEW qux, Matched(sl, qu),
         NEW p \in Priority, NEW c \in LiveCells(qu[p], Size[p]),
         LiveCells(qux[p], Size[p]) \in
           {LiveCells(qu[p], Size[p]), LiveCells(qu[p], Size[p]) \ {c}},
         c \in LiveCells(qux[p], Size[p]) => qux[p].cell[c] = Null,
         \A d \in LiveCells(qu[p], Size[p]) :
            d # c => qux[p].cell[d] = qu[p].cell[d],
         \A r \in Priority \ {p} : qux[r] = qu[r],
         \A f \in Event : slx[f] = IF f = qu[p].cell[c] THEN NoSlot ELSE sl[f],
         \A r \in Priority : \A d \in LiveCells(qu[r], Size[r]) :
            qu[r].cell[d] \in Event \cup {Null}
  PROVE  Matched(slx, qux)
<1>1. ASSUME NEW f \in Event, slx[f] # NoSlot
      PROVE  /\ slx[f].level \in Priority
             /\ slx[f].cell \in LiveCells(qux[slx[f].level], Size[slx[f].level])
             /\ qux[slx[f].level].cell[slx[f].cell] = f
  <2>1. slx[f] = sl[f] /\ f # qu[p].cell[c]
    BY <1>1
  <2>2. /\ sl[f].level \in Priority
        /\ sl[f].cell \in LiveCells(qu[sl[f].level], Size[sl[f].level])
        /\ qu[sl[f].level].cell[sl[f].cell] = f
    BY <1>1, <2>1 DEF Matched
  <2>3. CASE sl[f].level = p
    <3>1. sl[f].cell # c
      BY <2>1, <2>2, <2>3
    <3> QED BY <2>1, <2>2, <2>3, <3>1
  <2>4. CASE sl[f].level # p
    BY <2>1, <2>2, <2>4
  <2> QED BY <2>3, <2>4
<1>2. ASSUME NEW r \in Priority, NEW d \in LiveCells(qux[r], Size[r]),
             qux[r].cell[d] # Null
      PROVE  slx[qux[r].cell[d]] = SlotOf(r, d)
  <2>1. ~(r = p /\ d = c)
    BY <1>2
  <2>2. d \in LiveCells(qu[r], Size[r]) /\ qux[r].cell[d] = qu[r].cell[d]
    BY <1>2, <2>1
  <2>3. sl[qu[r].cell[d]] = SlotOf(r, d) /\ qu[r].cell[d] \in Event
    BY <1>2, <2>2 DEF Matched
  <2>4. qu[r].cell[d] # qu[p].cell[c]
    <3> SUFFICES ASSUME qu[r].cell[d] = qu[p].cell[c] PROVE FALSE
      OBVIOUS
    <3>1. sl[qu[p].cell[c]] = SlotOf(p, c)
      BY <2>3, EventAssumption DEF Matched
    <3>2. SlotOf(p, c) = SlotOf(r, d)
      BY <2>3, <3>1
    <3>3. SlotOf(p, c).level = p /\ SlotOf(p, c).cell = c
          /\ SlotOf(r, d).level = r /\ SlotOf(r, d).cell = d
      BY SlotFacts
    <3> QED BY <2>1, <3>2, <3>3
  <2> QED BY <2>2, <2>3, <2>4
<1> QED BY <1>1, <1>2 DEF Matched

\* A live cell holds an event or nothing.
LEMMA LiveContent ==
  ASSUME QueueType
  PROVE  \A r \in Priority : \A d \in LiveCells(queue[r], Size[r]) :
           d \in Nat /\ queue[r].cell[d] \in Event \cup {Null}
  <1> TAKE r \in Priority
  <1> TAKE d \in LiveCells(queue[r], Size[r])
  <1>1. ValidSize(Size[r]) /\ Size[r] \in Nat
    BY SizeFacts
  <1>2. queue[r] \in Queues(Size[r], Entry)
    BY DEF QueueType
  <1>3. d \in 0..(Size[r] - 1) /\ queue[r].cell[d] \in Entry
    BY <1>1, <1>2, LiveInRange, Zenon
  <1> QED BY <1>1, <1>3 DEF Entry

\* Queueing an event that is in no queue keeps slots and cells matched, and
\* gives it a slot unless its queue is full.
LEMMA PutKeepsQueueInv ==
  ASSUME SlotType, QueueType, QueueInv,
         NEW e \in Event, alive[e], slot[e] = NoSlot, priority[e] \in Priority,
         alive' = alive, PutPtrEventInQueue(e)
  PROVE  /\ SlotType' /\ QueueType' /\ QueueInv'
         /\ Fits(e) => slot'[e] # NoSlot
         /\ \A f \in Event \ {e} : slot'[f] = slot[f]
<1>1. CASE ~Fits(e)
  <2>1. slot' = slot /\ queue' = queue
    BY <1>1 DEF PutPtrEventInQueue
  <2>2. SlotType' /\ QueueType'
    BY <2>1 DEF SlotType, QueueType
  <2>3. SlotsMatchCells' /\ DeadUnqueued'
    BY <2>1, MatchedDef DEF DeadUnqueued, QueueInv
  <2> QED BY <1>1, <2>1, <2>2, <2>3 DEF QueueInv
<1>2. CASE Fits(e)
  <2>1. PICK p \in Priority : p = priority[e]
    OBVIOUS
  <2>2. PICK c : c = PutCell(queue[p], Size[p])
    OBVIOUS
  <2>3. PICK q : q = Put(queue[p], Size[p], e)
    OBVIOUS
  <2>4. /\ queue' = [queue EXCEPT ![p] = q]
        /\ slot' = [slot EXCEPT ![e] = SlotOf(p, c)]
    BY <1>2, <2>1, <2>2, <2>3 DEF PutPtrEventInQueue
  <2>5. ValidSize(Size[p]) /\ Size[p] \in Nat \ {0} /\ e \in Entry
    BY SizeFacts DEF Entry
  <2>6. queue[p] \in Queues(Size[p], Entry) /\ IsNotFull(queue[p], Size[p])
    BY <1>2, <2>1 DEF QueueType, Fits
  <2>7. /\ q \in Queues(Size[p], Entry)
        /\ c \in 0..(Size[p] - 1)
        /\ c \notin LiveCells(queue[p], Size[p])
        /\ LiveCells(q, Size[p]) = LiveCells(queue[p], Size[p]) \cup {c}
        /\ q.cell[c] = e
        /\ \A d \in LiveCells(queue[p], Size[p]) :
             d # c => q.cell[d] = queue[p].cell[d]
        /\ Used(q) = Used(queue[p]) + 1
    <3>1. PICK qq, sz : qq = queue[p] /\ sz = Size[p]
      OBVIOUS
    <3>2. ValidSize(sz) /\ e \in Entry /\ qq \in Queues(sz, Entry) /\ IsNotFull(qq, sz)
      BY <2>5, <2>6, <3>1
    <3>3. c = PutCell(qq, sz) /\ q = Put(qq, sz, e)
      BY <2>2, <2>3, <3>1
    <3> QED BY <3>1, <3>2, <3>3, PutFacts
  <2>8. Used(q) <= Size[p]
    <3>1. Used(queue[p]) \in 0..(IndexMod - 1) /\ Used(queue[p]) < Size[p]
      BY <2>6, QueueIndices DEF IsNotFull
    <3> QED BY <2>5, <2>7, <3>1, IndexModAssumption
  <2>9. SlotOf(p, c) # NoSlot /\ SlotOf(p, c) \in [level : Priority \cup {"None"}, cell : Nat]
        /\ SlotOf(p, c).level # "None"
    BY <2>5, <2>7 DEF SlotOf, NoSlot, Priority
  <2>10. \A f \in Event : slot'[f] = IF f = e THEN SlotOf(p, c) ELSE slot[f]
    BY <2>4 DEF SlotType
  <2>11. \A r \in Priority : queue'[r] = IF r = p THEN q ELSE queue[r]
    BY <2>4 DEF QueueType
  <2>12. SlotType'
    BY <2>4, <2>9, <2>10 DEF SlotType
  <2>13. QueueType'
    BY <2>4, <2>7, <2>8, <2>11 DEF QueueType
  <2>14. SlotsMatchCells'
    <3>1. queue'[p] = q /\ \A r \in Priority \ {p} : queue'[r] = queue[r]
      BY <2>11
    <3>3. Matched(slot, queue)
      BY MatchedDef DEF QueueInv
    <3>4. Matched(slot', queue')
      BY <2>7, <2>10, <3>1, <3>3, LiveContent, FillCell
    <3> QED BY <3>4, MatchedDef
  <2>15. DeadUnqueued'
    BY <2>10 DEF DeadUnqueued, QueueInv
  <2> QED BY <2>9, <2>10, <2>12, <2>13, <2>14, <2>15 DEF QueueInv
<1> QED BY <1>1, <1>2
--------------------------------------------------------------------------------
(* The inductive invariant *)

\* Steps that touch neither slots nor queues keep what is known of them.
LEMMA QueueUnchanged ==
  ASSUME SlotType, QueueType, QueueInv, UNCHANGED <<alive, slot, queue>>
  PROVE  SlotType' /\ QueueType' /\ QueueInv'
<1>1. SlotType' /\ QueueType'
  BY DEF SlotType, QueueType
<1>2. SlotsMatchCells' /\ DeadUnqueued'
  BY MatchedDef DEF DeadUnqueued, QueueInv
<1> QED BY <1>1, <1>2 DEF QueueInv

\* The invariant holds before main() enters its loop.
LEMMA InitInv == Init => IInv
<1> SUFFICES ASSUME Init PROVE IInv
  OBVIOUS
<1>1. EventType /\ SlotType /\ LoopType /\ status \in Status
  <2>1. EventType
    BY EventAssumption DEF Init, EventType
  <2>2. SlotType
    BY DEF Init, SlotType, NoSlot
  <2>3. status \in Status
    BY DEF Init, Status, StatusTypes, Codes, OkStatus
  <2>4. Nothing \in [event : Entry, count : 0..MaxCounter]
    BY EventAssumption DEF Nothing, Entry
  <2>5. "High" \in Priority
    BY DEF Priority
  <2>6. succ \in [Priority -> Nat] /\ \A p \in Priority : succ[p] <= MaxSucc[p]
    BY EventAssumption DEF Init
  <2>7. LoopType
    BY <2>4, <2>5, <2>6 DEF Init, LoopType
  <2> QED BY <2>1, <2>2, <2>3, <2>7
<1>2. \A p \in Priority : /\ queue[p] = EmptyQueue(Size[p])
                           /\ queue[p] \in Queues(Size[p], Entry)
                           /\ Used(queue[p]) = 0
  <2> TAKE p \in Priority
  <2>1. queue[p] = EmptyQueue(Size[p])
    BY DEF Init
  <2>2. 0 \in 0..(IndexMod - 1) /\ Null \in Entry
    BY IndexModAssumption DEF Entry
  <2>3. EmptyQueue(Size[p]) \in Queues(Size[p], Entry)
    BY <2>2 DEF EmptyQueue, Queues
  <2>4. EmptyQueue(Size[p]).put = EmptyQueue(Size[p]).get
    BY DEF EmptyQueue
  <2>5. Used(queue[p]) = 0
    BY <2>1, <2>3, <2>4, QueueIndices
  <2> QED BY <2>1, <2>3, <2>5
<1>3. QueueType
  BY <1>2, SizeFacts DEF QueueType, Init
<1>4. QueueInv
  <2>1. \A p \in Priority : LiveCells(queue[p], Size[p]) = {}
    BY <1>2 DEF LiveCells
  <2>2. \A e \in Event : slot[e] = NoSlot
    BY DEF Init
  <2>3. Matched(slot, queue)
    BY <2>1, <2>2 DEF Matched
  <2> QED BY <2>2, <2>3, MatchedDef DEF QueueInv, DeadUnqueued
<1>5. NoLostWakeup /\ HandedInv
  BY DEF Init, NoLostWakeup, HandedInv
<1> QED BY <1>1, <1>3, <1>4, <1>5, TypeParts DEF IInv

\* Event_t::Send keeps the invariant, from a task or an interrupt handler.
LEMMA SendInv ==
  ASSUME IInv, NEW e \in Event, Send(e)
  PROVE  IInv'
<1>0. EventType /\ SlotType /\ QueueType /\ status \in Status /\ LoopType
      /\ QueueInv /\ NoLostWakeup /\ HandedInv
  BY TypeParts DEF IInv
<1>1. alive[e] /\ priority[e] \in Priority /\ MaxCounter \in Nat
  BY <1>0, EventAssumption DEF Send, Counted, EventType
<1>2. PICK wanted \in BOOLEAN : wanted <=> (mode[e] = "Active" /\ slot[e] = NoSlot)
  OBVIOUS
<1>3. PICK st : st = IF wanted THEN StatusAfterPut(e) ELSE status
  OBVIOUS
<1>4. /\ IF wanted THEN PutPtrEventInQueue(e) ELSE UNCHANGED <<queue, slot>>
      /\ counter' = [counter EXCEPT ![e] = IF @ < MaxCounter THEN @ + 1 ELSE @]
      /\ status' = IF counter[e] < MaxCounter THEN st
                   ELSE RaiseWarning(st, "EventCounterOverflow")
      /\ UNCHANGED <<alive, mode, priority>>
      /\ UNCHANGED <<pc, stage, succ, handed>>
  BY <1>2, <1>3 DEF Send, Counted, loopVars
<1>5. /\ SlotType' /\ QueueType' /\ QueueInv'
      /\ wanted /\ Fits(e) => slot'[e] # NoSlot
      /\ ~wanted => slot'[e] = slot[e]
      /\ \A f \in Event \ {e} : slot'[f] = slot[f]
  <2>1. CASE wanted
    BY <1>0, <1>1, <1>2, <1>4, <2>1, PutKeepsQueueInv
  <2>2. CASE ~wanted
    BY <1>0, <1>4, <2>2, QueueUnchanged
  <2> QED BY <2>1, <2>2
<1>6. /\ st \in Status
      /\ wanted /\ ~Fits(e) => st.type = "Error"
      /\ status.type = "Error" => st.type = "Error"
  BY <1>0, <1>3, StatusFacts DEF StatusAfterPut, Codes
<1>7. status' \in Status /\ (st.type = "Error" => status'.type = "Error")
  BY <1>4, <1>6, StatusFacts DEF Codes
<1>8. EventType' /\ LoopType'
  BY <1>0, <1>1, <1>4 DEF EventType, LoopType
<1>9. NoLostWakeup'
  <2> SUFFICES ASSUME NEW f \in Event, alive'[f], mode'[f] = "Active", counter'[f] > 0,
                      status'.type # "Error"
               PROVE  slot'[f] # NoSlot
    BY DEF NoLostWakeup
  <2>1. CASE f = e
    BY <1>2, <1>4, <1>5, <1>6, <1>7, <2>1
  <2>2. CASE f # e
    <3>1. slot'[f] = slot[f] /\ counter[f] > 0 /\ alive[f] /\ mode[f] = "Active"
      BY <1>0, <1>4, <1>5, <2>2 DEF EventType
    <3> QED BY <1>0, <1>6, <1>7, <3>1 DEF NoLostWakeup
  <2> QED BY <2>1, <2>2
<1>10. HandedInv'
  BY <1>0, <1>4 DEF HandedInv
<1> QED BY <1>5, <1>7, <1>8, <1>9, <1>10, TypeParts DEF IInv

\* Event_t::SetMode keeps the invariant.
LEMMA SetModeInv ==
  ASSUME IInv, NEW e \in Event, NEW m \in Mode, SetMode(e, m)
  PROVE  IInv'
<1>0. EventType /\ SlotType /\ QueueType /\ status \in Status /\ LoopType
      /\ QueueInv /\ NoLostWakeup /\ HandedInv
  BY TypeParts DEF IInv
<1>1. alive[e] /\ priority[e] \in Priority /\ MaxCounter \in Nat
  BY <1>0, EventAssumption DEF SetMode, EventType
<1>2. PICK wanted \in BOOLEAN :
        wanted <=> (m = "Active" /\ counter[e] > 0 /\ slot[e] = NoSlot)
  OBVIOUS
<1>3. /\ IF wanted THEN PutPtrEventInQueue(e) ELSE UNCHANGED <<queue, slot>>
      /\ mode' = [mode EXCEPT ![e] = m]
      /\ counter' = IF m = "Disabled" THEN [counter EXCEPT ![e] = 0] ELSE counter
      /\ status' = IF wanted THEN StatusAfterPut(e) ELSE status
      /\ UNCHANGED <<alive, priority>>
      /\ UNCHANGED <<pc, stage, succ, handed>>
  BY <1>2 DEF SetMode, loopVars
<1>4. /\ SlotType' /\ QueueType' /\ QueueInv'
      /\ wanted /\ Fits(e) => slot'[e] # NoSlot
      /\ ~wanted => slot'[e] = slot[e]
      /\ \A f \in Event \ {e} : slot'[f] = slot[f]
  <2>1. CASE wanted
    BY <1>0, <1>1, <1>2, <1>3, <2>1, PutKeepsQueueInv
  <2>2. CASE ~wanted
    BY <1>0, <1>3, <2>2, QueueUnchanged
  <2> QED BY <2>1, <2>2
<1>5. /\ status' \in Status
      /\ wanted /\ ~Fits(e) => status'.type = "Error"
      /\ status.type = "Error" => status'.type = "Error"
  BY <1>0, <1>3, StatusFacts DEF StatusAfterPut, Codes
<1>6. EventType' /\ LoopType'
  BY <1>0, <1>1, <1>3 DEF EventType, LoopType
<1>7. NoLostWakeup'
  <2> SUFFICES ASSUME NEW f \in Event, alive'[f], mode'[f] = "Active", counter'[f] > 0,
                      status'.type # "Error"
               PROVE  slot'[f] # NoSlot
    BY DEF NoLostWakeup
  <2>1. CASE f = e
    <3>1. m = "Active" /\ counter[e] > 0
      BY <1>0, <1>3, <2>1 DEF EventType
    <3> QED BY <1>2, <1>4, <1>5, <2>1, <3>1
  <2>2. CASE f # e
    <3>1. slot'[f] = slot[f] /\ counter[f] > 0 /\ alive[f] /\ mode[f] = "Active"
      BY <1>0, <1>3, <1>4, <2>2 DEF EventType
    <3> QED BY <1>0, <1>5, <3>1 DEF NoLostWakeup
  <2> QED BY <2>1, <2>2
<1>8. HandedInv'
  BY <1>0, <1>3 DEF HandedInv
<1> QED BY <1>4, <1>5, <1>6, <1>7, <1>8, TypeParts DEF IInv

\* SetPriority, the constructor and the destructor keep the invariant.
LEMMA LifetimeInv ==
  ASSUME IInv, NEW e \in Event,
         \/ \E p \in InUse : SetPriority(e, p)
         \/ \E m \in Mode, p \in InUse : Construct(e, m, p)
         \/ Destroy(e)
  PROVE  IInv'
<1>0. EventType /\ SlotType /\ QueueType /\ status \in Status /\ LoopType
      /\ QueueInv /\ NoLostWakeup /\ HandedInv /\ MaxCounter \in Nat
  BY TypeParts, EventAssumption DEF IInv
<1>1. ASSUME NEW p \in InUse, SetPriority(e, p) PROVE IInv'
  <2>1. /\ UNCHANGED <<alive, mode, counter, slot, queue, status>>
        /\ UNCHANGED <<pc, stage, succ, handed>>
        /\ priority' = [priority EXCEPT ![e] = p] /\ p \in Priority
    BY <1>1, EventAssumption DEF SetPriority, loopVars
  <2>2. SlotType' /\ QueueType' /\ QueueInv'
    BY <1>0, <2>1, QueueUnchanged
  <2>3. EventType' /\ LoopType' /\ status' \in Status
    BY <1>0, <2>1 DEF EventType, LoopType
  <2>4. NoLostWakeup' /\ HandedInv'
    BY <1>0, <2>1 DEF NoLostWakeup, HandedInv
  <2> QED BY <2>2, <2>3, <2>4, TypeParts DEF IInv
<1>2. ASSUME NEW m \in Mode, NEW p \in InUse, Construct(e, m, p) PROVE IInv'
  <2>1. /\ UNCHANGED <<queue, status>>
        /\ UNCHANGED <<pc, stage, succ, handed>>
        /\ priority' = [priority EXCEPT ![e] = p] /\ p \in Priority
        /\ alive' = [alive EXCEPT ![e] = TRUE] /\ ~alive[e]
        /\ mode' = [mode EXCEPT ![e] = m]
        /\ counter' = [counter EXCEPT ![e] = 0]
        /\ slot' = [slot EXCEPT ![e] = NoSlot]
    BY <1>2, EventAssumption DEF Construct, loopVars
  <2>2. slot' = slot
    BY <1>0, <2>1 DEF QueueInv, DeadUnqueued, SlotType
  <2>3. SlotType' /\ QueueType'
    BY <1>0, <2>1, <2>2 DEF SlotType, QueueType
  <2>4. QueueInv'
    BY <1>0, <2>1, <2>2, MatchedDef DEF QueueInv, DeadUnqueued, EventType
  <2>5. EventType' /\ LoopType' /\ status' \in Status
    BY <1>0, <2>1 DEF EventType, LoopType
  <2>6. NoLostWakeup' /\ HandedInv'
    BY <1>0, <2>1, <2>2 DEF NoLostWakeup, HandedInv, EventType
  <2> QED BY <2>3, <2>4, <2>5, <2>6, TypeParts DEF IInv
<1>3. ASSUME Destroy(e) PROVE IInv'
  <2>1. /\ UNCHANGED <<priority, status>>
        /\ UNCHANGED <<pc, stage, succ, handed>>
        /\ alive' = [alive EXCEPT ![e] = FALSE]
        /\ slot' = [slot EXCEPT ![e] = NoSlot]
        /\ queue' = IF slot[e] = NoSlot THEN queue
                    ELSE [queue EXCEPT ![slot[e].level].cell[slot[e].cell] = Null]
        /\ mode' = [mode EXCEPT ![e] = "Disabled"]
        /\ counter' = [counter EXCEPT ![e] = 0]
    BY <1>3 DEF Destroy, loopVars
  <2>2. EventType' /\ LoopType' /\ status' \in Status /\ SlotType'
    BY <1>0, <2>1 DEF EventType, LoopType, SlotType, Mode, NoSlot
  <2>3. NoLostWakeup' /\ HandedInv' /\ DeadUnqueued'
    BY <1>0, <2>1 DEF NoLostWakeup, HandedInv, EventType, SlotType, QueueInv, DeadUnqueued
  <2>4. QueueType' /\ SlotsMatchCells'
    <3>1. CASE slot[e] = NoSlot
      <4>1. slot' = slot /\ queue' = queue
        BY <1>0, <2>1, <3>1 DEF SlotType
      <4> QED BY <1>0, <4>1, MatchedDef DEF QueueType, QueueInv
    <3>2. CASE slot[e] # NoSlot
      <4>0. slot[e].cell \in Nat
        BY <1>0 DEF SlotType
      <4>1. PICK p \in Priority, c \in Nat : c \in LiveCells(queue[p], Size[p]) /\
              p = slot[e].level /\ c = slot[e].cell /\ queue[p].cell[c] = e
        BY <1>0, <3>2, <4>0 DEF QueueInv, SlotsMatchCells, Live
      <4>2. PICK q : q = [queue[p] EXCEPT !.cell[c] = Null]
        OBVIOUS
      <4>3. queue' = [queue EXCEPT ![p] = q]
        BY <2>1, <3>2, <4>1, <4>2
      <4>4. q \in Queues(Size[p], Entry) /\ Used(q) = Used(queue[p])
            /\ LiveCells(q, Size[p]) = LiveCells(queue[p], Size[p])
            /\ q.cell[c] = Null
            /\ \A d \in LiveCells(queue[p], Size[p]) :
                 d # c => q.cell[d] = queue[p].cell[d]
        <5>1. PICK qq : qq = queue[p]
          OBVIOUS
        <5>2. qq \in Queues(Size[p], Entry) /\ ValidSize(Size[p])
          BY <1>0, <5>1, SizeFacts DEF QueueType
        <5>3. LiveCells(qq, Size[p]) \subseteq 0..(Size[p] - 1)
          BY <5>2, LiveInRange
        <5>4. q = [qq EXCEPT !.cell = [qq.cell EXCEPT ![c] = Null]]
          BY <4>2, <5>1, <5>2 DEF Queues
        <5>5. qq.cell \in [0..(Size[p] - 1) -> Entry] /\ Null \in Entry
          BY <5>2 DEF Queues, Entry
        <5>6. q.cell = [qq.cell EXCEPT ![c] = Null] /\ q.put = qq.put /\ q.get = qq.get
          BY <5>2, <5>4 DEF Queues
        <5>7. q \in Queues(Size[p], Entry)
          BY <5>2, <5>4, <5>5 DEF Queues
        <5>8. Used(q) = Used(qq)
          BY <5>6 DEF Used
        <5>9. LiveCells(q, Size[p]) = LiveCells(qq, Size[p])
          BY <5>6, <5>8 DEF LiveCells
        <5>10. q.cell[c] = Null /\ \A d \in LiveCells(qq, Size[p]) :
                                    d # c => q.cell[d] = qq.cell[d]
          BY <4>1, <5>1, <5>3, <5>5, <5>6
        <5> QED BY <5>1, <5>7, <5>8, <5>9, <5>10
      <4>5. \A r \in Priority : queue'[r] = IF r = p THEN q ELSE queue[r]
        BY <1>0, <4>3 DEF QueueType
      <4>6. QueueType'
        BY <1>0, <4>3, <4>4, <4>5 DEF QueueType
      <4>7. \A f \in Event : slot'[f] = IF f = queue[p].cell[c] THEN NoSlot ELSE slot[f]
        BY <1>0, <2>1, <4>1 DEF SlotType
      <4>8. queue'[p] = q /\ \A r \in Priority \ {p} : queue'[r] = queue[r]
        BY <4>5
      <4>9. Matched(slot, queue)
        BY <1>0, MatchedDef DEF QueueInv
      <4>10. Matched(slot', queue')
        <5>1. c \in LiveCells(queue[p], Size[p])
          BY <4>1
        <5>2. LiveCells(queue'[p], Size[p]) = LiveCells(queue[p], Size[p])
          BY <4>4, <4>8
        <5> QED BY <1>0, <4>4, <4>7, <4>8, <4>9, <5>1, <5>2, LiveContent, LeaveCell
      <4> QED BY <4>6, <4>10, MatchedDef
    <3> QED BY <3>1, <3>2
  <2> QED BY <2>2, <2>3, <2>4, TypeParts DEF IInv, QueueInv
<1> QED BY <1>1, <1>2, <1>3

\* Taking an entry out of a queue keeps the invariant.
LEMMA TakeEntryInv ==
  ASSUME IInv, TakeEntry
  PROVE  IInv'
<1>0. EventType /\ SlotType /\ QueueType /\ status \in Status /\ LoopType
      /\ QueueInv /\ NoLostWakeup /\ HandedInv /\ MaxCounter \in Nat
  BY TypeParts, EventAssumption DEF IInv
<1>1. PICK p, qq, sz : p = stage /\ qq = queue[p] /\ sz = Size[p]
  OBVIOUS
<1>2. PICK e : e = Front(qq, sz)
  OBVIOUS
<1>3. PICK deliverable \in BOOLEAN :
        deliverable <=> (e # Null /\ mode[e] = "Active" /\ counter[e] > 0)
  OBVIOUS
<1>4. PICK q : q = Get(qq, sz)
  OBVIOUS
<1>5. /\ pc = "Poll" /\ IsNotEmpty(qq) /\ succ[stage] < MaxSucc[stage]
      /\ queue' = [queue EXCEPT ![p] = q]
      /\ slot' = IF e = Null THEN slot ELSE [slot EXCEPT ![e] = NoSlot]
      /\ counter' = IF deliverable THEN [counter EXCEPT ![e] = 0] ELSE counter
      /\ IF deliverable /\ e \notin NoFsm
         THEN /\ handed' = [event |-> e, count |-> counter[e]]
              /\ pc' = "Task"
         ELSE UNCHANGED <<handed, pc>>
      /\ UNCHANGED <<alive, mode, priority, status, stage, succ>>
  BY <1>1, <1>2, <1>3, <1>4 DEF TakeEntry, HasShare
<1>6. p \in Priority /\ ValidSize(sz) /\ Null \in Entry /\ Null \notin Event
      /\ qq \in Queues(sz, Entry) /\ Used(qq) <= sz /\ sz \in Nat
  BY <1>0, <1>1, SizeFacts DEF LoopType, QueueType
<1>7. PICK c : c = GetCell(qq, sz)
  OBVIOUS
<1>8. /\ q \in Queues(sz, Entry)
      /\ c \in LiveCells(qq, sz)
      /\ e \in Entry
      /\ LiveCells(q, sz) = LiveCells(qq, sz) \ {c}
      /\ \A d \in LiveCells(qq, sz) : d # c => q.cell[d] = qq.cell[d]
      /\ Used(q) = Used(qq) - 1
  BY <1>2, <1>4, <1>5, <1>6, <1>7, GetFacts
<1>9. e = qq.cell[c]
  BY <1>2, <1>7 DEF Front
<1>10. Used(q) <= sz
  BY <1>6, <1>8, IndexModAssumption, QueueIndices
<1>11. \A r \in Priority : queue'[r] = IF r = p THEN q ELSE queue[r]
  BY <1>0, <1>5 DEF QueueType
<1>12. QueueType'
  BY <1>0, <1>1, <1>5, <1>8, <1>10, <1>11 DEF QueueType
<1>13. \A f \in Event : slot'[f] = IF f = e THEN NoSlot ELSE slot[f]
  BY <1>0, <1>5, <1>6 DEF SlotType
<1>14. SlotType'
  BY <1>0, <1>5, <1>13 DEF SlotType, NoSlot
<1>15. SlotsMatchCells' /\ DeadUnqueued'
  <2>1. Matched(slot, queue)
    BY <1>0, MatchedDef DEF QueueInv
  <2>2. queue'[p] = q /\ \A r \in Priority \ {p} : queue'[r] = queue[r]
    BY <1>6, <1>11
  <2>3. LiveCells(queue'[p], Size[p]) = LiveCells(queue[p], Size[p]) \ {c}
        /\ c \in LiveCells(queue[p], Size[p])
    BY <1>1, <1>8, <2>2
  <2>4. \A f \in Event : slot'[f] = IF f = queue[p].cell[c] THEN NoSlot ELSE slot[f]
    BY <1>1, <1>9, <1>13
  <2>5. \A d \in LiveCells(queue[p], Size[p]) :
           d # c => queue'[p].cell[d] = queue[p].cell[d]
    BY <1>1, <1>8, <2>2
  <2>6. Matched(slot', queue')
    BY <1>0, <1>6, <2>1, <2>2, <2>3, <2>4, <2>5, LiveContent, LeaveCell
  <2>7. DeadUnqueued'
    BY <1>0, <1>5, <1>13 DEF QueueInv, DeadUnqueued
  <2> QED BY <2>6, <2>7, MatchedDef
<1>16. e # Null => e \in Event
  BY <1>8 DEF Entry
<1>17. EventType' /\ LoopType'
  <2>1. deliverable => counter[e] \in 0..MaxCounter
    BY <1>0, <1>3, <1>16 DEF EventType
  <2>2. EventType'
    <3>1. CASE deliverable
      <4>1. e \in Event /\ counter' = [counter EXCEPT ![e] = 0]
        BY <1>3, <1>5, <1>16, <3>1
      <4> QED BY <1>0, <1>5, <4>1 DEF EventType
    <3>2. CASE ~deliverable
      <4>1. counter' = counter
        BY <1>5, <3>2
      <4> QED BY <1>0, <1>5, <4>1 DEF EventType
    <3> QED BY <3>1, <3>2
  <2>3. LoopType'
    BY <1>0, <1>5, <1>8, <2>1 DEF LoopType
  <2> QED BY <2>2, <2>3
<1>18. NoLostWakeup'
  <2> SUFFICES ASSUME NEW f \in Event, alive'[f], mode'[f] = "Active", counter'[f] > 0,
                      status'.type # "Error"
               PROVE  slot'[f] # NoSlot
    BY DEF NoLostWakeup
  <2>1. CASE f = e
    <3>1. deliverable => counter'[e] = 0
      BY <1>0, <1>5, <2>1 DEF EventType
    <3>2. ~deliverable => counter' = counter
      BY <1>5
    <3>3. mode[e] = "Active" /\ e # Null
      BY <1>5, <1>6, <2>1
    <3> QED BY <1>3, <2>1, <3>1, <3>2, <3>3
  <2>2. CASE f # e
    <3>1. counter[f] > 0 /\ alive[f] /\ mode[f] = "Active" /\ slot'[f] = slot[f]
      BY <1>0, <1>5, <1>13, <2>2 DEF EventType
    <3> QED BY <1>0, <1>5, <3>1 DEF NoLostWakeup
  <2> QED BY <2>1, <2>2
<1>19. HandedInv'
  BY <1>0, <1>5 DEF HandedInv
<1>20. status' \in Status
  BY <1>0, <1>5
<1> QED BY <1>12, <1>14, <1>15, <1>17, <1>18, <1>19, <1>20, TypeParts DEF IInv, QueueInv

\* The steps of the main loop that leave the events alone.
LEMMA LoopInv ==
  ASSUME IInv,
         \/ FinishStart \/ ProcessSystemStatus \/ PassOver \/ FindEmpty \/ TaskWait
         \/ Exit \/ UNCHANGED vars
  PROVE  IInv'
<1>0. EventType /\ SlotType /\ QueueType /\ status \in Status /\ LoopType
      /\ QueueInv /\ NoLostWakeup /\ HandedInv
  BY TypeParts DEF IInv
<1>1. UNCHANGED <<alive, mode, counter, priority, slot, queue>>
  BY DEF FinishStart, ProcessSystemStatus, PassOver, HasShare, FindEmpty, TaskWait, Exit, vars, eventVars
<1>2. SlotType' /\ QueueType' /\ QueueInv'
  BY <1>0, <1>1, QueueUnchanged
<1>3. EventType'
  BY <1>0, <1>1 DEF EventType
<1>4. status' \in Status /\ (status.type = "Error" => status'.type = "Error")
  <2>1. \/ status' = status
        \/ status' = Fetched(status)
        \/ \E c \in Codes : status' \in {RaiseWarning(status, c), RaiseExit(status, c)}
    BY DEF FinishStart, ProcessSystemStatus, PassOver, HasShare, FindEmpty, TaskWait, Exit, vars, Codes
  <2> QED BY <1>0, <2>1, StatusFacts DEF Codes
<1>5. NoLostWakeup'
  BY <1>0, <1>1, <1>4 DEF NoLostWakeup
<1>6. LoopType' /\ HandedInv'
  <2>1. CASE FinishStart \/ ProcessSystemStatus
    BY <1>0, <2>1 DEF FinishStart, ProcessSystemStatus, LoopType, HandedInv, Priority
  <2>2. CASE PassOver \/ FindEmpty
    <3>1. NextStage /\ pc = "Poll" /\ UNCHANGED handed
      BY <2>2 DEF PassOver, HasShare, FindEmpty
    <3>2. pc' \in {"Poll", "Status"} /\ stage' \in Priority
      BY <1>0, <3>1 DEF NextStage, LoopType, Priority, Lower
    <3>3. \A p \in Priority : MaxSucc[p] \in Nat
      BY EventAssumption
    <3>4. succ' = [succ EXCEPT ![stage] = 0]
      BY <3>1 DEF NextStage
    <3>5. succ' \in [Priority -> Nat] /\ \A p \in Priority : succ'[p] <= MaxSucc[p]
      BY <1>0, <3>3, <3>4 DEF LoopType
    <3> QED BY <1>0, <3>1, <3>2, <3>5 DEF LoopType, HandedInv
  <2>3. CASE TaskWait
    <3>1. /\ pc = "Task" /\ pc' = "Status" /\ handed' = Nothing /\ stage' = stage
          /\ succ' = [succ EXCEPT ![stage] = @ + 1]
      BY <2>3 DEF TaskWait
    <3>2. stage \in Priority /\ succ[stage] \in Nat /\ succ[stage] < MaxSucc[stage]
          /\ \A p \in Priority : MaxSucc[p] \in Nat
      BY <1>0, <3>1, EventAssumption DEF LoopType, HandedInv
    <3>3. succ' \in [Priority -> Nat] /\ \A p \in Priority : succ'[p] <= MaxSucc[p]
      BY <1>0, <3>1, <3>2 DEF LoopType
    <3>4. Nothing \in [event : Entry, count : 0..MaxCounter]
      BY EventAssumption DEF Nothing, Entry
    <3> QED BY <1>0, <3>1, <3>3, <3>4 DEF LoopType, HandedInv
  <2>4. CASE Exit \/ UNCHANGED vars
    BY <1>0, <2>4 DEF Exit, vars, loopVars, LoopType, HandedInv
  <2> QED BY <2>1, <2>2, <2>3, <2>4
<1> QED BY <1>2, <1>3, <1>4, <1>5, <1>6, TypeParts DEF IInv

\* Every step keeps the invariant.
LEMMA NextInv == IInv /\ [Next]_vars => IInv'
<1> SUFFICES ASSUME IInv, [Next]_vars PROVE IInv'
  OBVIOUS
<1>1. ASSUME NEW e \in Event, Send(e) PROVE IInv'
  BY <1>1, SendInv
<1>2. CASE MainStep
  BY <1>2, TakeEntryInv, LoopInv DEF MainStep
<1>3. CASE TaskStep
  BY <1>1, <1>3, SetModeInv, LifetimeInv, LoopInv DEF TaskStep
<1>4. CASE IsrStep
  BY <1>1, <1>4 DEF IsrStep
<1>5. CASE Stopped \/ UNCHANGED vars
  BY <1>5, LoopInv DEF Stopped
<1> QED BY <1>2, <1>3, <1>4, <1>5 DEF Next

\* The inductive invariant holds in every reachable state, for every set of
\* events, every size of the queues and limit on successive calls.
THEOREM Invariance == Spec => []IInv
  BY InitInv, NextInv, PTL DEF Spec

\* Every variable has its type; the number of entries of a queue, a difference
\* of two wrapping indices, never exceeds its size.
THEOREM TypeCorrect == Spec => []TypeOK
<1>1. IInv => TypeOK
  BY DEF IInv
<1> QED BY <1>1, Invariance, PTL

\* pptrEventInQueue is null or points at the one live cell that holds its event.
THEOREM SlotsAreRight == Spec => []SlotsMatchCells
<1>1. IInv => SlotsMatchCells
  BY DEF IInv, QueueInv
<1> QED BY <1>1, Invariance, PTL

\* The dispatcher never meets a destroyed event in a queue.
THEOREM NoDanglingEntry == Spec => []QueuedEventsExist
<1>1. IInv => QueuedEventsExist
  <2> SUFFICES ASSUME IInv, NEW p \in Priority,
                      NEW c \in LiveCells(queue[p], Size[p]), queue[p].cell[c] # Null
               PROVE  alive[queue[p].cell[c]]
    BY DEF QueuedEventsExist, Live
  <2>1. QueueType /\ SlotsMatchCells /\ DeadUnqueued
    BY TypeParts DEF IInv, QueueInv
  <2>2. slot[queue[p].cell[c]] = SlotOf(p, c) /\ queue[p].cell[c] \in Event
    BY <2>1, LiveContent DEF SlotsMatchCells, Live
  <2> QED BY <2>1, <2>2, SlotFacts DEF DeadUnqueued
<1> QED BY <1>1, Invariance, PTL

\* An active event with a count waits in a queue, or the system is in error.
THEOREM WakeupsAreKept == Spec => []NoLostWakeup
<1>1. IInv => NoLostWakeup
  BY DEF IInv
<1> QED BY <1>1, Invariance, PTL
--------------------------------------------------------------------------------
(* Queues with a cell for every event do not overflow *)

\* The application has only static events, and every queue it uses has a cell
\* for each of them.
CellForEach == /\ Dynamic = {}
               /\ IsFiniteSet(Event)
               /\ \A p \in InUse : Cardinality(Event) <= Size[p]

\* No queue has refused an event.
NoOverflow == status.code # "QueueOverflow"

\* An entry is emptied in its queue only by a destructor.
Filled == \A p \in Priority : \A c \in LiveCells(queue[p], Size[p]) :
            queue[p].cell[c] # Null

\* What makes NoOverflow inductive where no event is ever destroyed.
RoomInv == priority \in [Event -> InUse] /\ Filled /\ NoOverflow

\* An event that is in no queue finds a free cell: the entries of a queue are
\* different events, and it is not among them.
LEMMA FreeCell ==
  ASSUME CellForEach, IInv, Filled,
         NEW e \in Event, slot[e] = NoSlot, priority[e] \in InUse
  PROVE  Fits(e)
<1>1. PICK p, q, n : p = priority[e] /\ q = queue[p] /\ n = Size[p]
  OBVIOUS
<1>2. /\ p \in Priority /\ p \in InUse /\ ValidSize(n) /\ n \in Nat \ {0}
      /\ q \in Queues(n, Entry) /\ Used(q) <= n
      /\ QueueType /\ SlotsMatchCells
  BY <1>1, EventAssumption, SizeFacts, TypeParts DEF IInv, QueueType, QueueInv
<1>3. q.get \in Int /\ Used(q) \in Nat
  BY <1>2, QueueIndices, IndexModAssumption
<1> SUFFICES ASSUME Used(q) = n PROVE FALSE
  BY <1>1, <1>2, <1>3 DEF Fits, IsNotFull
<1> DEFINE Cell(i) == (q.get + i) % n
           f == [i \in 0..(n - 1) |-> q.cell[Cell(i)]]
<1>4. ASSUME NEW i \in 0..(n - 1)
      PROVE  q.cell[Cell(i)] \in Event \ {e} /\ slot[q.cell[Cell(i)]] = SlotOf(p, Cell(i))
  <2>1. Cell(i) \in LiveCells(q, n)
    BY DEF LiveCells
  <2> HIDE DEF Cell
  <2>2. q.cell[Cell(i)] \in Event
    BY <1>1, <1>2, <2>1, LiveContent DEF Filled
  <2>3. slot[q.cell[Cell(i)]] = SlotOf(p, Cell(i))
    BY <1>1, <1>2, <2>1, <2>2, EventAssumption DEF SlotsMatchCells, Live
  <2> QED BY <1>2, <2>2, <2>3, SlotFacts
<1>5. f \in [0..(n - 1) -> Event \ {e}]
  BY <1>4
<1>6. /\ IsFiniteSet(0..(n - 1)) /\ Cardinality(0..(n - 1)) = n
      /\ IsFiniteSet(Event \ {e}) /\ Cardinality(Event \ {e}) < n
  <2>1. IsFiniteSet(0..(n - 1)) /\ Cardinality(0..(n - 1)) = n
    <3>1. 0 \in Int /\ n - 1 \in Int /\ ~(0 > n - 1) /\ (n - 1) - 0 + 1 = n
      BY <1>2
    <3> QED BY <3>1, FS_Interval
  <2>2. /\ IsFiniteSet(Event \ {e})
        /\ Cardinality(Event \ {e}) = Cardinality(Event) - 1
    BY FS_RemoveElement DEF CellForEach
  <2>3. Cardinality(Event) \in Nat /\ Cardinality(Event) <= n
    BY <1>1, <1>2, FS_CardinalityType DEF CellForEach
  <2> QED BY <1>2, <2>1, <2>2, <2>3
<1>7. PICK i \in 0..(n - 1), j \in 0..(n - 1) : i # j /\ f[i] = f[j]
  <2> HIDE DEF f
  <2> QED BY <1>2, <1>5, <1>6, FS_PigeonHole
<1>8. q.cell[Cell(i)] = q.cell[Cell(j)]
  BY <1>7
<1>9. Cell(i) = Cell(j)
  <2>1. SlotOf(p, Cell(i)) = SlotOf(p, Cell(j))
    BY <1>4, <1>8
  <2> HIDE DEF Cell
  <2> QED BY <1>2, <2>1, SlotFacts
<1>10. ASSUME NEW k \in 0..(n - 1), NEW l \in 0..(n - 1), k < l PROVE Cell(k) # Cell(l)
  <2>1. q.get + k \in Int /\ l - k \in 1..(n - 1)
    BY <1>2, <1>3, <1>10
  <2>2. ((q.get + k) + (l - k)) % n # (q.get + k) % n
    BY <1>2, <2>1, ModApart
  <2>3. (q.get + k) + (l - k) = q.get + l
    BY <1>3
  <2> QED BY <2>2, <2>3
<1>11. i < j \/ j < i
  BY <1>2, <1>7
<1> HIDE DEF Cell
<1> QED BY <1>9, <1>10, <1>11

\* Queueing an event that has a free cell empties no entry.
LEMMA PutFilled ==
  ASSUME IInv, Filled, NEW e \in Event, priority[e] \in Priority, Fits(e),
         PutPtrEventInQueue(e)
  PROVE  Filled'
<1>1. PICK p, q, n : p = priority[e] /\ q = queue[p] /\ n = Size[p]
  OBVIOUS
<1>2. PICK r, c : r = Put(q, n, e) /\ c = PutCell(q, n)
  OBVIOUS
<1>3. /\ ValidSize(n) /\ e \in Entry /\ e # Null /\ q \in Queues(n, Entry)
      /\ IsNotFull(q, n) /\ p \in Priority /\ QueueType
  BY <1>1, SizeFacts, TypeParts, EventAssumption DEF IInv, QueueType, Entry, Fits
<1>4. /\ LiveCells(r, n) = LiveCells(q, n) \cup {c}
      /\ r.cell[c] = e
      /\ \A d \in LiveCells(q, n) : d # c => r.cell[d] = q.cell[d]
  BY <1>2, <1>3, PutFacts
<1>5. queue' = [queue EXCEPT ![p] = r]
  BY <1>1, <1>2 DEF PutPtrEventInQueue
<1>6. \A s \in Priority : queue'[s] = IF s = p THEN r ELSE queue[s]
  BY <1>5, <1>3 DEF QueueType
<1> QED BY <1>1, <1>3, <1>4, <1>6 DEF Filled

\* Taking an entry out empties none of those that stay.
LEMMA TakeFilled ==
  ASSUME IInv, Filled, TakeEntry
  PROVE  Filled'
<1>1. PICK p, q, n : p = stage /\ q = queue[p] /\ n = Size[p]
  OBVIOUS
<1>2. PICK r, c : r = Get(q, n) /\ c = GetCell(q, n)
  OBVIOUS
<1>3. p \in Priority /\ QueueType
  BY <1>1, TypeParts DEF IInv, LoopType
<1>4. /\ ValidSize(n) /\ Null \in Entry /\ q \in Queues(n, Entry)
      /\ IsNotEmpty(q) /\ Used(q) <= n
  BY <1>1, <1>3, SizeFacts DEF QueueType, TakeEntry, HasShare
<1>5. /\ LiveCells(r, n) = LiveCells(q, n) \ {c}
      /\ \A d \in LiveCells(q, n) : d # c => r.cell[d] = q.cell[d]
  BY <1>2, <1>4, GetFacts
<1>6. queue' = [queue EXCEPT ![p] = r]
  BY <1>1, <1>2 DEF TakeEntry
<1>7. \A s \in Priority : queue'[s] = IF s = p THEN r ELSE queue[s]
  BY <1>6, <1>3 DEF QueueType
<1> QED BY <1>1, <1>3, <1>5, <1>7 DEF Filled

\* Send and SetMode overflow no queue.
LEMMA QueueingRoom ==
  ASSUME CellForEach, IInv, RoomInv, NEW e \in Event,
         Send(e) \/ \E m \in Mode : SetMode(e, m)
  PROVE  RoomInv'
<1>1. UNCHANGED priority /\ priority[e] \in InUse /\ priority[e] \in Priority
  BY EventAssumption DEF RoomInv, Send, Counted, SetMode
<1>2. ASSUME slot[e] = NoSlot PROVE StatusAfterPut(e) = status /\ Fits(e)
  BY <1>1, <1>2, FreeCell DEF RoomInv, StatusAfterPut
<1>3. status' \in {status, RaiseWarning(status, "EventCounterOverflow")}
  BY <1>2 DEF Send, SetMode
<1>4. NoOverflow'
  BY <1>3 DEF RoomInv, NoOverflow, RaiseWarning
<1>5. UNCHANGED queue \/ (slot[e] = NoSlot /\ PutPtrEventInQueue(e))
  BY DEF Send, SetMode
<1>6. Filled'
  BY <1>1, <1>2, <1>5, PutFilled DEF RoomInv, Filled
<1> QED BY <1>1, <1>4, <1>6 DEF RoomInv

\* Nothing else reports an overflow, and nothing else fills a queue.
LEMMA OtherRoom ==
  ASSUME CellForEach, IInv, RoomInv,
         \/ MainStep
         \/ \E e \in Event, p \in InUse : SetPriority(e, p)
         \/ Exit \/ UNCHANGED vars
  PROVE  RoomInv'
<1>1. CASE TakeEntry
  <2>1. UNCHANGED <<priority, status>>
    BY <1>1 DEF TakeEntry, HasShare
  <2> QED BY <1>1, <2>1, TakeFilled DEF RoomInv, NoOverflow
<1>2. CASE ~TakeEntry
  <2>1. UNCHANGED queue
    BY <1>2 DEF MainStep, FinishStart, ProcessSystemStatus, PassOver, HasShare, FindEmpty,
                TaskWait, SetPriority, Exit, vars, eventVars
  <2>2. \/ UNCHANGED status
        \/ status' \in {Fetched(status), RaiseWarning(status, "QueueOverload"),
                        RaiseExit(status, "Requested")}
    BY <1>2 DEF MainStep, FinishStart, ProcessSystemStatus, PassOver, HasShare, FindEmpty,
                TaskWait, SetPriority, Exit, vars, eventVars
  <2>3. \/ UNCHANGED priority
        \/ \E e \in Event, p \in InUse : priority' = [priority EXCEPT ![e] = p]
    BY <1>2 DEF MainStep, FinishStart, ProcessSystemStatus, PassOver, HasShare, FindEmpty,
                TaskWait, SetPriority, Exit, vars, eventVars
  <2>4. priority' \in [Event -> InUse]
    BY <2>3 DEF RoomInv
  <2>5. NoOverflow'
    BY <2>2 DEF RoomInv, NoOverflow, Fetched, OkStatus, RaiseWarning, RaiseExit
  <2>6. Filled'
    BY <2>1 DEF RoomInv, Filled
  <2> QED BY <2>4, <2>5, <2>6 DEF RoomInv
<1> QED BY <1>1, <1>2

\* An application whose events are all static, and no more than each of the
\* queues it uses has cells, never sees Event_t report QueueOverflow, however
\* its tasks and interrupt handlers send, change modes and change priorities:
\* no event is queued twice, and the dispatcher gives every cell back.
THEOREM EnoughCells ==
  ASSUME CellForEach
  PROVE  Spec => []NoOverflow
<1>1. Init => RoomInv
  <2> SUFFICES ASSUME Init PROVE RoomInv
    OBVIOUS
  <2>1. priority \in [Event -> InUse] /\ NoOverflow
    BY DEF Init, NoOverflow, OkStatus
  <2>2. \A p \in Priority : LiveCells(queue[p], Size[p]) = {}
    <3> TAKE p \in Priority
    <3>1. queue[p] = EmptyQueue(Size[p]) /\ queue[p] \in Queues(Size[p], Entry)
      BY InitInv, TypeParts DEF Init, IInv, QueueType
    <3>2. Used(queue[p]) = 0
      BY <3>1, QueueIndices DEF EmptyQueue
    <3> QED BY <3>2 DEF LiveCells
  <2> QED BY <2>1, <2>2 DEF RoomInv, Filled
<1>2. IInv /\ RoomInv /\ [Next]_vars => RoomInv'
  <2> SUFFICES ASSUME IInv, RoomInv, [Next]_vars PROVE RoomInv'
    OBVIOUS
  <2>1. CASE TaskStep
    <3>1. Dynamic = {}
      BY DEF CellForEach
    <3>2. ~(\E e \in Event, m \in Mode, p \in InUse : Construct(e, m, p))
          /\ ~(\E e \in Event : Destroy(e))
      BY <3>1 DEF Construct, Destroy
    <3> QED BY <2>1, <3>2, QueueingRoom, OtherRoom DEF TaskStep
  <2>2. CASE IsrStep
    BY <2>2, QueueingRoom DEF IsrStep
  <2>3. CASE MainStep \/ Stopped \/ UNCHANGED vars
    BY <2>3, OtherRoom DEF Stopped
  <2> QED BY <2>1, <2>2, <2>3 DEF Next
<1>3. RoomInv => NoOverflow
  BY DEF RoomInv
<1> QED BY <1>1, <1>2, <1>3, Invariance, PTL DEF Spec
--------------------------------------------------------------------------------
(* The event system implements the mailbox *)

\* The initial states are those of the mailbox.
LEMMA InitMailbox == Init => Mailbox!Init
<1> SUFFICES ASSUME Init PROVE Mailbox!Init
  OBVIOUS
<1>1. alive \in [Event -> BOOLEAN] /\ mode \in [Event -> Mode]
  BY DEF Init
<1>2. Mode = Mailbox!Mode /\ Nothing = Mailbox!Nothing
  BY DEF Mode, Mailbox!Mode, Nothing, Mailbox!Nothing
<1>3. (pc # "Stopped") = TRUE
  BY DEF Init
<1> QED BY <1>1, <1>2, <1>3 DEF Init, Mailbox!Init

\* A Send is a Send of the mailbox, or changes nothing there when the count is full.
LEMMA SendMailbox ==
  ASSUME IInv, NEW e \in Event, Send(e)
  PROVE  [Mailbox!Next]_Mailbox!vars
<1>1. UNCHANGED <<alive, mode, handed, pc>>
  BY DEF Send, Counted, loopVars
<1>2. CASE counter[e] < MaxCounter
  <2>1. Mailbox!Send(e)
    BY <1>1, <1>2, TypeParts DEF Send, Counted, Mailbox!Send, IInv, EventType
  <2> QED BY <2>1 DEF Mailbox!Next
<1>3. CASE ~(counter[e] < MaxCounter)
  <2>1. counter' = counter
    BY <1>3, TypeParts DEF Send, Counted, IInv, EventType
  <2> QED BY <1>1, <2>1 DEF Mailbox!vars
<1> QED BY <1>2, <1>3

\* Whatever a task calls is the operation of that name of the mailbox.
LEMMA TaskMailbox ==
  ASSUME IInv, TaskStep
  PROVE  [Mailbox!Next]_Mailbox!vars
<1>1. CASE \E e \in Event : Send(e)
  BY <1>1, SendMailbox
<1>2. ASSUME NEW e \in Event, NEW m \in Mode, SetMode(e, m)
      PROVE  Mailbox!SetMode(e, m)
  BY <1>2, TypeParts DEF SetMode, Mailbox!SetMode, loopVars, IInv, EventType
<1>3. ASSUME NEW e \in Event, NEW p \in InUse, SetPriority(e, p)
      PROVE  UNCHANGED Mailbox!vars
  BY <1>3 DEF SetPriority, Mailbox!vars, loopVars
<1>4. ASSUME NEW e \in Event, NEW m \in Mode, NEW p \in InUse, Construct(e, m, p)
      PROVE  Mailbox!Construct(e, m)
  BY <1>4 DEF Construct, Mailbox!Construct, loopVars
<1>5. ASSUME NEW e \in Event, Destroy(e)
      PROVE  Mailbox!Destroy(e)
  BY <1>5 DEF Destroy, Mailbox!Destroy, loopVars
<1>6. CASE Exit
  BY <1>6 DEF Exit, Mailbox!vars, eventVars, loopVars
<1>7. Mode = Mailbox!Mode
  BY DEF Mode, Mailbox!Mode
<1> QED BY <1>1, <1>2, <1>3, <1>4, <1>5, <1>6, <1>7 DEF TaskStep, Mailbox!Next

\* Of the main loop, only a delivery, a return and the end are seen by the mailbox.
LEMMA LoopMailbox ==
  ASSUME IInv, MainStep
  PROVE  [Mailbox!Next]_Mailbox!vars
<1>1. CASE FinishStart
  BY <1>1 DEF FinishStart, Mailbox!vars, eventVars
<1>2. CASE ProcessSystemStatus
  <2>1. UNCHANGED <<alive, mode, counter, handed>> /\ pc = "Status"
    BY <1>2 DEF ProcessSystemStatus, eventVars
  <2>2. CASE GoOn(status)
    BY <1>2, <2>1, <2>2 DEF ProcessSystemStatus, Mailbox!vars
  <2>3. CASE ~GoOn(status)
    <3>1. Mailbox!Stop
      BY <1>2, <2>1, <2>3 DEF ProcessSystemStatus, Mailbox!Stop
    <3> QED BY <3>1 DEF Mailbox!Next
  <2> QED BY <2>2, <2>3
<1>3. CASE PassOver \/ FindEmpty
  <2>1. UNCHANGED <<alive, mode, counter, handed>> /\ pc = "Poll" /\ pc' # "Stopped"
    BY <1>3 DEF PassOver, HasShare, FindEmpty, NextStage, eventVars
  <2> QED BY <2>1 DEF Mailbox!vars
<1>4. CASE TakeEntry
  <2>1. PICK p, c, e : /\ p \in Priority /\ p = stage
                       /\ c = GetCell(queue[p], Size[p])
                       /\ e = Front(queue[p], Size[p])
    BY TypeParts DEF IInv, LoopType
  <2>2. /\ pc = "Poll" /\ UNCHANGED <<alive, mode>>
        /\ LET deliverable == e # Null /\ mode[e] = "Active" /\ counter[e] > 0 IN
           /\ counter' = IF deliverable THEN [counter EXCEPT ![e] = 0] ELSE counter
           /\ IF deliverable /\ e \notin NoFsm
              THEN handed' = [event |-> e, count |-> counter[e]] /\ pc' = "Task"
              ELSE UNCHANGED <<handed, pc>>
    BY <1>4, <2>1 DEF TakeEntry, HasShare
  <2>3. CASE e # Null /\ mode[e] = "Active" /\ counter[e] > 0
    <3>1. QueueType /\ SlotsMatchCells /\ DeadUnqueued /\ ValidSize(Size[p]) /\ Null \in Entry
      BY TypeParts, SizeFacts, <2>1 DEF IInv, QueueInv
    <3>2. c \in LiveCells(queue[p], Size[p])
      <4>1. queue[p] \in Queues(Size[p], Entry) /\ Used(queue[p]) <= Size[p]
            /\ IsNotEmpty(queue[p])
        BY <1>4, <2>1, <3>1 DEF QueueType, TakeEntry, HasShare
      <4> QED BY <2>1, <3>1, <4>1, GetFacts, Zenon
    <3>3. e = queue[p].cell[c]
      BY <2>1 DEF Front
    <3>4. slot[e] = SlotOf(p, c) /\ e \in Event
      BY <2>1, <2>3, <3>1, <3>2, <3>3, LiveContent DEF SlotsMatchCells, Live
    <3>5. alive[e]
      BY <2>1, <3>1, <3>4, SlotFacts DEF DeadUnqueued
    <3>6. handed = Nothing
      BY <2>2 DEF IInv, HandedInv
    <3>7. Mailbox!Deliver(e)
      BY <2>2, <2>3, <3>5, <3>6 DEF Mailbox!Deliver, Mailbox!Due, Nothing, Mailbox!Nothing
    <3> QED BY <3>4, <3>7 DEF Mailbox!Next
  <2>4. CASE ~(e # Null /\ mode[e] = "Active" /\ counter[e] > 0)
    BY <2>2, <2>4 DEF Mailbox!vars
  <2> QED BY <2>3, <2>4
<1>5. CASE TaskWait
  <2>1. Mailbox!Return
    BY <1>5 DEF TaskWait, Mailbox!Return, Nothing, Mailbox!Nothing, eventVars
  <2> QED BY <2>1 DEF Mailbox!Next
<1> QED BY <1>1, <1>2, <1>3, <1>4, <1>5 DEF MainStep

\* Whatever happens to an event in its queues, its user sees a mailbox: every
\* Send is counted once, and the whole count is handed over once.
THEOREM MailboxImplemented == Spec => ImplementsMailbox
<1>1. IInv /\ [Next]_vars => [Mailbox!Next]_Mailbox!vars
  <2> SUFFICES ASSUME IInv, [Next]_vars PROVE [Mailbox!Next]_Mailbox!vars
    OBVIOUS
  <2>1. CASE MainStep
    BY <2>1, LoopMailbox
  <2>2. CASE TaskStep
    BY <2>2, TaskMailbox
  <2>3. CASE IsrStep
    BY <2>3, SendMailbox DEF IsrStep
  <2>4. CASE Stopped \/ UNCHANGED vars
    BY <2>4 DEF Stopped, vars, Mailbox!vars
  <2> QED BY <2>1, <2>2, <2>3, <2>4 DEF Next
<1> QED BY <1>1, InitMailbox, Invariance, PTL DEF Spec, ImplementsMailbox, Mailbox!Spec
================================================================================
