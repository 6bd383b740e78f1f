# A verification project for AdxFSM

AdxFSM is a C++ framework for AVR XMEGA microcontrollers: cooperative tasks
(finite state machines with a stack each), signals, queued events, software
timers, a recursive mutex, data queues and a USART and an SPI driver built from
them.  One processor runs everything.  Tasks give up the processor only in
`Wait()`; interrupt handlers preempt tasks, the dispatcher and each other
wherever no critical section is open.  What is hard in this code is therefore

* the order in which interrupts, tasks and the dispatcher reach the state they
  share, one critical section at a time;
* pointers kept from one step to the next (an event's back pointer into a queue
  cell, a mutex reserved for an event);
* wrapping 8- and 16-bit counters compared with each other;
* wake-ups: who notifies a task that waits, and whether that can be missed.

The modules here are translated from the sources under `src/`; the manual
(`src/docs/AdxFSM_ReferenceManual`) and `src/README.md` are quoted only for what
they promise.

## 1. Inventory

**Kernel** (`kernel/`).  State: `ptrSystemCurrentContext`, per context the saved
registers, status register and `cs_counter`.  Operations: `Enter`/`Exit` of
critical sections, `InitTaskContext`, `SwitchContext`.  Every other part relies
on it: a critical section is atomic, and a task resumes with the interrupt state
it left with.  Hard: `SwitchToContext` changes the current context with
interrupts on.  Correct when an open critical section always means interrupts
off, and closing the last one always means on again.

**FSM and Wait** (`adx_fsm.h/.cpp`).  State: the list of FSMs, `ptrRunningFsm`,
each FSM's `ptrPrevFsm`, and the signal and count it was last called with.
`operator()` pushes an FSM on the chain of callers and switches to it; `Wait()`
pops it.  Correct when the chain is acyclic and `Wait()` returns to the caller.

**Signals** (`adx_Signal.h/.cpp`).  State: `Counter`, `Mode`.  `Send` calls the
FSM directly, from task code only.  Correct when no count is lost or given twice.

**System status** (`adx_SystemStatus`).  State: the one status record.  `Error`,
`Warning`, `Exit` set it from anywhere; the main loop fetches it and clears
warnings.  Correct when an error or an exit always stops the main loop.

**Events and dispatcher** (`adx_Event.h/.cpp`).  State: per event mode, counter,
priority, `pptrEventInQueue`; three static queues; three static counters of
successive calls.  `Send` (any context), `SetMode`, `SetPriority`, construction
and destruction (tasks), `ProcessNextEventInQue` (main loop).  Correct when
nothing sent to an active event is lost, nothing is delivered twice or to a dead
event, no priority starves, and overflow ends in the Error state.

**Event queues** (`adx_SystemQueue.h`).  State: array, `PutIndex`, `GetIndex`.
`Put`, `PutE`, `Get`.  Used by the dispatcher and the mutex inside critical
sections.  Correct when it is a bounded FIFO across the wrap of its indices.

**Timer events** (`adx_TimerEvent.h/.cpp`).  State: per timer period, counter and
all an event has; the global tick counter, the number of timers not disabled,
the interrupt enable of the hardware timer.  `TimerISR`, `SetMode`, `SetPeriod`,
`SleepFor`.  Correct when `SleepFor(n)` is due after `n` ticks and the clock
runs exactly while it is needed.

**Recursive mutex** (`adx_RecursiveMutex.h`).  State: owner, event it is reserved
for, counter, queue of waiting events.  `TryLock`, `Lock_bl`, `Unlock`.  Correct
when only one task holds it, its holder re-enters, and waiters get it in turn.

**Data queues** (`adx_DataQueue.h`).  State: ring, the size each side still
needs, a wake-up flag and a functor for each side.  `Put`/`Get`,
`Write`/`Read`, `Write_bl`/`Read_bl` and the two `Connect...` methods.  Correct
when elements keep their order and whoever waits is told.

**USART driver** (`adx_UsartDriver`).  State: two data queues, two mutexes,
`DRE_InterruptLevel`, `TxCompleteFlag`, and the hardware's data register and
interrupt enable.  `Config`, `OpenRead`/`OpenWrite` with their blocking forms,
`CloseRead`/`CloseWrite`, the two interrupts, and the functor the transmit buffer
calls from tasks and from an interrupt.  Correct when every byte written is sent
once, in order and never over another, and readers are told of what was received.
Hard: `Write` decides, moves and notifies with interrupts on.  `GetConfig`
searches, at compile time, for a divisor and a scale that make a baud rate:
correct when it finds one whenever there is one.

**SPI driver** (`adx_rfctl_SPI_Driver`).  Ten ports on three SPIs and two USARTs in
SPI mode; polling transfers, the same steps copied for each port.  No state of its
own: what one call leaves in the hardware's flags and registers is what the next
finds.  Correct when all bytes are exchanged in order while the chip is selected.

**Data-carrying signals and events** (`adx_SaE_Data.h`, `adx_DataEvent.h`,
`adx_DataSignal.h`), **system clock** (`adx_SystemClock`), **examples**.

How they interact: interrupt handlers call `Send`, `Put` and driver functors;
`Send` puts a pointer to the event in a queue; the main loop takes it out and
calls the FSM, which switches to the task; `Lock_bl`, `Read_bl`, `Write_bl` and
`SleepFor` are loops or sequences of `SetMode`, `Send` and `Wait()` over an event
their caller passes in.

## 2. Modules

| module | what it is | code |
|---|---|---|
| `Kernel` | contexts, critical sections, the switch, interrupts | `kernel/` |
| `Fsm` | `operator()`, `Start`, `Wait()` and signals, on `Kernel` | `adx_fsm.h/.cpp`, `adx_Signal.h/.cpp` |
| `CallStack` | what they promise: FSMs call one another as functions do | |
| `SystemQueueOps` | the ring as operators, for atomic use | `adx_SystemQueue.h` |
| `SystemQueue` | the ring access by access | `adx_SystemQueue.h` |
| `BoundedFifo` | what both rings promise | |
| `SystemStatus` | the status record as operators | `adx_SystemStatus.cpp` |
| `EventSystem` | events, dispatcher, main loop, interrupts | `adx_Event.h/.cpp`, main loop of the examples |
| `EventMailbox` | what an event promises | |
| `RecursiveMutex` | the mutex and its cooperative users | `adx_RecursiveMutex.h` |
| `FairLock` | what the mutex promises | |
| `TimerEvent` | timers, timer interrupt, `SleepFor` | `adx_TimerEvent.h/.cpp` |
| `Countdown` | what a timer promises | |
| `DataQueue` | put side, get side, wake-up rules; two tasks | `adx_DataQueue.h` |
| `BaudRate` | the search for baud-rate settings, as functions | `adx_UsartDriver.h` |
| `UsartDriver` | a data queue behind and before the interrupts of a USART | `adx_UsartDriver.h/.cpp` |
| `SpiDriver` | a call of the SPI driver step by step, and the hardware | `adx_rfctl_SPI_Driver.cpp` |
| `SpiBus` | what an SPI transfer promises | |
| `SystemQueueOpsProofs`, `SystemQueueProofs`, `EventSystemProofs`, `RecursiveMutexProofs`, `TimerEventProofs`, `FsmProofs`, `UsartDriverProofs`, `SpiDriverProofs` | theorems | |
| `MC...` | values of the constants for TLC | |

`Fsm` extends `Kernel`, whose steps interleave with its own.  What the two
establish, that a critical section is atomic and that a task goes on where it
called `Wait()` or `Send`, is what every other module builds on.
`EventSystem` and `RecursiveMutex` extend `SystemQueueOps`; `EventSystem` extends
`SystemStatus` too; `UsartDriver` extends `DataQueue` and `BaudRate`.  A step of `EventSystem` is one critical section, which is
what the code makes atomic.  `RecursiveMutex`, `TimerEvent`, `DataQueue` and
`UsartDriver` do not carry the queues of events along: they keep of an event only "counted" and
"delivered", which is what `EventMailbox` states and `EventSystem` is shown (by
proof) to implement.

Correspondence of state and actions, beyond equal names:

* `Kernel.step` is where the processor is in `SwitchToContext` and
  `SwitchContext`: the current context is changed, the registers are saved, the
  stack pointer is loaded, the status register is loaded.  Of the registers the
  module keeps those that matter: whose stack the stack pointer is in, and the
  interrupt flag.  An interrupt handler (`isr`) may strike between any two of
  these steps when the flag is set; it does not clear the flag (an XMEGA does not)
  and counts its critical section wherever `ptrSystemCurrentContext` points.
  `open[c]` is how many critical sections the code of context `c` is in, and
  `used[c]` that it has been in one (history variables: the code has only
  `cs_counter`, which `CountersIndependent` compares with the former).
* In `Fsm` a null `ptrRunningFsm` or `ptrPrevFsm` is `Main`.  The list from
  `ptrRunningFsm` along `ptrPrevFsm` (`Caller`) is mapped to the stack of
  `CallStack` (`CallList`).
* `EventSystem.slot` is `pptrEventInQueue`: the queue and the cell it points to.
  `pc`, `stage` and `succ` are where the main loop is, which of the dispatcher's
  three copied loops it is in, and their static counters; `handed` is what the
  running FSM was called with.  `TaskStep` is what the code of a task may call
  before it waits; `IsrStep` is `Send` from an interrupt handler, possible
  between any two steps.
* `RecursiveMutex.pc` says where each task is; `held` counts the locks a task was
  given and has not returned (a history variable: the code has one `Counter`).
  `Wake` and `StrayWake` are a blocked task's return from `Wait()` in `Lock_bl`,
  with the retry of `TryLock` that follows at once.  `TryLock` is a call that was
  refused by a task that goes on without waiting, as `UsartDriver_t::OpenWrite`
  does.  `orderly` says that nobody has done that so far, that no blocked task was
  woken by anything but its event, and that the queue of waiters had room
  (history): only then is the mutex a queue of people who wait.
* `TimerEvent.pc` splits `SleepFor` at its critical sections; `owed` counts the
  ticks a sleeping task must still wait (history).
* `DataQueue` describes the two sides, which mirror each other in the code, once:
  `Remain[s]`, `WakeupFlag[s]` and the functor of side `s`.  A blocking call is
  `Begin`, then `Check`, `Move`..., `Stop`, `Short`, `Notify`, and `Resume`
  when woken.  Here both sides are tasks; a task is not interrupted by another.
* `UsartDriver.kind` chooses what the buffer is connected to, for good: two tasks,
  the receive interrupt (`RxDataBuffer`) or the driver (`TxDataBuffer`).  The steps
  of a task's call are those of `DataQueue`; `PutDataToRxBufferFromISR` and
  `DRE_vect` strike between any two of them.  `Transmit` is the driver's functor,
  called by `NotifyDriver` (the end of a Write) or by the interrupt.  `DATA` and
  `DRE` are the data register and the interrupt that reports it empty; `Shift` is
  the hardware.  `lapse` (history) says that a byte came between a reader finding
  the buffer empty and saying so (finding 4), that the driver went idle between a
  writer's decision and its byte (finding 5), or that the driver was written to
  before it had a configuration, after which nothing is sent at all.
* `SpiDriver.pc` is where the one call is: `Store`, `Poll`, `Take`, `Clear`,
  `Raise`.  The ten copies of the transfer differ in the hardware, and the hardware
  is of two kinds.  `txbuf`, `shift`, `rxbuf` and `complete` are that hardware, and
  `EndFrame` its only action, which may come between any two steps: a frame takes
  as long as it takes, and an interrupt may hold up the call for as long.  That
  a USART gives up what it has received when the received flag is cleared, and
  that an SPI's flag is cleared by an access to its data after the flag was read,
  are facts about the chip that the driver relies on.  `late` (history) names the
  USARTs that ran dry in the middle of a Write.

Names with an underscore (`HasShare_OffByOne`) are faulty variants of the
operators they are named after; no specification uses them.

## 3. Runs

| run | shows | bounds |
|---|---|---|
| `EventSystem` | back pointers and queue cells always agree, no dead event is queued, no wake-up is lost; the dispatcher implements `EventMailbox`; nothing starves; errors and exits stop the loop | a static event and one constructed and destroyed at will, 2 priorities in use, queues of 1, 1 successive call, sends that never stop |
| `Fsm` | FSMs call and return like functions, over a context switch that interrupts may strike anywhere; `main()` gets the processor back; critical sections and the interrupt flag of each context are kept | 2 tasks, a signal that both and `main()` send, sections nested twice, counters up to 2 |
| `SystemQueue` | the ring is a bounded FIFO with all memory accesses interleaved | 4 cells, indices modulo 8 |
| `RecursiveMutex` | exclusion and re-entrance, and nobody forgotten, whatever users do; first come first served and everybody served while they are orderly | 3 tasks, one that polls, one with stray wake-ups; room for 2 waiters, nesting 2 |
| `MutexNesting` | finding 1 | 2 tasks, one with two events |
| `TimerEvent` | timers count down; `SleepFor` is exact and returns; the clock runs exactly when needed | 2 timers, tick counters modulo 3 |
| `TimerInitMode` | finding 2 | 2 timers, one constructed Active |
| `UsartDriver` | FIFO; tasks are notified; calls return; no byte is overwritten or left behind; a closed side is silent; baud rates are met | 3 connections, buffer of 2, calls for 1 and 2 bytes, 2 byte values, 13 baud rates |
| `SpiDriver` | transfers implement `SpiBus`, leave nothing behind and end | an SPI and a USART, 2 byte values, calls of 1 to 3 bytes |
| `DataQueueBlocked` | finding 3 | buffer of 4, a read of 6, writes of 1 and 4 |
| `DataQueueReader` | finding 4 | buffer of 2, a receiver |
| `UsartStall` | finding 5 | buffer of 2, a transmitter |

Why the bounds are enough.  Index and tick widths are parameters: what matters is
that they wrap (they do, many times) and that the size divides the index width,
which the assumptions state.  Two events in queues of one cell overflow them,
fill them with entries of dead events and meet in one queue; two priorities in
use are what it takes to starve one.  A `MaxCounter` of 1 or 2 saturates.  Three
tasks are a holder, one to be handed the mutex and one to overtake it.  Two FSMs
make a chain of calls two deep, one of them switched away from inside a nested
critical section.  A buffer of 2 has an empty, a half-full and a full state, and a
call for 2 can be left half done.  A call of 3 bytes has a first, a middle and a
last one, which is where the loops of the SPI driver differ; a USART's two
registers are full with 2.  The rates are the usual ones, at the 2 MHz an XMEGA
starts with (TLC's integers have 32 bits: at 32 MHz the products of the search,
which are 64 bits wide in the code, would not fit).  For
everything listed in section 5 the bounds do not matter: it is proved.
Two bounds are not parameters of the code: `MaxDepth` of `RecursiveMutex` bounds
the nesting of locks, in the guard of `Lock_bl`, and `MaxNest` of `Kernel` that
of critical sections, in the guard of `Enter`.

**Fairness.**  `EventSystem`: weak fairness of the main loop, which is what a
processor that executes instructions gives; tasks return to `Wait()`, as
cooperative tasks must.  Nothing is assumed of senders, of interrupts, or of
what tasks do.  The other modules assume strong fairness of the delivery of a
due event: `EventSystem`'s `NoStarvation` is the statement that justifies it.
`NoStarvation` is about events with an FSM: the code does not count an event
without one against the share of its priority, so an endless stream of those is
not limited.
`Fsm` assumes that handlers end, that the switch goes on however often it is
interrupted, and that a task whose code runs again and again comes to its
`Wait()` (tasks are cooperative); that the chain of calls ends is not assumed.
`RecursiveMutex` also assumes that holders unlock, which the manual asks of them
(3.11).  `TimerEvent` assumes that the hardware timer goes on while its interrupt
is on, and nothing when it is off: that `SleepFor` returns depends on the code
keeping it on.  `UsartDriver` assumes that tasks go on making calls, that bytes keep arriving,
and that the hardware shifts out what it has and strikes while an interrupt is on;
nothing is assumed of `Config`, of opening and closing, or of an interrupt that is
off.  `SpiDriver` assumes that the processor executes the call and that a frame
ends.

**Deadlock** is checked in all runs but `UsartDriver` and `UsartStall`, where the
system may really stop: a driver that is written to before `Config` keeps its
first byte in the data register for ever, and `Config` then refuses.  The main
loop that has ended stutters in an action of its own (`Stopped`).

**Conditions.**  Some properties are claimed under a history variable: `orderly` of
`RecursiveMutex`, `lapse` of `UsartDriver`, `late` of `SpiDriver`.  Each names the
situations, all of them in the runs, in which the code does not keep the promise.
What must hold in these situations too is stated without them: exclusion,
re-entrance, the order of bytes, that none is overwritten, that a call of the SPI
driver ends.

## 4. Findings

1. `MutexNesting` (`adx_RecursiveMutex.h:60`).  The manual promises that nested
   locks may use different events of one FSM.  Once a task got the mutex by a
   handover, `ptrWaitingSignal` still names the event it came with; a nested lock
   with another event fails the outer test of `TryLock`, is queued, and the owner
   blocks on itself.
2. `TimerInitMode` (`adx_TimerEvent.cpp:16`).  A timer constructed Active or
   Silent is not counted in `NofNotDisabledTimerEvents`.  With a second one that is
   switched on later, the count is one for two timers: disabling the first, as in
   the run, stops the clock under the second (and the other way round).
3. `DataQueueBlocked` (`adx_DataQueue.h:190`).  The decision to wake the reader
   is taken before the data are moved.  A write that starts below half full, fills
   the buffer and does not satisfy a reader that wants more than the buffer holds
   wakes nobody and blocks; both tasks then wait for ever.
4. `DataQueueReader` (`adx_DataQueue.h:171`).  An interrupt that puts an element
   after the reader found the buffer empty, and before it stored what it needs,
   notifies nobody; the reader sleeps beside the element.
5. `UsartStall` (`adx_DataQueue.h:100`).  The mirror image: `Write` finds that the
   driver needs no waking, because it still transmits; the interrupt then finds the
   buffer empty and switches itself off; the byte `Write` moves next stays in the
   buffer, with `Write_bl` returned, until somebody writes again.

## 5. Proofs

All theorems hold for every value of the constants allowed by the named
assumptions (`KernelAssumption`, `FsmAssumption`, `EventAssumption`, `MutexAssumption`, `TimerAssumption`,
`IndexModAssumption`, `SizeAssumption`, `DataQueueAssumption`, `BaudRateAssumption`, `UsartDriverAssumption`, `SpiDriverAssumption`): in short, sizes divide the number of index values at least
twice (the code's three `static_assert`s), limits and counters are positive, null
is not an object.

* `FsmProofs`: `TypeCorrect`, `StackCorrect`, `SectionsCorrect`,
  `InterruptsCorrect`, `CountersCorrect`, for any number of tasks and signals and
  any nesting.  The properties speak of code that runs; to be inductive the
  invariant must speak of what is suspended, and of the middle of a switch.
  `Flags` says that the status register saved for every other context, or the one
  an interrupt handler will restore, is right for the critical sections that
  context is in.  `Counted` says that `cs_counter` is the number of those
  sections, plus one in the current context while a handler is in one; that is
  why a handler in the middle of a switch, which counts in the next context,
  does no harm: it takes back what it added before the next context runs, and
  restores the flag of the one it interrupted.  `Stacks` says which stack the
  processor is on at each step of the switch.
  The refinement `CallsAreAStack` is about the chain of callers, a recursive
  function of `ptrRunningFsm` and `ptrPrevFsm`.  `FsmAssumption` (no signal goes back
  up a chain of calls) gives the FSMs a `Rank`, and `ListInv` says that each has
  been called from below.  So the ranks along a chain go down (`ChainRanks`), the
  chain ends within as many links as there are FSMs (`ChainDepth`), and no FSM is
  in it twice; a call is one more link in front (`ChainPush`, `CallsPush`) and
  `Wait()` takes it off (`ChainPop`, `CallsPop`), with what the other FSMs were
  called with untouched.
* `SystemQueueOpsProofs`: facts about `%`, and what `Put` and `Get` do to the live
  cells of a ring whose indices wrap: `Put` adds exactly the cell it wrote, `Get`
  removes exactly the front cell, no other cell changes its place, and the order
  from front to back stays.
* `SystemQueueProofs`: `TypeCorrect`, `SidesAgree` and the refinement `RingIsFifo`,
  for rings and indices of every size.  `TypeOK` and `Handshake` together are
  inductive: the cell the producer writes into is outside the live ones (`OwnCell`),
  so neither side can spoil what the other has seen.
* `EventSystemProofs`: `TypeCorrect`, `SlotsAreRight`, `NoDanglingEntry`,
  `WakeupsAreKept`, and the refinement `MailboxImplemented`.  The inductive
  invariant is `IInv`.  `SlotsMatchCells` alone is nearly inductive; the
  destructor needs that dead events are in no queue (`DeadUnqueued`), from which
  `QueuedEventsExist` follows; the return of a task needs that the stage had not
  used its share (`HandedInv`).  The dispatcher's entry-taking step is the hard
  one: the front cell's event loses its slot, every other slot stays live, and
  that no other slot names the front cell is where uniqueness is used.
  `EnoughCells` answers what an application has to choose the queue sizes by: with
  static events only, and a cell for each of them in the queues it uses
  (`CellForEach`), `QueueOverflow` is never reported.  No live cell is empty then
  (`Filled`), so a full queue would hold as many different events as it has cells,
  and the one to be queued is not among them: too many, by the pigeonhole
  principle (`FreeCell`).  Both hypotheses are needed: with events that come and go
  there is a counterexample of two events and queues of two cells, since the
  entries that destructors empty still take up cells until the dispatcher meets
  them.
* `RecursiveMutexProofs`: `TypeCorrect`, `Exclusive` and `ForgetsNobody` for any
  number of tasks and events, with overflow, polling users and stray wake-ups;
  `OwnerMayNest` and the refinement `HandsOnFairly` for tasks with one event each
  (finding 1 is why the hypothesis is there).  `OwnerInv` says that all locks are the
  owner's and `Counter` is their number; mutual exclusion is a corollary.
  `NobodyForgotten` alone is not inductive: `WInv` adds that a mutex that is held is
  reserved for nobody but its owner (`ReservedInv`), and, as long as all is orderly,
  that an event is queued at most once, is then not sent, and belongs in either
  case to a task that is blocked with it (`OrderInv`).  So a task that asks is not in
  the line yet, and `LineType`, `JoinsLine` and `LeavesLine` show that the queue is
  the line of `FairLock`.
* `TimerEventProofs`: `TypeCorrect`, `ExactSleep`, the refinement `CountsDown`,
  and `ClockIsRight` for timers constructed Disabled (finding 2 is why the
  hypothesis is there).  `TInv` records what `SleepFor` has achieved at each of
  its steps; while it waits, the distance of the timer's counter from the global
  one, modulo the width, is the number of ticks owed less one.  `CountInv` and
  `ClockInv` relate `NofNotDisabled` to the cardinality of the timers that are on.

* `UsartDriverProofs`: `TypeCorrect`, `ClosedSilent`, `NoMissedWakeup`, `KeepsRunning`,
  `NoOverwrite` and the refinement `BufferIsFifo`, for every size of buffer, index and
  call and all three connections.  `WaitersAreNotified` speaks of a side that waits
  with the other at rest; what makes it inductive is what is known in the middle of
  a call.  `AskedInv` says that a side which waits has been notified, or is about to
  be, or has left the size it needs; `NeedsInv`, that this size is more than there
  is, and more than there will be when a call of the other side that is under way
  has moved all of its elements; `FlagInv`, `OpenInv` and `DriverSideInv`, who may have a decision or a
  notification outstanding at all.  Of the transmitter, `IdleInv` and `RunningInv`
  say when the data register is empty and the interrupt on: from the former
  follows that no byte is written over another (`NoByteOverwritten`), even where a
  lapse has stopped the transmitter.
  `RatesMet` is about `BaudRate`: with any clock and rates, what is kept of what the
  search found (`BestFound`), made legal (`NormalMeets`) and packed into two registers
  (`RegistersHold`) makes the rate.  Its hypothesis `SearchFinds` is that the search
  finds something for each rate the hardware can make.  That is no fact about every
  number: the code rounds the rate a setting makes down to whole bauds, so that at
  rates of a few bauds settings count as good which the search does not try (with
  `Fper` = 2048 * 4100 and a rate of 1 the two divisors tried for the largest scale
  are just out of range, and smaller ones would do).  Where the hypothesis fails, `RatesAreMet`
  fails too; for the rates and the clock of the run TLC shows the latter, without it.

* `SpiDriverProofs`: `TypeCorrect`, `CallsLeaveNothing` and the refinement
  `DriverImplementsBus`, for every set of ports and calls of every size up to 255.
  `IInv` says what the hardware is like at each step of a call (`Phase`) and
  between calls (`Rested`).  The refinement needs in addition where the call is in
  its bytes (`Position`): those sent, the one on the line, the one in the second
  register and those of the buffer that are still to go make up, in this order,
  the bytes asked for; and for a Read that the part of the buffer already passed
  holds the answers.

Events without an FSM, which the run `EventSystem` has none of, are covered by
the theorems about it: `NoFsm` is any set of events there.

Only model-checked: everything under fairness (`NoStarvation`, `FailureStopsLoop`,
`EveryRequestGranted`, `SleepReturns`, `CallsReturn`, `ReturnsToMain`), which is out
of the prover's reach, and that `SearchFinds` holds for the usual rates, an
evaluation.  All invariants, action properties and refinements of the passing runs
are proved.

On induction.  The library's induction theorems take an operator as a parameter,
which none of the provers can instantiate.  `FsmProofs` does without: that a set of
numbers which is not empty has a least element follows from `NatLessThanWellFounded`
and `WFMin` (`LeastElement`), and from that, for a set instead of a predicate, that
what holds of zero, and of each number if of the one before, holds of all (`UpTo`).
`ChainDef` proves with it that the recursive definition of the chain has a value, and
that this satisfies it.

## 6. Not modelled, and the plan

Abstractions in what is modelled: line numbers, file hashes and error handlers of
the status; reordering by the compiler (the elements of `DataQueue_t` are not
volatile, its indices are); the array of timers and its overflow; timers that are
destroyed (the class has no destructor for it); the wrap of the mutex's 8-bit
counter (an `Unlock` that finds it zero does nothing, and is no action); signals as
functors of mutexes and data queues.  Of the USART: port pins, interrupt levels,
frame formats, receive errors; the frame on the line after the data register is
empty (`TxCompleteFlag` is set before it has ended, so `Config` may cut it short);
nested sessions (a nested open succeeds, and the first close disconnects the
functor for the outer one as well); closing what somebody else has opened.  Of the
SPI driver: the two speeds, which say how long a frame takes, and the error for an
unknown port.
Of the interrupt levels of an XMEGA there is one: handlers do not interrupt each
other in `Kernel`.  The pointer to the current context is stored in one step, where
an 8-bit processor takes two with interrupts on (`adx_kernel.h:37`): a handler
between the two counts its critical section in a byte at an address that is neither
context, up and down again (except a byte of 255, which `Exit` then leaves at 0).
The bytes of stacks and most registers are left out, and the
8 bits of `cs_counter`, which would take 256 nested critical sections to wrap.
Signals that are sent in a circle are excluded (`FsmAssumption`), as the manual
leaves them to the application (3.3, item 7).
Two things the code does and a reader may not expect: a task starts with a
cleared status register, so it runs with interrupts off until it first leaves a
critical section (hence `used` in `InterruptsBack`); and a task that gets an
active signal before `Start()` has come to it runs for that signal first and is
then resumed by `Start()` with a null one.
An element of a data queue is copied and its index advanced in one step, which
the run `SystemQueue` justifies for a ring of the same construction.

Order of the plan (all done):

1. `SystemQueueOps`, `SystemStatus`, `EventSystem`, `EventMailbox` with proofs:
   everything else waits on events.
2. `SystemQueue` and `BoundedFifo`, with proofs.
3. `RecursiveMutex`, `FairLock`, both proved; polling users.
4. `TimerEvent`, `Countdown`, both proved.
5. `DataQueue`.
6. `Kernel`, `Fsm`, `CallStack`: critical-section counters, the switch, interrupts
   and the chain of callers with signals, all proved.
7. `UsartDriver`: the data queue with both interrupts of the driver; `BaudRate`: the
   search against a reference definition over the usual rates; safety proved.
8. `SpiDriver`, `SpiBus`: transfers over the two kinds of hardware, proved.
9. A theorem that static events never overflow queues with a cell for each
   (`EnoughCells`).

Left out for good: the system clock and the port set-up of the drivers (fixed
sequences of register writes), data-carrying events (one variable in a critical
section), and the examples, which are read for how the framework is used.
