---------------------------------- MODULE Fsm ----------------------------------
(***************************************************************************)
(* FSM_t, Wait() (src/core/adx_fsm.h and adx_fsm.cpp) and Signal_t          *)
(* (adx_Signal.h and adx_Signal.cpp) on top of Kernel.  FSMs that have been *)
(* called and wait for the one they called form a list through ptrPrevFsm.  *)
(*                                                                          *)
(* ptrRunningFsm and ptrPrevFsm are null where main() is meant, and then    *)
(* Wait() goes on to SystemMainContext: here both are called Main.  A step  *)
(* of Fsm is what code does between two points at which an interrupt makes  *)
(* a difference; handlers send no signals and switch no contexts.           *)
(***************************************************************************)
EXTENDS Kernel, FiniteSets, Sequences

CONSTANTS Signal,      \* the signals
          GetFsm,      \* the FSM of each
          Sends,       \* the signals the code of each task sends
          AnEvent,     \* what the dispatcher calls an FSM with
          Null,        \* what Start() calls it with
          MaxCounter   \* the largest SignalCounter_t: 65535

\* "Signals can form a loop, thus control will never return to scheduler" (manual,
\* 3.3, item 7): applications are to let no signal go back up a chain of calls.
ASSUME FsmAssumption ==
  /\ IsFiniteSet(Task)
  /\ GetFsm \in [Signal -> Task]
  /\ Sends \in [Task -> SUBSET Signal]
  /\ MaxCounter \in Nat \ {0}
  /\ \E rank \in [Task -> 1..Cardinality(Task)] :
       \A t \in Task : \A s \in Sends[t] :
         GetFsm[s] = t \/ rank[t] < rank[GetFsm[s]]

VARIABLES
  ptrRunningFsm,
  ptrPrevFsm, ptrFsmSignal, FsmSignalCounter,   \* members of each FSM_t
  mode, Counter,                                \* members of each Signal_t
  toStart                                       \* the FSMs Start() has yet to run

callVars   == <<ptrRunningFsm, ptrPrevFsm, ptrFsmSignal, FsmSignalCounter>>
signalVars == <<mode, Counter>>
fsmVars    == <<callVars, signalVars, toStart>>
vars       == <<ptrSystemCurrentContext, cs_counter, ptrStackTop, sreg, SP, I,
                step, ptrPrevContext, isr, isrSreg, open, used,
                ptrRunningFsm, ptrPrevFsm, ptrFsmSignal, FsmSignalCounter,
                mode, Counter, toStart>>

Mode == {"Disabled", "Silent", "Active"}

Init ==
  /\ KernelInit
  /\ ptrRunningFsm = Main
  /\ ptrPrevFsm = [t \in Task |-> Main]
  /\ ptrFsmSignal = [t \in Task |-> Null]
  /\ FsmSignalCounter = [t \in Task |-> 0]
  /\ mode \in [Signal -> Mode]
  /\ Counter = [s \in Signal |-> 0]
  /\ toStart = Task

--------------------------------------------------------------------------------
\* FSM_t::operator()
CallFsm(t, s, n) ==
  /\ ptrFsmSignal' = [ptrFsmSignal EXCEPT ![t] = s]
  /\ FsmSignalCounter' = [FsmSignalCounter EXCEPT ![t] = n]
  /\ ptrPrevFsm' = [ptrPrevFsm EXCEPT ![t] = ptrRunningFsm]
  /\ ptrRunningFsm' = t
  /\ SwitchToContext(t)

\* Start() runs the next FSM of its list, whose order is that of construction.
Start(t) ==
  /\ SP = Main
  /\ t \in toStart
  /\ toStart' = toStart \ {t}
  /\ CallFsm(t, Null, 0)
  /\ UNCHANGED <<signalVars, I, used>>

\* ProcessNextEventInQue calls an FSM, after the critical section in which it
\* has taken an event for it.
Dispatch(t) ==
  /\ SP = Main
  /\ toStart = {}
  /\ Section
  /\ CallFsm(t, AnEvent, 1)
  /\ UNCHANGED <<signalVars, toStart>>

\* A Wait() that gives the processor to main() at once.
Wait_ToMain ==
  /\ ptrRunningFsm # Main
  /\ ptrRunningFsm' = Main
  /\ SwitchToContext(Main)
  /\ UNCHANGED <<ptrPrevFsm, ptrFsmSignal, FsmSignalCounter, signalVars, toStart, I, used>>

\* Wait(): back to the caller.
Wait ==
  /\ ptrRunningFsm # Main
  /\ ptrRunningFsm' = ptrPrevFsm[ptrRunningFsm]
  /\ SwitchToContext(ptrPrevFsm[ptrRunningFsm])
  /\ UNCHANGED <<ptrPrevFsm, ptrFsmSignal, FsmSignalCounter, signalVars, toStart, I, used>>

\* A counter that is not held at its limit.
OneMore_Unlimited(n) == n + 1

OneMore(n) == IF n < MaxCounter THEN n + 1 ELSE n

\* Main() may send any signal, a task those of Sends.
MaySend(s) == InCode /\ (SP # Main => s \in Sends[SP])

\* A signal calls its FSM even from within it.
Calls_Always(s) == mode[s] = "Active"

\* Send calls the FSM of an active signal, unless it is running.
Calls(s) == mode[s] = "Active" /\ GetFsm[s] # ptrRunningFsm

SendAndCall(s) ==
  /\ MaySend(s)
  /\ Calls(s)
  /\ Counter' = [Counter EXCEPT ![s] = 0]
  /\ Section
  /\ CallFsm(GetFsm[s], s, OneMore(Counter[s]))
  /\ UNCHANGED <<mode, toStart>>

\* Otherwise it counts, or, the signal being disabled, does not even that.
SendAndCount(s) ==
  /\ MaySend(s)
  /\ ~Calls(s)
  /\ Counter' = IF mode[s] = "Disabled" THEN Counter
                ELSE [Counter EXCEPT ![s] = OneMore(@)]
  /\ Section
  /\ UNCHANGED <<callVars, mode, toStart, switchVars, isrVars, countVars>>

\* Signal_t::SetMode, with a critical section only where it clears the counter.
SetMode(s, m) ==
  /\ InCode
  /\ mode' = [mode EXCEPT ![s] = m]
  /\ IF m = "Disabled"
     THEN Counter' = [Counter EXCEPT ![s] = 0] /\ Section
     ELSE UNCHANGED <<Counter, I, used>>
  /\ UNCHANGED <<callVars, toStart, switchVars, isrVars, countVars>>

\* What code does with the FSMs and signals.
CodeStep ==
  \/ \E t \in Task : Start(t) \/ Dispatch(t)
  \/ Wait
  \/ \E s \in Signal : SendAndCall(s) \/ SendAndCount(s)
  \/ \E s \in Signal, m \in Mode : SetMode(s, m)

\* What it and interrupt handlers do that is no concern of theirs.
KernelStep ==
  /\ Enter \/ Exit \/ Switching \/ IsrBegin \/ Handler
  /\ UNCHANGED fsmVars

Next == CodeStep \/ KernelStep

\* The processor goes on; interrupts leave it time for the code they interrupt;
\* and a task that runs again and again comes to its Wait() (tasks are
\* cooperative).
Fairness ==
  /\ WF_vars(Handler /\ UNCHANGED fsmVars)
  /\ SF_vars(Switching /\ UNCHANGED fsmVars)
  /\ \A t \in Task : SF_vars(Wait /\ ptrRunningFsm = t)

Spec == Init /\ [][Next]_vars
FairSpec == Spec /\ Fairness
--------------------------------------------------------------------------------
(* Properties *)

\* Every variable has its type.
TypeOK ==
  /\ ptrSystemCurrentContext \in Context
  /\ cs_counter \in [Context -> 0..(MaxNest + 1)]
  /\ ptrStackTop \in [Context -> Context]
  /\ sreg \in [Context -> BOOLEAN]
  /\ SP \in Context
  /\ I \in BOOLEAN
  /\ step \in {"Code", "Save", "Load", "Flags"}
  /\ ptrPrevContext \in Context
  /\ isr \in {"None", "Begun", "Section", "Done"}
  /\ isrSreg \in BOOLEAN
  /\ open \in [Context -> 0..MaxNest]
  /\ used \in [Context -> BOOLEAN]
  /\ ptrRunningFsm \in Context
  /\ ptrPrevFsm \in [Task -> Context]
  /\ ptrFsmSignal \in [Task -> Signal \cup {AnEvent, Null}]
  /\ FsmSignalCounter \in [Task -> 0..MaxCounter]
  /\ mode \in [Signal -> Mode]
  /\ Counter \in [Signal -> 0..MaxCounter]
  /\ toStart \subseteq Task

\* Whenever code runs, it is the code of the FSM that ptrRunningFsm names, on its
\* own stack, and critical sections are counted in its own context.
RightStack == InCode => SP = ptrRunningFsm /\ SP = ptrSystemCurrentContext

\* The FSM that called the i-th last one; main(), after the first of them.
Caller ==
  LET f[i \in 0..Cardinality(Task)] ==
        IF i = 0 THEN ptrRunningFsm
        ELSE IF f[i - 1] = Main THEN Main ELSE ptrPrevFsm[f[i - 1]]
  IN f

Depth == Cardinality({i \in 0..Cardinality(Task) : Caller[i] # Main})

\* The calls that have not returned: the FSMs, and what each has been called with.
CallList ==
  [i \in 1..Depth |-> LET t == Caller[i - 1] IN
    [fsm |-> t, signal |-> ptrFsmSignal[t], count |-> FsmSignalCounter[t]]]

Stack == INSTANCE CallStack WITH counter <- Counter, calls <- CallList

\* The list of FSMs is a stack of calls: Wait() returns "to the context, which
\* has called the current context" (FsmExample), no call is forgotten when
\* others are made from it, and no Send is told twice or not at all.
ImplementsCallStack == Stack!Spec

\* main() gets the processor back, from however deep a chain of calls.
ReturnsToMain == SP # Main ~> SP = Main
================================================================================
