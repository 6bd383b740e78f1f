------------------------------- MODULE FsmProofs -------------------------------
(***************************************************************************)
(* Theorems about contexts and critical sections, for any number of tasks   *)
(* and signals and any depth of nesting.  A context that is not running     *)
(* must be known to be right as well as one that is: the invariant speaks   *)
(* of the interrupt flag a context will run with when it is switched to.    *)
(***************************************************************************)
EXTENDS Fsm, TLAPS, FiniteSetTheorems, WellFoundedInduction

\* The types of the variables of Kernel, and of those of Fsm.
KernelType ==
  /\ ptrSystemCurrentContext \in Context
  /\ cs_counter \in [Context -> 0..(MaxNest + 1)]
  /\ ptrStackTop \in [Context -> Context]
  /\ sreg \in [Context -> BOOLEAN]
  /\ SP \in Context
  /\ I \in BOOLEAN
  /\ step \in {"Code", "Save", "Load", "Flags"}
  /\ ptrPrevContext \in Context
  /\ isr \in {"None", "Begun", "Section", "Done"}
  /\ isrSreg \in BOOLEAN
  /\ open \in [Context -> 0..MaxNest]
  /\ used \in [Context -> BOOLEAN]

FsmType ==
  /\ ptrRunningFsm \in Context
  /\ ptrPrevFsm \in [Task -> Context]
  /\ ptrFsmSignal \in [Task -> Signal \cup {AnEvent, Null}]
  /\ FsmSignalCounter \in [Task -> 0..MaxCounter]
  /\ mode \in [Signal -> Mode]
  /\ Counter \in [Signal -> 0..MaxCounter]
  /\ toStart \subseteq Task

\* The critical section of a handler is counted in the current context.
OfHandler(c) == IF isr = "Section" /\ c = current THEN 1 ELSE 0
Counted == \A c \in Context : cs_counter[c] = open[c] + OfHandler(c)

\* The processor is on the stack of the context that was left until that of the
\* next is loaded; every stack pointer that was saved is one of its own stack.
Stacks == /\ step \in {"Code", "Flags"} => SP = current
          /\ step \in {"Save", "Load"} => SP = ptrPrevContext
          /\ ptrRunningFsm = current
          /\ \A c \in Context : ptrStackTop[c] = c

\* A handler runs only where interrupts were on, and will leave them on.
Handled == /\ isr # "None" => isrSreg
           /\ isr = "Begun" => I
           /\ isr = "Section" => ~I

\* What is asked of the interrupt flag of a context.
Right(c, flag) == /\ open[c] > 0 => ~flag
                  /\ used[c] /\ open[c] = 0 => flag

\* The flag of the code that is running, or that a handler will go back to.
Flag == IF isr = "None" THEN I ELSE isrSreg

\* It is right for the context that runs, and the saved one for every other.
Flags == /\ step \in {"Code", "Save"} => Right(SP, Flag)
         /\ \A c \in Context : (step \in {"Code", "Save"} => c # SP) => Right(c, sreg[c])

KInv == Counted /\ Stacks /\ Handled /\ Flags
IInv == KernelType /\ FsmType /\ KInv

--------------------------------------------------------------------------------
\* TypeOK is the types of the two modules.
LEMMA TypeParts == /\ TypeOK <=> KernelType /\ FsmType
                   /\ TypeOK' <=> KernelType' /\ FsmType'
  BY DEF TypeOK, KernelType, FsmType

\* What the constants are.
LEMMA Constants ==
  /\ Main \notin Task /\ Main \in Context /\ Task \subseteq Context
  /\ MaxNest \in Nat /\ MaxNest > 0
  /\ MaxCounter \in Nat /\ MaxCounter > 0
  /\ GetFsm \in [Signal -> Task]
  BY KernelAssumption, FsmAssumption DEF Context

\* A counter stays within its type.
LEMMA OneMoreType == \A n \in 0..MaxCounter : OneMore(n) \in 0..MaxCounter
  BY Constants DEF OneMore

\* The invariant holds when main() starts.
LEMMA InitInv == ASSUME Init PROVE IInv
<1> USE Constants DEF Init, KernelInit
<1>1. KernelType
  <2>1. cs_counter \in [Context -> 0..(MaxNest + 1)] /\ open \in [Context -> 0..MaxNest]
    OBVIOUS
  <2>2. sreg \in [Context -> BOOLEAN] /\ used \in [Context -> BOOLEAN]
    BY Zenon
  <2>3. I \in BOOLEAN /\ isrSreg \in BOOLEAN /\ ptrStackTop \in [Context -> Context]
    BY Zenon
  <2> QED BY <2>1, <2>2, <2>3 DEF KernelType
<1>2. FsmType
  BY DEF FsmType
<1>3. Counted /\ Stacks /\ Handled
  BY DEF Counted, OfHandler, Stacks, Handled, current
<1>4. Flags
  BY DEF Flags, Right, Flag
<1> QED BY <1>1, <1>2, <1>3, <1>4 DEF IInv, KInv

\* Entering and leaving a switch, a handler or a critical section keeps it.
LEMMA KernelInv == ASSUME IInv, KernelStep PROVE IInv'
<1> USE Constants DEF IInv, KernelStep
<1>1. FsmType' /\ ptrRunningFsm' = ptrRunningFsm
  BY DEF FsmType, fsmVars, callVars, signalVars
<1>2. CASE Enter
  <2> USE <1>2 DEF Enter, EnterSection, InCode, switchVars, isrVars
  <2>1. KernelType'
    <3>1. open[SP] + 1 \in 0..MaxNest /\ cs_counter[current] + 1 \in 0..(MaxNest + 1)
      BY DEF KernelType, KInv, Counted, OfHandler, Stacks, current
    <3> QED BY <3>1 DEF KernelType
  <2>2. Counted' /\ Stacks' /\ Handled'
    BY <1>1 DEF KernelType, KInv, Counted, OfHandler, Stacks, Handled, current
  <2>3. Flags'
    BY DEF KernelType, KInv, Stacks, Flags, Right, Flag, current
  <2> QED BY <1>1, <2>1, <2>2, <2>3 DEF KInv
<1>3. CASE Exit
  <2> USE <1>3 DEF Exit, ExitSection, InCode, switchVars, isrVars
  <2>1. KernelType'
    <3>1. open' \in [Context -> 0..MaxNest]
      BY DEF KernelType
    <3>2. cs_counter' \in [Context -> 0..(MaxNest + 1)]
      BY DEF KernelType, current
    <3>3. I' \in BOOLEAN
      BY Zenon
    <3> QED BY <3>1, <3>2, <3>3 DEF KernelType
  <2>2. Counted' /\ Stacks' /\ Handled'
    BY <1>1 DEF KernelType, KInv, Counted, OfHandler, Stacks, Handled, current
  <2>3. Flags'
    BY DEF KernelType, KInv, Counted, OfHandler, Stacks, Flags, Right, Flag, current
  <2> QED BY <1>1, <2>1, <2>2, <2>3 DEF KInv
<1>4. CASE Switching
  <2> USE DEF isrVars, countVars
  <2>1. CASE SaveContext
    BY <1>1, <2>1 DEF SaveContext, KernelType, KInv, Counted, OfHandler, Stacks, Handled,
       Flags, Right, Flag, current
  <2>2. CASE LoadStack
    BY <1>1, <2>2 DEF LoadStack, KernelType, KInv, Counted, OfHandler, Stacks, Handled,
       Flags, Right, Flag, current
  <2>3. CASE LoadFlags
    BY <1>1, <2>3 DEF LoadFlags, KernelType, KInv, Counted, OfHandler, Stacks, Handled,
       Flags, Right, Flag, current
  <2> QED BY <1>4, <2>1, <2>2, <2>3 DEF Switching
<1>5. CASE IsrBegin
  BY <1>1, <1>5 DEF IsrBegin, switchVars, countVars, KernelType, KInv, Counted, OfHandler,
     Stacks, Handled, Flags, Right, Flag, current
<1>6. CASE Handler
  <2>1. CASE IsrEnter
    <3> USE <2>1 DEF IsrEnter, EnterSection, switchVars
    <3>1. KernelType'
      <4>1. cs_counter[current] + 1 \in 0..(MaxNest + 1)
        BY DEF KernelType, KInv, Counted, OfHandler, current
      <4> QED BY <4>1 DEF KernelType
    <3>2. Counted' /\ Stacks' /\ Handled'
      BY <1>1 DEF KernelType, KInv, Counted, OfHandler, Stacks, Handled, current
    <3>3. Flags'
      BY DEF KernelType, KInv, Flags, Right, Flag
    <3> QED BY <1>1, <3>1, <3>2, <3>3 DEF KInv
  <2>2. CASE IsrExit
    <3> USE <2>2 DEF IsrExit, ExitSection, switchVars
    <3>1. KernelType'
      <4>1. cs_counter' \in [Context -> 0..(MaxNest + 1)]
        BY DEF KernelType, current
      <4>2. I' \in BOOLEAN
        BY Zenon
      <4> QED BY <4>1, <4>2 DEF KernelType
    <3>2. Counted' /\ Stacks' /\ Handled'
      BY <1>1 DEF KernelType, KInv, Counted, OfHandler, Stacks, Handled, current
    <3>3. Flags'
      BY DEF KernelType, KInv, Flags, Right, Flag
    <3> QED BY <1>1, <3>1, <3>2, <3>3 DEF KInv
  <2>3. CASE IsrEnd
    BY <1>1, <2>3 DEF IsrEnd, switchVars, countVars, KernelType, KInv, Counted, OfHandler,
       Stacks, Handled, Flags, Right, Flag, current
  <2> QED BY <1>6, <2>1, <2>2, <2>3 DEF Handler
<1> QED BY <1>2, <1>3, <1>4, <1>5, <1>6

\* A call or a Wait() from code leaves it in the middle of a switch, with the
\* flag the code had or, after a critical section of its own, the right one.
LEMMA SwitchInv ==
  ASSUME IInv, NEW c \in Context, SwitchToContext(c), ptrRunningFsm' = c, FsmType',
         (I' = I /\ used' = used) \/ Section
  PROVE  IInv'
<1> USE Constants DEF IInv, SwitchToContext, InCode, isrVars, countVars
<1>1. KernelType'
  <2>1. I' \in BOOLEAN /\ used' \in [Context -> BOOLEAN]
    BY DEF KernelType, Section
  <2> QED BY <2>1 DEF KernelType
<1>2. Counted' /\ Stacks' /\ Handled'
  BY DEF KernelType, KInv, Counted, OfHandler, Stacks, Handled, current
<1>3. Flags'
  <2>1. CASE I' = I /\ used' = used
    BY <2>1 DEF KernelType, KInv, Stacks, Flags, Right, Flag, current
  <2>2. CASE Section
    <3>1. (I' <=> open[SP] = 0) /\ used' = [used EXCEPT ![SP] = TRUE]
      <4>1. I' <=> cs_counter[current] = 0
        BY <2>2, Zenon DEF Section
      <4>2. cs_counter[current] = open[SP]
        BY DEF KernelType, KInv, Counted, OfHandler, Stacks, current
      <4> QED BY <2>2, <4>1, <4>2, Zenon DEF Section
    <3>2. Right(SP, Flag)'
      BY <3>1 DEF KernelType, Right, Flag
    <3>3. \A d \in Context : d # SP => Right(d, sreg[d])'
      BY <3>1 DEF KernelType, KInv, Flags, Right
    <3> QED BY <3>2, <3>3 DEF Flags, KInv, Stacks
  <2> QED BY <2>1, <2>2
<1> QED BY <1>1, <1>2, <1>3 DEF KInv

\* So does code that stays in its context.
LEMMA StayInv ==
  ASSUME IInv, InCode, UNCHANGED <<callVars, switchVars, isrVars, countVars>>, FsmType',
         (I' = I /\ used' = used) \/ Section
  PROVE  IInv'
<1> USE Constants DEF IInv, InCode, callVars, switchVars, isrVars, countVars
<1>1. KernelType'
  <2>1. I' \in BOOLEAN /\ used' \in [Context -> BOOLEAN]
    BY DEF KernelType, Section
  <2> QED BY <2>1 DEF KernelType
<1>2. Counted' /\ Stacks' /\ Handled'
  BY DEF KernelType, KInv, Counted, OfHandler, Stacks, Handled, current
<1>3. Flags'
  <2>1. CASE I' = I /\ used' = used
    BY <2>1 DEF KernelType, KInv, Stacks, Flags, Right, Flag, current
  <2>2. CASE Section
    <3>1. (I' <=> open[SP] = 0) /\ used' = [used EXCEPT ![SP] = TRUE]
      <4>1. I' <=> cs_counter[current] = 0
        BY <2>2, Zenon DEF Section
      <4>2. cs_counter[current] = open[SP]
        BY DEF KernelType, KInv, Counted, OfHandler, Stacks, current
      <4> QED BY <2>2, <4>1, <4>2, Zenon DEF Section
    <3>2. Right(SP, Flag)'
      BY <3>1 DEF KernelType, Right, Flag
    <3>3. \A d \in Context : d # SP => Right(d, sreg[d])'
      BY <3>1 DEF KernelType, KInv, Flags, Right
    <3> QED BY <3>2, <3>3 DEF Flags, KInv, Stacks
  <2> QED BY <2>1, <2>2
<1> QED BY <1>1, <1>2, <1>3 DEF KInv

\* A call keeps the types of the members of the FSM it is made to.
LEMMA CallType ==
  ASSUME FsmType, NEW t \in Task, NEW s \in Signal \cup {AnEvent, Null},
         NEW n \in 0..MaxCounter, CallFsm(t, s, n)
  PROVE  /\ ptrRunningFsm' = t
         /\ ptrPrevFsm' \in [Task -> Context]
         /\ ptrFsmSignal' \in [Task -> Signal \cup {AnEvent, Null}]
         /\ FsmSignalCounter' \in [Task -> 0..MaxCounter]
  BY DEF FsmType, CallFsm

\* Whatever code does with the FSMs and signals keeps the invariant.
LEMMA CodeInv == ASSUME IInv, CodeStep PROVE IInv'
<1> USE Constants
<1>1. ASSUME NEW t \in Task, Start(t) PROVE IInv'
  <2>1. CallFsm(t, Null, 0) /\ UNCHANGED <<signalVars, I, used>> /\ toStart' \subseteq toStart
    BY <1>1 DEF Start
  <2>2. FsmType' /\ ptrRunningFsm' = t
    <3>1. FsmType /\ 0 \in 0..MaxCounter
      BY DEF IInv
    <3>2. /\ ptrRunningFsm' = t
          /\ ptrPrevFsm' \in [Task -> Context]
          /\ ptrFsmSignal' \in [Task -> Signal \cup {AnEvent, Null}]
          /\ FsmSignalCounter' \in [Task -> 0..MaxCounter]
      BY <2>1, <3>1, CallType
    <3> QED BY <2>1, <3>1, <3>2 DEF FsmType, signalVars
  <2> QED BY <2>1, <2>2, SwitchInv DEF CallFsm
<1>2. ASSUME NEW t \in Task, Dispatch(t) PROVE IInv'
  <2>1. CallFsm(t, AnEvent, 1) /\ Section /\ UNCHANGED <<signalVars, toStart>>
    BY <1>2 DEF Dispatch
  <2>2. FsmType' /\ ptrRunningFsm' = t
    <3>1. FsmType /\ 1 \in 0..MaxCounter
      BY DEF IInv
    <3>2. /\ ptrRunningFsm' = t
          /\ ptrPrevFsm' \in [Task -> Context]
          /\ ptrFsmSignal' \in [Task -> Signal \cup {AnEvent, Null}]
          /\ FsmSignalCounter' \in [Task -> 0..MaxCounter]
      BY <2>1, <3>1, CallType
    <3> QED BY <2>1, <3>1, <3>2 DEF FsmType, signalVars
  <2> QED BY <2>1, <2>2, SwitchInv DEF CallFsm
<1>3. CASE Wait
  <2>1. ptrPrevFsm[ptrRunningFsm] \in Context
    BY <1>3 DEF Wait, IInv, FsmType, Context
  <2>2. FsmType'
    BY <1>3, <2>1 DEF Wait, IInv, FsmType, signalVars
  <2> QED BY <1>3, <2>1, <2>2, SwitchInv DEF Wait
<1>4. ASSUME NEW s \in Signal, SendAndCall(s) PROVE IInv'
  <2>1. /\ CallFsm(GetFsm[s], s, OneMore(Counter[s])) /\ Section
        /\ Counter' = [Counter EXCEPT ![s] = 0] /\ UNCHANGED <<mode, toStart>>
    BY <1>4 DEF SendAndCall
  <2>2. GetFsm[s] \in Task /\ OneMore(Counter[s]) \in 0..MaxCounter
    BY OneMoreType DEF IInv, FsmType
  <2>3. FsmType' /\ ptrRunningFsm' = GetFsm[s]
    BY <2>1, <2>2, CallType DEF IInv, FsmType
  <2> QED BY <2>1, <2>2, <2>3, SwitchInv DEF CallFsm
<1>5. ASSUME NEW s \in Signal, SendAndCount(s) PROVE IInv'
  <2>1. OneMore(Counter[s]) \in 0..MaxCounter
    BY OneMoreType DEF IInv, FsmType
  <2>2. FsmType'
    BY <1>5, <2>1 DEF SendAndCount, callVars, IInv, FsmType
  <2> QED BY <1>5, <2>2, StayInv DEF SendAndCount, MaySend
<1>6. ASSUME NEW s \in Signal, NEW m \in Mode, SetMode(s, m) PROVE IInv'
  <2>1. FsmType'
    BY <1>6 DEF SetMode, callVars, IInv, FsmType
  <2>2. (I' = I /\ used' = used) \/ Section
    BY <1>6 DEF SetMode
  <2> QED BY <1>6, <2>1, <2>2, StayInv DEF SetMode
<1> QED BY <1>1, <1>2, <1>3, <1>4, <1>5, <1>6 DEF CodeStep

\* A step that changes no variable keeps it.
LEMMA StutterInv == ASSUME IInv, UNCHANGED vars PROVE IInv'
  BY DEF vars, IInv, KernelType, FsmType, KInv, Counted, OfHandler, Stacks, Handled, Flags,
     Right, Flag, current

\* The invariant is inductive.
THEOREM Invariance == Spec => []IInv
<1>1. IInv /\ [Next]_vars => IInv'
  BY KernelInv, CodeInv, StutterInv DEF Next
<1> QED BY InitInv, <1>1, PTL DEF Spec

\* Every variable keeps its type: no critical section is counted twice, none below
\* zero, and no signal beyond the limit of its counter.
THEOREM TypeCorrect == Spec => []TypeOK
<1>1. IInv => TypeOK
  BY TypeParts DEF IInv
<1> QED BY Invariance, <1>1, PTL

\* Whenever code runs it is the code of the FSM that is said to be running, on its
\* own stack and counting in its own context.
THEOREM StackCorrect == Spec => []RightStack
<1>1. IInv => RightStack
  BY DEF IInv, KInv, Stacks, RightStack, InCode, current
<1> QED BY Invariance, <1>1, PTL

\* No code is interrupted in a critical section, however often it was switched away
\* from within it and back, and neither is a handler.
THEOREM SectionsCorrect == Spec => []SectionsHonoured
<1>1. IInv => SectionsHonoured
  BY DEF IInv, KernelType, KInv, Handled, Flags, Right, Flag, SectionsHonoured, InCode
<1> QED BY Invariance, <1>1, PTL

\* Outside its critical sections no context is left with interrupts off by another.
THEOREM InterruptsCorrect == Spec => []InterruptsBack
<1>1. IInv => InterruptsBack
  BY DEF IInv, KernelType, KInv, Flags, Right, Flag, InterruptsBack, InCode
<1> QED BY Invariance, <1>1, PTL

\* Between handlers every context has counted its own critical sections and no others.
THEOREM CountersCorrect == Spec => []CountersIndependent
<1>1. IInv => CountersIndependent
  BY DEF IInv, KernelType, KInv, Counted, OfHandler, CountersIndependent
<1> QED BY Invariance, <1>1, PTL
--------------------------------------------------------------------------------
(* Induction, for recursive functions                                         *)

\* A set of numbers that is not empty has a least element.
LEMMA LeastElement ==
  ASSUME NEW T \in SUBSET Nat, T # {}
  PROVE  \E x \in T : \A y \in T : x <= y
<1> DEFINE R == OpToRel(<, Nat)
<1>1. IsWellFoundedOn(R, Nat)
  BY NatLessThanWellFounded
<1>2. \A y, x \in Nat : y < x => <<y, x>> \in R
  BY DEF OpToRel
<1> HIDE DEF R
<1>3. PICK x \in T : \A y \in T : ~(<<y, x>> \in R)
  BY <1>1, WFMin
<1>4. ASSUME NEW y \in T PROVE x <= y
  <2>1. x \in Nat /\ y \in Nat /\ ~(y < x)
    BY <1>2, <1>3
  <2> QED BY <2>1
<1> QED BY <1>4

\* What holds of zero, and of each number if of the one before it, holds of all.
LEMMA UpTo ==
  ASSUME NEW n \in Nat, NEW T, 0 \in T, \A i \in 0..(n - 1) : i \in T => i + 1 \in T
  PROVE  \A i \in 0..n : i \in T
<1> SUFFICES ASSUME ~(0..n \subseteq T) PROVE FALSE
  OBVIOUS
<1>1. PICK x \in (0..n) \ T : \A y \in (0..n) \ T : x <= y
  <2>1. (0..n) \ T \in SUBSET Nat /\ (0..n) \ T # {}
    OBVIOUS
  <2> QED BY <2>1, LeastElement
<1>2. x # 0 /\ x - 1 \in 0..(n - 1) /\ x - 1 \in T
  BY <1>1
<1> QED BY <1>1, <1>2

--------------------------------------------------------------------------------
(* Chains of callers                                                          *)

NofTasks == Cardinality(Task)

\* Caller, as a function of the two variables it depends on.
Chain(run, prev) ==
  LET f[i \in 0..Cardinality(Task)] ==
        IF i = 0 THEN run
        ELSE IF f[i - 1] = Main THEN Main ELSE prev[f[i - 1]]
  IN f

\* An order of the tasks in which every signal goes up.
Rank == CHOOSE r \in [Task -> 1..Cardinality(Task)] :
          \A t \in Task : \A s \in Sends[t] : GetFsm[s] = t \/ r[t] < r[GetFsm[s]]

\* Every FSM has been called by main() or from below.
Upward(prev) == \A t \in Task : prev[t] # Main => Rank[prev[t]] < Rank[t]

\* It exists.
LEMMA RankType ==
  /\ NofTasks \in Nat
  /\ Rank \in [Task -> 1..NofTasks]
  /\ \A t \in Task : \A s \in Sends[t] : GetFsm[s] = t \/ Rank[t] < Rank[GetFsm[s]]
  BY FsmAssumption, FS_CardinalityType DEF Rank, NofTasks

\* The recursive definition of a chain defines it.
LEMMA ChainDef ==
  ASSUME NEW run \in Context, NEW prev \in [Task -> Context]
  PROVE  /\ Chain(run, prev) \in [0..NofTasks -> Context]
         /\ Chain(run, prev)[0] = run
         /\ \A i \in 0..(NofTasks - 1) :
              Chain(run, prev)[i + 1] = IF Chain(run, prev)[i] = Main THEN Main
                                        ELSE prev[Chain(run, prev)[i]]
<1>0. NofTasks \in Nat /\ \A c \in Context : c # Main => prev[c] \in Context
  BY RankType DEF Context
<1> DEFINE Next1(c) == IF c = Main THEN Main ELSE prev[c]
           Good(n, g) == /\ g \in [0..n -> Context] /\ g[0] = run
                         /\ \A i \in 0..(n - 1) : g[i + 1] = Next1(g[i])
           T == {n \in 0..NofTasks : \E g : Good(n, g)}
<1>1. 0 \in T
  <2>1. Good(0, [i \in 0..0 |-> run])
    OBVIOUS
  <2>2. \E g : Good(0, g)
    BY <2>1
  <2> QED BY <1>0, <2>2
<1>2. ASSUME NEW n \in 0..(NofTasks - 1), n \in T PROVE n + 1 \in T
  <2>1. PICK g : Good(n, g)
    BY <1>2
  <2> DEFINE h == [i \in 0..(n + 1) |-> IF i <= n THEN g[i] ELSE Next1(g[n])]
  <2>2. n \in Nat /\ n + 1 \in 0..NofTasks /\ g[n] \in Context /\ Main \in Context
    BY <1>0, <2>1 DEF Context
  <2>3. Next1(g[n]) \in Context
    BY <1>0, <2>2
  <2>4. h \in [0..(n + 1) -> Context] /\ h[0] = run
    BY <2>1, <2>2, <2>3
  <2>5. ASSUME NEW i \in 0..((n + 1) - 1) PROVE h[i + 1] = Next1(h[i])
    <3>1. i \in 0..n /\ i \in 0..(n + 1) /\ i + 1 \in 0..(n + 1) /\ h[i] = g[i]
      BY <2>2
    <3>2. CASE i = n
      BY <2>2, <3>1, <3>2
    <3>3. CASE i # n
      BY <2>1, <2>2, <3>1, <3>3
    <3> QED BY <3>2, <3>3
  <2>6. Good(n + 1, h)
    BY <2>4, <2>5
  <2> QED BY <2>2, <2>6
<1>3. NofTasks \in T
  <2> HIDE DEF T
  <2>1. \A i \in 0..NofTasks : i \in T
    BY <1>0, <1>1, <1>2, UpTo
  <2> QED BY <1>0, <2>1
<1>4. PICK g : Good(NofTasks, g)
  BY <1>3
<1>5. g = [i \in 0..NofTasks |-> IF i = 0 THEN run
                                ELSE IF g[i - 1] = Main THEN Main ELSE prev[g[i - 1]]]
  <2>1. ASSUME NEW i \in 0..NofTasks, i # 0
        PROVE  g[i] = IF g[i - 1] = Main THEN Main ELSE prev[g[i - 1]]
    <3>1. i - 1 \in 0..(NofTasks - 1) /\ (i - 1) + 1 = i
      BY <1>0, <2>1
    <3>2. g[(i - 1) + 1] = Next1(g[i - 1])
      BY <1>4, <3>1
    <3> QED BY <3>1, <3>2
  <2>2. g[0] = run /\ g \in [0..NofTasks -> Context]
    BY <1>4
  <2> QED BY <2>1, <2>2
<1>6. Chain(run, prev) = [i \in 0..NofTasks |->
        IF i = 0 THEN run ELSE IF Chain(run, prev)[i - 1] = Main THEN Main
                               ELSE prev[Chain(run, prev)[i - 1]]]
  BY <1>5 DEF Chain, NofTasks
<1>7. PICK f : f = Chain(run, prev)
  OBVIOUS
<1>8. /\ f[0] = run
      /\ \A i \in 0..(NofTasks - 1) :
           f[i + 1] = IF f[i] = Main THEN Main ELSE prev[f[i]]
  <2>1. f = [i \in 0..NofTasks |->
               IF i = 0 THEN run ELSE IF f[i - 1] = Main THEN Main ELSE prev[f[i - 1]]]
    BY <1>6, <1>7
  <2>2. ASSUME NEW i \in 0..(NofTasks - 1)
        PROVE  f[i + 1] = IF f[i] = Main THEN Main ELSE prev[f[i]]
    <3>1. i + 1 \in 0..NofTasks /\ i + 1 # 0 /\ (i + 1) - 1 = i
      BY <1>0
    <3> QED BY <2>1, <3>1
  <2>3. f[0] = run
    BY <1>0, <2>1
  <2> QED BY <2>2, <2>3
<1>9. f \in [0..NofTasks -> Context]
  <2>1. \A i \in 0..NofTasks : i \in {j \in 0..NofTasks : f[j] \in Context}
    <3> DEFINE S == {j \in 0..NofTasks : f[j] \in Context}
    <3>1. 0 \in S
      BY <1>0, <1>8
    <3>2. ASSUME NEW i \in 0..(NofTasks - 1), i \in S PROVE i + 1 \in S
      BY <1>0, <1>8, <3>2 DEF Context
    <3> HIDE DEF S
    <3>3. \A i \in 0..NofTasks : i \in S
      BY <1>0, <3>1, <3>2, UpTo
    <3> QED BY <3>3 DEF S
  <2> QED BY <1>6, <1>7, <2>1
<1> QED BY <1>7, <1>8, <1>9

\* The ranks of a chain go down, so that it ends.
LEMMA ChainRanks ==
  ASSUME NEW run \in Context, NEW prev \in [Task -> Context], Upward(prev),
         NEW i \in 0..NofTasks, Chain(run, prev)[i] # Main
  PROVE  /\ run \in Task /\ Chain(run, prev)[i] \in Task
         /\ Rank[Chain(run, prev)[i]] + i <= Rank[run]
<1>0. /\ NofTasks \in Nat /\ Rank \in [Task -> 1..NofTasks]
      /\ \A t \in Task : Rank[t] \in Nat
      /\ \A c \in Context : c # Main => c \in Task
  BY RankType DEF Context
<1>1. PICK f \in [0..NofTasks -> Context] :
        /\ f = Chain(run, prev) /\ f[0] = run
        /\ \A j \in 0..(NofTasks - 1) : f[j + 1] = IF f[j] = Main THEN Main ELSE prev[f[j]]
  BY ChainDef
<1> DEFINE S == {j \in 0..NofTasks :
                   f[j] # Main => /\ run \in Task /\ f[j] \in Task
                                  /\ Rank[f[j]] + j <= Rank[run]}
<1>2. 0 \in S
  BY <1>0, <1>1
<1>3. ASSUME NEW j \in 0..(NofTasks - 1), j \in S PROVE j + 1 \in S
  <2> SUFFICES ASSUME f[j + 1] # Main
               PROVE  run \in Task /\ f[j + 1] \in Task /\ Rank[f[j + 1]] + (j + 1) <= Rank[run]
    BY <1>0
  <2>1. f[j] # Main /\ f[j + 1] = prev[f[j]] /\ j \in 0..NofTasks /\ j + 1 \in 0..NofTasks
    BY <1>0, <1>1
  <2>2. run \in Task /\ f[j] \in Task /\ f[j + 1] \in Task /\ Rank[f[j]] + j <= Rank[run]
    BY <1>0, <1>1, <1>3, <2>1
  <2>3. Rank[f[j + 1]] < Rank[f[j]]
    BY <2>1, <2>2 DEF Upward
  <2> QED BY <1>0, <2>2, <2>3
<1> HIDE DEF S
<1>4. i \in S
  BY <1>0, <1>2, <1>3, UpTo
<1> QED BY <1>1, <1>4 DEF S

\* Where a chain has come to main() it stays there: it is as deep as the number of
\* FSMs in it.
LEMMA ChainDepth ==
  ASSUME NEW run \in Context, NEW prev \in [Task -> Context], Upward(prev)
  PROVE  \E d \in 0..NofTasks :
           /\ \A i \in 0..NofTasks : Chain(run, prev)[i] = Main <=> i >= d
           /\ Cardinality({i \in 0..NofTasks : Chain(run, prev)[i] # Main}) = d
<1>0. /\ NofTasks \in Nat /\ Rank \in [Task -> 1..NofTasks]
      /\ \A t \in Task : Rank[t] \in 1..NofTasks
  BY RankType
<1>1. PICK f \in [0..NofTasks -> Context] :
        /\ f = Chain(run, prev) /\ f[0] = run
        /\ \A j \in 0..(NofTasks - 1) : f[j + 1] = IF f[j] = Main THEN Main ELSE prev[f[j]]
  BY ChainDef
<1>2. f[NofTasks] = Main
  <2> SUFFICES ASSUME f[NofTasks] # Main PROVE FALSE
    OBVIOUS
  <2>1. NofTasks \in 0..NofTasks
    BY <1>0
  <2>2. run \in Task /\ f[NofTasks] \in Task /\ Rank[f[NofTasks]] + NofTasks <= Rank[run]
    BY <1>1, <2>1, ChainRanks
  <2>3. Rank[run] \in 1..NofTasks /\ Rank[f[NofTasks]] \in 1..NofTasks
    BY <1>0, <2>2
  <2> QED BY <1>0, <2>2, <2>3
<1>3. PICK d \in 0..NofTasks : f[d] = Main /\ \A i \in 0..NofTasks : f[i] = Main => d <= i
  <2> DEFINE T == {i \in 0..NofTasks : f[i] = Main}
  <2>1. T \in SUBSET Nat /\ T # {}
    BY <1>0, <1>2
  <2> HIDE DEF T
  <2>2. PICK d \in T : \A i \in T : d <= i
    BY <2>1, LeastElement
  <2> QED BY <2>2 DEF T
<1>4. ASSUME NEW i \in 0..NofTasks, i >= d PROVE f[i] = Main
  <2> DEFINE S == {j \in 0..NofTasks : j >= d => f[j] = Main}
  <2>1. 0 \in S
    BY <1>0, <1>3
  <2>2. ASSUME NEW j \in 0..(NofTasks - 1), j \in S PROVE j + 1 \in S
    <3>1. j + 1 \in 0..NofTasks /\ j \in Int /\ d \in Int
      BY <1>0
    <3>2. CASE j >= d
      BY <1>1, <2>2, <3>1, <3>2
    <3>3. CASE j + 1 = d
      BY <1>3, <3>1, <3>3
    <3>4. CASE j + 1 < d
      BY <3>1, <3>4
    <3> QED BY <3>1, <3>2, <3>3, <3>4
  <2> HIDE DEF S
  <2>3. i \in S
    BY <1>0, <2>1, <2>2, UpTo
  <2> QED BY <1>4, <2>3 DEF S
<1>5. \A i \in 0..NofTasks : f[i] = Main <=> i >= d
  BY <1>3, <1>4
<1>6. {i \in 0..NofTasks : f[i] # Main} = 0..(d - 1)
  BY <1>0, <1>5
<1>7. Cardinality(0..(d - 1)) = d
  <2>1. 0 \in Int /\ d - 1 \in Int /\ d >= 0
    BY <1>0
  <2>2. Cardinality(0..(d - 1)) = IF 0 > d - 1 THEN 0 ELSE (d - 1) - 0 + 1
    BY <2>1, FS_Interval
  <2> QED BY <2>1, <2>2
<1> QED BY <1>1, <1>5, <1>6, <1>7

\* From run the list goes up.
Goes(run, prev) == run \in Context /\ prev \in [Task -> Context] /\ Upward(prev)

\* t is above all that are in the list.
Above(t, run) == t \in Task /\ (run # Main => Rank[run] < Rank[t])

\* What an assignment to a member of one FSM does.
Assigns(old, t, v, new) == new = [old EXCEPT ![t] = v]

\* A call from main(), or from below, is one more link at the front of the chain,
\* and of an FSM that is not in it.
LEMMA ChainPush ==
  ASSUME NEW run, NEW prev, Goes(run, prev), NEW t, Above(t, run),
         NEW prev2, Assigns(prev, t, run, prev2)
  PROVE  /\ Goes(t, prev2)
         /\ \A i \in 0..NofTasks : Chain(run, prev)[i] # t
         /\ Chain(t, prev2)[0] = t
         /\ \A i \in 0..(NofTasks - 1) : Chain(t, prev2)[i + 1] = Chain(run, prev)[i]
<1>0. /\ NofTasks \in Nat /\ Rank \in [Task -> 1..NofTasks]
      /\ \A u \in Task : Rank[u] \in Nat /\ u # Main
      /\ \A c \in Context : c # Main => c \in Task
      /\ run \in Context /\ prev \in [Task -> Context] /\ Upward(prev)
      /\ t \in Task /\ t \in Context /\ (run # Main => Rank[run] < Rank[t])
  BY RankType, Constants DEF Context, Goes, Above
<1>1. PICK f \in [0..NofTasks -> Context] :
        /\ f = Chain(run, prev) /\ f[0] = run
        /\ \A j \in 0..(NofTasks - 1) : f[j + 1] = IF f[j] = Main THEN Main ELSE prev[f[j]]
  BY <1>0, ChainDef
<1>2. prev2 \in [Task -> Context] /\ prev2[t] = run /\ \A u \in Task \ {t} : prev2[u] = prev[u]
  BY <1>0 DEF Assigns
<1>3. PICK g \in [0..NofTasks -> Context] :
        /\ g = Chain(t, prev2) /\ g[0] = t
        /\ \A j \in 0..(NofTasks - 1) : g[j + 1] = IF g[j] = Main THEN Main ELSE prev2[g[j]]
  BY <1>0, <1>2, ChainDef
<1>4. Upward(prev2)
  BY <1>0, <1>2 DEF Upward
<1>5. ASSUME NEW i \in 0..NofTasks PROVE f[i] # t
  <2> SUFFICES ASSUME f[i] = t PROVE FALSE
    OBVIOUS
  <2>1. run \in Task /\ Rank[f[i]] + i <= Rank[run]
    <3>1. Chain(run, prev)[i] # Main
      BY <1>0, <1>1
    <3>2. run \in Task /\ Rank[Chain(run, prev)[i]] + i <= Rank[run]
      BY <1>0, <3>1, ChainRanks
    <3> QED BY <1>1, <3>2
  <2> QED BY <1>0, <2>1
<1>6. ASSUME NEW i \in 0..(NofTasks - 1) PROVE g[i + 1] = f[i]
  <2> DEFINE S == {j \in 0..(NofTasks - 1) : g[j + 1] = f[j]}
  <2>1. NofTasks - 1 \in Nat
    BY <1>0
  <2>2. 0 \in S
    <3>1. g[0 + 1] = prev2[t]
      BY <1>0, <1>3, <2>1
    <3> QED BY <1>1, <1>2, <2>1, <3>1
  <2>3. ASSUME NEW j \in 0..((NofTasks - 1) - 1), j \in S PROVE j + 1 \in S
    <3>1. j + 1 \in 0..(NofTasks - 1) /\ j \in 0..(NofTasks - 1) /\ j \in 0..NofTasks
      BY <1>0
    <3>2. g[(j + 1) + 1] = IF f[j] = Main THEN Main ELSE prev2[f[j]]
      BY <1>3, <2>3, <3>1
    <3>3. f[j + 1] = IF f[j] = Main THEN Main ELSE prev[f[j]]
      BY <1>1, <3>1
    <3>4. f[j] \in Context /\ f[j] # t
      BY <1>5, <3>1
    <3> QED BY <1>0, <1>2, <3>1, <3>2, <3>3, <3>4
  <2> HIDE DEF S
  <2>4. i \in S
    BY <2>1, <2>2, <2>3, UpTo
  <2> QED BY <2>4 DEF S
<1>7. Goes(t, prev2)
  BY <1>0, <1>2, <1>4 DEF Goes
<1> QED BY <1>1, <1>3, <1>5, <1>6, <1>7

\* A return takes the first link off.
LEMMA ChainPop ==
  ASSUME NEW run \in Task, NEW prev \in [Task -> Context]
  PROVE  \A i \in 0..(NofTasks - 1) : Chain(prev[run], prev)[i] = Chain(run, prev)[i + 1]
<1>0. NofTasks \in Nat /\ run # Main /\ run \in Context /\ prev[run] \in Context
  BY RankType, Constants DEF Context
<1>1. PICK f \in [0..NofTasks -> Context] :
        /\ f = Chain(run, prev) /\ f[0] = run
        /\ \A j \in 0..(NofTasks - 1) : f[j + 1] = IF f[j] = Main THEN Main ELSE prev[f[j]]
  BY <1>0, ChainDef
<1>2. PICK g \in [0..NofTasks -> Context] :
        /\ g = Chain(prev[run], prev) /\ g[0] = prev[run]
        /\ \A j \in 0..(NofTasks - 1) : g[j + 1] = IF g[j] = Main THEN Main ELSE prev[g[j]]
  BY <1>0, ChainDef
<1>3. ASSUME NEW i \in 0..(NofTasks - 1) PROVE g[i] = f[i + 1]
  <2> DEFINE S == {j \in 0..(NofTasks - 1) : g[j] = f[j + 1]}
  <2>1. NofTasks - 1 \in Nat
    BY <1>0
  <2>2. 0 \in S
    BY <1>0, <1>1, <1>2, <2>1
  <2>3. ASSUME NEW j \in 0..((NofTasks - 1) - 1), j \in S PROVE j + 1 \in S
    <3>1. j + 1 \in 0..(NofTasks - 1) /\ j \in 0..(NofTasks - 1)
      BY <1>0
    <3> QED BY <1>1, <1>2, <2>3, <3>1
  <2> HIDE DEF S
  <2>4. i \in S
    BY <2>1, <2>2, <2>3, UpTo
  <2> QED BY <2>4 DEF S
<1> QED BY <1>1, <1>2, <1>3

--------------------------------------------------------------------------------
(* The stack of calls                                                         *)

\* Depth and the calls of Stack, as functions of the variables they depend on.
DepthOf(run, prev) == Cardinality({i \in 0..Cardinality(Task) : Chain(run, prev)[i] # Main})

CallsOf(run, prev, signal, count) ==
  [i \in 1..DepthOf(run, prev) |-> LET t == Chain(run, prev)[i - 1] IN
    [fsm |-> t, signal |-> signal[t], count |-> count[t]]]

\* What an FSM is told when it is called.
Told == Signal \cup {AnEvent, Null}
Counts == 0..MaxCounter
CallRecord == [fsm : Task, signal : Told, count : Counts]

\* The variables they depend on have their types, and the list goes up.
Listed(run, prev, signal, count) ==
  /\ Goes(run, prev)
  /\ signal \in [Task -> Told]
  /\ count \in [Task -> Counts]

\* c is the d calls in the list.
AreCalls(run, prev, signal, count, d, c) ==
  /\ d \in 0..NofTasks
  /\ \A i \in 0..NofTasks : Chain(run, prev)[i] = Main <=> i >= d
  /\ c \in Seq(CallRecord)
  /\ c = CallsOf(run, prev, signal, count)
  /\ Len(c) = d
  /\ \A i \in 1..d : c[i] = [fsm |-> Chain(run, prev)[i - 1],
                             signal |-> signal[Chain(run, prev)[i - 1]],
                             count |-> count[Chain(run, prev)[i - 1]]]


\* Two sequences of the same elements are the same.
LEMMA SameElements ==
  ASSUME NEW n \in Nat, NEW S, NEW f \in Seq(S), Len(f) = n, NEW g \in Seq(S), Len(g) = n,
         \A i \in 1..n : f[i] = g[i]
  PROVE  f = g
  OBVIOUS

\* The calls, and how many there are.
LEMMA CallsType ==
  ASSUME NEW run, NEW prev, NEW signal, NEW count, Listed(run, prev, signal, count)
  PROVE  \E d, c : AreCalls(run, prev, signal, count, d, c)
<1>0. /\ NofTasks \in Nat /\ \A c \in Context : c # Main => c \in Task
      /\ run \in Context /\ prev \in [Task -> Context] /\ Upward(prev)
      /\ signal \in [Task -> Told] /\ count \in [Task -> Counts]
  BY RankType DEF Context, Listed, Goes
<1>1. PICK f \in [0..NofTasks -> Context] : f = Chain(run, prev)
  BY <1>0, ChainDef
<1>2. PICK d \in 0..NofTasks : /\ \A i \in 0..NofTasks : f[i] = Main <=> i >= d
                               /\ DepthOf(run, prev) = d
  BY <1>0, <1>1, ChainDepth DEF DepthOf, NofTasks
<1>3. PICK c : c = [i \in 1..d |-> [fsm |-> f[i - 1], signal |-> signal[f[i - 1]],
                                    count |-> count[f[i - 1]]]]
  OBVIOUS
<1>4. c = CallsOf(run, prev, signal, count)
  BY <1>1, <1>2, <1>3 DEF CallsOf
<1>5. ASSUME NEW i \in 1..d PROVE c[i] \in CallRecord
  <2>1. i - 1 \in 0..NofTasks /\ ~(i - 1 >= d)
    BY <1>0
  <2>2. f[i - 1] \in Task
    BY <1>0, <1>2, <2>1
  <2> QED BY <1>0, <1>3, <2>2 DEF CallRecord
<1>6. c \in Seq(CallRecord) /\ Len(c) = d
  <2>1. d \in Nat
    BY <1>0
  <2>2. c \in [1..d -> CallRecord]
    <3>1. c = [i \in 1..d |-> c[i]]
      BY <1>3
    <3> QED BY <1>5, <3>1
  <2> QED BY <2>1, <2>2
<1>7. \A i \in 1..d : c[i] = [fsm |-> f[i - 1], signal |-> signal[f[i - 1]],
                               count |-> count[f[i - 1]]]
  BY <1>3
<1> QED BY <1>1, <1>2, <1>4, <1>6, <1>7 DEF AreCalls

\* No FSM has been called exactly when main() runs; otherwise the last call is that
\* of the FSM that runs.
LEMMA CallsTop ==
  ASSUME NEW run, NEW prev, NEW signal, NEW count, Listed(run, prev, signal, count)
  PROVE  /\ (run = Main) <=> (CallsOf(run, prev, signal, count) = <<>>)
         /\ run # Main => Head(CallsOf(run, prev, signal, count)).fsm = run
<1>0. NofTasks \in Nat /\ 0 \in 0..NofTasks
  BY RankType
<1>1. PICK d, c : AreCalls(run, prev, signal, count, d, c)
  BY CallsType
<1>2. Chain(run, prev)[0] = run
  BY ChainDef DEF Listed, Goes
<1>3. (run = Main) <=> (d = 0)
  BY <1>0, <1>1, <1>2 DEF AreCalls
<1>4. (d = 0) <=> (c = <<>>)
  BY <1>1 DEF AreCalls
<1>5. d # 0 => Head(c).fsm = run
  <2> SUFFICES ASSUME d # 0 PROVE Head(c).fsm = run
    OBVIOUS
  <2>1. Head(c) = c[1] /\ 1 \in 1..d /\ 1 - 1 = 0
    BY <1>0, <1>1 DEF AreCalls
  <2>2. c[1].fsm = Chain(run, prev)[1 - 1]
    BY <1>1, <2>1 DEF AreCalls
  <2> QED BY <1>2, <2>1, <2>2
<1>6. c = CallsOf(run, prev, signal, count)
  BY <1>1 DEF AreCalls
<1> QED BY <1>3, <1>4, <1>5, <1>6

\* A call is pushed on the stack, and is not one of an FSM that is on it.
LEMMA CallsPush ==
  ASSUME NEW run, NEW prev, NEW signal, NEW count, Listed(run, prev, signal, count),
         NEW t, Above(t, run), NEW s \in Told, NEW n \in Counts,
         NEW prev2, Assigns(prev, t, run, prev2),
         NEW signal2, Assigns(signal, t, s, signal2),
         NEW count2, Assigns(count, t, n, count2)
  PROVE  /\ Listed(t, prev2, signal2, count2)
         /\ \A i \in 1..Len(CallsOf(run, prev, signal, count)) :
              CallsOf(run, prev, signal, count)[i].fsm # t
         /\ CallsOf(t, prev2, signal2, count2)
              = <<[fsm |-> t, signal |-> s, count |-> n]>> \o CallsOf(run, prev, signal, count)
<1>0. /\ NofTasks \in Nat /\ t \in Task /\ t # Main /\ t \in Context
      /\ \A c \in Context : c # Main => c \in Task
      /\ run \in Context /\ prev \in [Task -> Context] /\ Upward(prev)
      /\ signal \in [Task -> Told] /\ count \in [Task -> Counts]
      /\ (run # Main => Rank[run] < Rank[t])
  BY RankType, Constants DEF Context, Listed, Goes, Above
<1>1. PICK r \in CallRecord : r = [fsm |-> t, signal |-> s, count |-> n]
  BY <1>0 DEF CallRecord
<1>2. PICK f \in [0..NofTasks -> Context] : f = Chain(run, prev) /\ \A i \in 0..NofTasks : f[i] # t
  <2>1. Goes(run, prev)
    BY DEF Listed
  <2>2. \A i \in 0..NofTasks : Chain(run, prev)[i] # t
    BY <2>1, ChainPush
  <2>3. Chain(run, prev) \in [0..NofTasks -> Context]
    BY <1>0, ChainDef
  <2> QED BY <2>2, <2>3
<1>3. Goes(t, prev2)
  BY ChainPush DEF Listed
<1>4. PICK g \in [0..NofTasks -> Context] :
        /\ g = Chain(t, prev2) /\ g[0] = t
        /\ \A i \in 0..(NofTasks - 1) : g[i + 1] = f[i]
  <2>1. Chain(t, prev2) \in [0..NofTasks -> Context] /\ Chain(t, prev2)[0] = t
    BY <1>3, ChainDef DEF Goes
  <2>2. \A i \in 0..(NofTasks - 1) : Chain(t, prev2)[i + 1] = Chain(run, prev)[i]
    BY ChainPush DEF Listed
  <2> QED BY <1>2, <2>1, <2>2
<1>5. /\ signal2 \in [Task -> Told] /\ signal2[t] = s /\ \A u \in Task \ {t} : signal2[u] = signal[u]
      /\ count2 \in [Task -> Counts] /\ count2[t] = n /\ \A u \in Task \ {t} : count2[u] = count[u]
  BY <1>0 DEF Assigns
<1>6. Listed(t, prev2, signal2, count2)
  BY <1>0, <1>3, <1>5 DEF Listed
<1>7. PICK d, c : AreCalls(run, prev, signal, count, d, c)
  BY CallsType
<1>8. PICK d2, e : AreCalls(t, prev2, signal2, count2, d2, e)
  BY <1>6, CallsType
<1>9. /\ d \in 0..NofTasks /\ \A i \in 0..NofTasks : f[i] = Main <=> i >= d
      /\ c \in Seq(CallRecord) /\ Len(c) = d /\ c = CallsOf(run, prev, signal, count)
      /\ \A i \in 1..d : c[i] = [fsm |-> f[i - 1], signal |-> signal[f[i - 1]],
                                 count |-> count[f[i - 1]]]
  BY <1>2, <1>7 DEF AreCalls
<1>10. /\ d2 \in 0..NofTasks /\ \A i \in 0..NofTasks : g[i] = Main <=> i >= d2
       /\ e \in Seq(CallRecord) /\ Len(e) = d2 /\ e = CallsOf(t, prev2, signal2, count2)
       /\ \A i \in 1..d2 : e[i] = [fsm |-> g[i - 1], signal |-> signal2[g[i - 1]],
                                   count |-> count2[g[i - 1]]]
  BY <1>4, <1>8 DEF AreCalls
<1>11. d2 = d + 1
  <2>1. d2 >= 1
    <3>1. 0 \in 0..NofTasks /\ g[0] # Main
      BY <1>0, <1>4
    <3>2. ~(0 >= d2)
      BY <1>10, <3>1
    <3> QED BY <1>0, <1>10, <3>2
  <2>2. d2 - 1 \in 0..(NofTasks - 1) /\ d2 - 1 \in 0..NofTasks /\ (d2 - 1) + 1 = d2
    BY <1>0, <1>10, <2>1
  <2>3. g[d2] = Main
    BY <1>0, <1>10
  <2>4. f[d2 - 1] = Main
    <3>1. g[(d2 - 1) + 1] = f[d2 - 1]
      BY <1>4, <2>2
    <3> QED BY <2>2, <2>3, <3>1
  <2>5. d <= d2 - 1
    BY <1>0, <1>9, <2>2, <2>4
  <2>6. d \in 0..(NofTasks - 1) /\ d + 1 \in 0..NofTasks
    BY <1>0, <1>9, <2>2, <2>5
  <2>7. g[d + 1] = Main
    <3>1. f[d] = Main
      BY <1>0, <1>9
    <3> QED BY <1>4, <2>6, <3>1
  <2>8. d2 <= d + 1
    BY <1>0, <1>10, <2>6, <2>7
  <2> QED BY <1>0, <1>9, <1>10, <2>5, <2>8
<1>12. PICK p \in Seq(CallRecord) : p = <<r>> \o c /\ Len(p) = d + 1 /\ p[1] = r
                                    /\ \A k \in 1..d : p[k + 1] = c[k]
  <2>1. c \in Seq(CallRecord) /\ Len(c) = d /\ d \in Nat
    BY <1>0, <1>9
  <2>2. <<r>> \o c \in Seq(CallRecord) /\ Len(<<r>> \o c) = d + 1 /\ (<<r>> \o c)[1] = r
    BY <2>1
  <2>3. ASSUME NEW k \in 1..d PROVE (<<r>> \o c)[k + 1] = c[k]
    BY <2>1
  <2> QED BY <2>2, <2>3
<1>13. ASSUME NEW i \in 1..(d + 1) PROVE e[i] = p[i]
  <2>1. CASE i = 1
    <3>1. e[1] = [fsm |-> g[0], signal |-> signal2[g[0]], count |-> count2[g[0]]]
      <4>1. 1 \in 1..d2 /\ 1 - 1 = 0
        BY <1>0, <1>9, <1>11
      <4> QED BY <1>10, <4>1
    <3> QED BY <1>1, <1>4, <1>5, <1>12, <2>1, <3>1
  <2>2. CASE i # 1
    <3>1. PICK k \in 1..d : i = k + 1 /\ i - 1 = k
      <4>1. i - 1 \in 1..d /\ i = (i - 1) + 1
        BY <1>0, <1>9, <2>2
      <4> QED BY <4>1
    <3>2. /\ k - 1 \in 0..(NofTasks - 1) /\ k - 1 \in 0..NofTasks /\ (k - 1) + 1 = k
          /\ ~(k - 1 >= d)
      BY <1>0, <1>9
    <3>3. g[k] = f[k - 1]
      <4>1. g[(k - 1) + 1] = f[k - 1]
        BY <1>4, <3>2
      <4> QED BY <3>2, <4>1
    <3>4. f[k - 1] \in Task /\ f[k - 1] # t
      <4>1. f[k - 1] # Main /\ f[k - 1] \in Context /\ f[k - 1] # t
        BY <1>2, <1>9, <3>2
      <4> QED BY <1>0, <4>1
    <3>5. signal2[f[k - 1]] = signal[f[k - 1]] /\ count2[f[k - 1]] = count[f[k - 1]]
      BY <1>5, <3>4
    <3>6. e[i] = [fsm |-> g[k], signal |-> signal2[g[k]], count |-> count2[g[k]]]
      <4>1. i \in 1..d2
        BY <1>11
      <4> QED BY <1>10, <3>1, <4>1
    <3>7. c[k] = [fsm |-> f[k - 1], signal |-> signal[f[k - 1]], count |-> count[f[k - 1]]]
      BY <1>9
    <3>8. p[i] = c[k]
      BY <1>12, <3>1
    <3> QED BY <3>3, <3>5, <3>6, <3>7, <3>8
  <2> QED BY <2>1, <2>2
<1>14. e = p
  <2>1. d + 1 \in Nat
    BY <1>0, <1>9
  <2> QED BY <1>10, <1>11, <1>12, <1>13, <2>1, SameElements
<1>15. ASSUME NEW i \in 1..Len(c) PROVE c[i].fsm # t
  <2>1. i - 1 \in 0..NofTasks /\ c[i].fsm = f[i - 1]
    BY <1>0, <1>9
  <2> QED BY <1>2, <2>1
<1> QED BY <1>1, <1>6, <1>9, <1>10, <1>12, <1>14, <1>15

\* Wait() takes the last call off the stack, and leaves the others as they were.
LEMMA CallsPop ==
  ASSUME NEW run, NEW prev, NEW signal, NEW count, Listed(run, prev, signal, count), run # Main
  PROVE  CallsOf(prev[run], prev, signal, count) = Tail(CallsOf(run, prev, signal, count))
<1>0. /\ NofTasks \in Nat /\ run \in Task /\ run \in Context /\ prev[run] \in Context
      /\ prev \in [Task -> Context] /\ Upward(prev)
      /\ signal \in [Task -> Told] /\ count \in [Task -> Counts]
  BY RankType, Constants DEF Context, Listed, Goes
<1>1. PICK f \in [0..NofTasks -> Context] : f = Chain(run, prev) /\ f[0] = run
  BY <1>0, ChainDef
<1>2. PICK g \in [0..NofTasks -> Context] :
        g = Chain(prev[run], prev) /\ \A i \in 0..(NofTasks - 1) : g[i] = f[i + 1]
  BY <1>0, <1>1, ChainDef, ChainPop
<1>3. PICK d, c : AreCalls(run, prev, signal, count, d, c)
  BY CallsType
<1>4. Listed(prev[run], prev, signal, count)
  BY <1>0 DEF Listed, Goes
<1>5. PICK d2, e : AreCalls(prev[run], prev, signal, count, d2, e)
  BY <1>4, CallsType
<1>6. /\ d \in 0..NofTasks /\ \A i \in 0..NofTasks : f[i] = Main <=> i >= d
      /\ c \in Seq(CallRecord) /\ Len(c) = d /\ c = CallsOf(run, prev, signal, count)
      /\ \A i \in 1..d : c[i] = [fsm |-> f[i - 1], signal |-> signal[f[i - 1]],
                                 count |-> count[f[i - 1]]]
  BY <1>1, <1>3 DEF AreCalls
<1>7. /\ d2 \in 0..NofTasks /\ \A i \in 0..NofTasks : g[i] = Main <=> i >= d2
      /\ e \in Seq(CallRecord) /\ Len(e) = d2 /\ e = CallsOf(prev[run], prev, signal, count)
      /\ \A i \in 1..d2 : e[i] = [fsm |-> g[i - 1], signal |-> signal[g[i - 1]],
                                  count |-> count[g[i - 1]]]
  BY <1>2, <1>5 DEF AreCalls
<1>8. /\ d >= 1 /\ d - 1 \in 0..(NofTasks - 1) /\ d - 1 \in 0..NofTasks /\ (d - 1) + 1 = d
  <2>1. ~(0 >= d)
    BY <1>0, <1>1, <1>6
  <2> QED BY <1>0, <1>6, <2>1
<1>9. d2 = d - 1
  <2>1. g[d - 1] = Main
    <3>1. g[d - 1] = f[(d - 1) + 1] /\ f[d] = Main
      BY <1>0, <1>2, <1>6, <1>8
    <3> QED BY <1>8, <3>1
  <2>2. d2 <= d - 1
    BY <1>0, <1>7, <1>8, <2>1
  <2>3. d2 \in 0..(NofTasks - 1) /\ d2 + 1 \in 0..NofTasks
    BY <1>0, <1>7, <1>8, <2>2
  <2>4. f[d2 + 1] = Main
    <3>1. g[d2] = Main
      BY <1>0, <1>7
    <3> QED BY <1>2, <2>3, <3>1
  <2>5. d <= d2 + 1
    BY <1>0, <1>6, <2>3, <2>4
  <2> QED BY <1>0, <1>6, <1>7, <2>2, <2>5
<1>10. PICK p \in Seq(CallRecord) : /\ p = Tail(c) /\ Len(p) = d - 1
                                    /\ \A i \in 1..(d - 1) : p[i] = c[i + 1]
  <2>1. c \in Seq(CallRecord) /\ Len(c) = d /\ d \in Nat /\ d >= 1 /\ c # <<>>
    BY <1>0, <1>6, <1>8
  <2>2. Tail(c) \in Seq(CallRecord) /\ Len(Tail(c)) = d - 1
    BY <2>1
  <2>3. ASSUME NEW i \in 1..(d - 1) PROVE Tail(c)[i] = c[i + 1]
    BY <2>1
  <2> QED BY <2>2, <2>3
<1>11. ASSUME NEW i \in 1..(d - 1) PROVE e[i] = p[i]
  <2>1. /\ i - 1 \in 0..(NofTasks - 1) /\ (i - 1) + 1 = i /\ i + 1 \in 1..d /\ (i + 1) - 1 = i
        /\ i \in 1..d2
    BY <1>0, <1>6, <1>8, <1>9
  <2>2. g[i - 1] = f[i]
    <3>1. g[i - 1] = f[(i - 1) + 1]
      BY <1>2, <2>1
    <3> QED BY <2>1, <3>1
  <2>3. c[i + 1] = [fsm |-> f[i], signal |-> signal[f[i]], count |-> count[f[i]]]
    BY <1>6, <2>1
  <2>4. e[i] = [fsm |-> g[i - 1], signal |-> signal[g[i - 1]], count |-> count[g[i - 1]]]
    BY <1>7, <2>1
  <2> QED BY <1>10, <2>2, <2>3, <2>4
<1>12. e = p
  <2>1. d - 1 \in Nat
    BY <1>0, <1>6, <1>8
  <2> QED BY <1>7, <1>9, <1>10, <1>11, <2>1, SameElements
<1> QED BY <1>6, <1>7, <1>10, <1>12

--------------------------------------------------------------------------------
(* The list of FSMs is a stack of calls                                       *)

\* The list of the variables, which is what the invariant is strengthened by.
ListInv == Listed(ptrRunningFsm, ptrPrevFsm, ptrFsmSignal, FsmSignalCounter)

\* CallList is the calls of the list.
LEMMA CallListIs ==
  /\ CallList = CallsOf(ptrRunningFsm, ptrPrevFsm, ptrFsmSignal, FsmSignalCounter)
  /\ CallList' = CallsOf(ptrRunningFsm', ptrPrevFsm', ptrFsmSignal', FsmSignalCounter')
  BY DEF CallList, CallsOf, Depth, DepthOf, Caller, Chain

\* The list goes up if the pointers do.
LEMMA ListParts ==
  /\ IInv /\ Upward(ptrPrevFsm) => ListInv
  /\ ListInv => Upward(ptrPrevFsm)
  BY DEF IInv, FsmType, ListInv, Listed, Goes, Told, Counts

\* In code the FSM that runs is the one whose stack the processor is on.
LEMMA InCodeRuns == IInv /\ InCode => SP = ptrRunningFsm
  BY DEF IInv, KInv, Stacks, InCode, current

\* A call to an FSM above the one that runs is a call of the stack.
LEMMA CallPushes ==
  ASSUME ListInv, NEW t, Above(t, ptrRunningFsm), NEW s \in Told, NEW n \in Counts,
         CallFsm(t, s, n)
  PROVE  ListInv' /\ Stack!Push(t, s, n)
<1>1. /\ ptrRunningFsm' = t
      /\ Assigns(ptrPrevFsm, t, ptrRunningFsm, ptrPrevFsm')
      /\ Assigns(ptrFsmSignal, t, s, ptrFsmSignal')
      /\ Assigns(FsmSignalCounter, t, n, FsmSignalCounter')
  BY DEF CallFsm, Assigns
<1>2. /\ Listed(t, ptrPrevFsm', ptrFsmSignal', FsmSignalCounter')
      /\ \A i \in 1..Len(CallList) : CallList[i].fsm # t
      /\ CallsOf(t, ptrPrevFsm', ptrFsmSignal', FsmSignalCounter')
           = <<[fsm |-> t, signal |-> s, count |-> n]>> \o CallList
  <2> DEFINE c == CallsOf(ptrRunningFsm, ptrPrevFsm, ptrFsmSignal, FsmSignalCounter)
  <2>1. /\ Listed(t, ptrPrevFsm', ptrFsmSignal', FsmSignalCounter')
        /\ \A i \in 1..Len(c) : c[i].fsm # t
        /\ CallsOf(t, ptrPrevFsm', ptrFsmSignal', FsmSignalCounter')
             = <<[fsm |-> t, signal |-> s, count |-> n]>> \o c
    BY <1>1, CallsPush DEF ListInv
  <2> QED BY <2>1, CallListIs
<1>3. ListInv'
  BY <1>1, <1>2 DEF ListInv
<1>4. CallList' = <<[fsm |-> t, signal |-> s, count |-> n]>> \o CallList
  BY <1>1, <1>2, CallListIs
<1> QED BY <1>2, <1>3, <1>4 DEF Stack!Push

\* Nothing has been called while main() runs, and the last call is that of the FSM
\* that runs otherwise.
LEMMA TopRuns ==
  ASSUME ListInv
  PROVE  /\ (ptrRunningFsm = Main) <=> (CallList = <<>>)
         /\ ptrRunningFsm # Main => Head(CallList).fsm = ptrRunningFsm
  BY CallsTop, CallListIs DEF ListInv

\* What leaves the list alone leaves the calls alone.
LEMMA SameCalls ==
  ASSUME ListInv, UNCHANGED callVars
  PROVE  ListInv' /\ CallList' = CallList
<1>1. /\ ptrRunningFsm' = ptrRunningFsm /\ ptrPrevFsm' = ptrPrevFsm
      /\ ptrFsmSignal' = ptrFsmSignal /\ FsmSignalCounter' = FsmSignalCounter
  BY DEF callVars
<1>2. CallList' = CallList
  BY <1>1, CallListIs
<1>3. ListInv'
  BY <1>1 DEF ListInv
<1> QED BY <1>2, <1>3

\* Start() and the dispatcher call from main().
LEMMA MainCalls ==
  ASSUME IInv, ListInv, SP = Main, NEW t \in Task, NEW s \in Told, NEW n \in Counts,
         CallFsm(t, s, n)
  PROVE  ListInv' /\ CallList = <<>> /\ Stack!Push(t, s, n)
<1>1. ptrRunningFsm = Main
  BY InCodeRuns DEF CallFsm, SwitchToContext
<1>2. Above(t, ptrRunningFsm)
  BY <1>1 DEF Above
<1> QED BY <1>1, <1>2, CallPushes, TopRuns

\* A step of Fsm is one of the stack, or none of its concern.
StackStep == Stack!Next \/ UNCHANGED Stack!vars

LEMMA StartCalls ==
  ASSUME IInv, ListInv, NEW t \in Task, Start(t)
  PROVE  ListInv' /\ StackStep
<1>1. Null \in Told /\ 0 \in Counts
  BY Constants DEF Told, Counts
<1>2. ListInv' /\ CallList = <<>> /\ Stack!Push(t, Null, 0)
  BY <1>1, MainCalls DEF Start
<1>3. mode' = mode /\ Counter' = Counter
  BY DEF Start, signalVars
<1>4. Stack!Call(t)
  BY <1>2, <1>3 DEF Stack!Call
<1> QED BY <1>2, <1>4 DEF StackStep, Stack!Next

LEMMA DispatchCalls ==
  ASSUME IInv, ListInv, NEW t \in Task, Dispatch(t)
  PROVE  ListInv' /\ StackStep
<1>1. AnEvent \in Told /\ 1 \in Counts
  BY Constants DEF Told, Counts
<1>2. ListInv' /\ CallList = <<>> /\ Stack!Push(t, AnEvent, 1)
  BY <1>1, MainCalls DEF Dispatch
<1>3. mode' = mode /\ Counter' = Counter
  BY DEF Dispatch, signalVars
<1>4. Stack!Call(t)
  BY <1>2, <1>3 DEF Stack!Call
<1> QED BY <1>2, <1>4 DEF StackStep, Stack!Next

LEMMA WaitReturns ==
  ASSUME IInv, ListInv, Wait
  PROVE  ListInv' /\ StackStep
<1>1. /\ ptrRunningFsm # Main /\ ptrRunningFsm' = ptrPrevFsm[ptrRunningFsm]
      /\ ptrPrevFsm' = ptrPrevFsm /\ ptrFsmSignal' = ptrFsmSignal
      /\ FsmSignalCounter' = FsmSignalCounter
      /\ mode' = mode /\ Counter' = Counter
  BY DEF Wait, signalVars
<1>2. ListInv'
  <2>1. ptrPrevFsm[ptrRunningFsm] \in Context
    BY <1>1 DEF IInv, FsmType, Context
  <2> QED BY <1>1, <2>1 DEF ListInv, Listed, Goes
<1>3. CallList' = Tail(CallList)
  <2>1. CallsOf(ptrPrevFsm[ptrRunningFsm], ptrPrevFsm, ptrFsmSignal, FsmSignalCounter)
          = Tail(CallsOf(ptrRunningFsm, ptrPrevFsm, ptrFsmSignal, FsmSignalCounter))
    BY <1>1, CallsPop DEF ListInv
  <2> QED BY <1>1, <2>1, CallListIs
<1>4. CallList # <<>>
  BY <1>1, TopRuns
<1>5. Stack!Return
  BY <1>1, <1>3, <1>4 DEF Stack!Return
<1> QED BY <1>2, <1>5 DEF StackStep, Stack!Next

LEMMA SendDelivers ==
  ASSUME IInv, ListInv, NEW s \in Signal, SendAndCall(s)
  PROVE  ListInv' /\ StackStep
<1>1. /\ CallFsm(GetFsm[s], s, OneMore(Counter[s])) /\ MaySend(s)
      /\ mode[s] = "Active" /\ GetFsm[s] # ptrRunningFsm
      /\ Counter' = [Counter EXCEPT ![s] = 0] /\ mode' = mode
  BY DEF SendAndCall, Calls
<1>2. Above(GetFsm[s], ptrRunningFsm)
  <2>1. GetFsm[s] \in Task
    BY Constants
  <2>2. ASSUME ptrRunningFsm # Main PROVE Rank[ptrRunningFsm] < Rank[GetFsm[s]]
    <3>1. SP = ptrRunningFsm /\ s \in Sends[SP]
      BY <1>1, <2>2, InCodeRuns DEF MaySend
    <3>2. ptrRunningFsm \in Task
      BY <2>2 DEF IInv, FsmType, Context
    <3> QED BY <1>1, <3>1, <3>2, RankType
  <2> QED BY <2>1, <2>2 DEF Above
<1>3. s \in Told /\ OneMore(Counter[s]) \in Counts
  BY OneMoreType DEF Told, Counts, IInv, FsmType
<1>4. ListInv' /\ Stack!Push(GetFsm[s], s, OneMore(Counter[s]))
  BY <1>1, <1>2, <1>3, CallPushes
<1>5. OneMore(Counter[s]) = Stack!OneMore(Counter[s])
  BY DEF OneMore, Stack!OneMore
<1>6. Stack!Deliver(s)
  BY <1>1, <1>4, <1>5 DEF Stack!Deliver
<1> QED BY <1>4, <1>6 DEF StackStep, Stack!Next

LEMMA SendCounts ==
  ASSUME IInv, ListInv, NEW s \in Signal, SendAndCount(s)
  PROVE  ListInv' /\ StackStep
<1>1. /\ ~Calls(s) /\ UNCHANGED callVars /\ mode' = mode
      /\ Counter' = IF mode[s] = "Disabled" THEN Counter
                    ELSE [Counter EXCEPT ![s] = OneMore(@)]
  BY DEF SendAndCount
<1>2. ListInv' /\ CallList' = CallList
  BY <1>1, SameCalls
<1>3. CASE mode[s] = "Disabled"
  <2>1. UNCHANGED Stack!vars
    BY <1>1, <1>2, <1>3 DEF Stack!vars
  <2> QED BY <1>2, <2>1 DEF StackStep
<1>4. CASE mode[s] # "Disabled"
  <2>1. mode[s] \in Mode /\ GetFsm[s] # Main
    BY Constants DEF IInv, FsmType
  <2>2. \/ mode[s] = "Silent"
        \/ mode[s] = "Active" /\ ptrRunningFsm = GetFsm[s]
    BY <1>1, <1>4, <2>1 DEF Calls, Mode
  <2>3. \/ mode[s] = "Silent"
        \/ mode[s] = "Active" /\ CallList # <<>> /\ Head(CallList).fsm = GetFsm[s]
    BY <2>1, <2>2, TopRuns
  <2>4. Counter' = [Counter EXCEPT ![s] = Stack!OneMore(@)]
    BY <1>1, <1>4 DEF OneMore, Stack!OneMore
  <2>5. Stack!Count(s)
    BY <1>1, <1>2, <2>3, <2>4 DEF Stack!Count
  <2> QED BY <1>2, <2>5 DEF StackStep, Stack!Next
<1> QED BY <1>3, <1>4

LEMMA ModeIsSet ==
  ASSUME IInv, ListInv, NEW s \in Signal, NEW m \in Mode, SetMode(s, m)
  PROVE  ListInv' /\ StackStep
<1>1. /\ UNCHANGED callVars /\ mode' = [mode EXCEPT ![s] = m]
      /\ Counter' = IF m = "Disabled" THEN [Counter EXCEPT ![s] = 0] ELSE Counter
  BY DEF SetMode
<1>2. ListInv' /\ CallList' = CallList
  BY <1>1, SameCalls
<1>3. Counter' = [Counter EXCEPT ![s] = IF m = "Disabled" THEN 0 ELSE @]
  BY <1>1 DEF IInv, FsmType
<1>4. Stack!SetMode(s, m)
  BY <1>1, <1>2, <1>3 DEF Stack!SetMode
<1> QED BY <1>2, <1>4 DEF StackStep, Stack!Next, Mode

\* Every step of Fsm maps to one of the stack or to none.
LEMMA StepsStack ==
  ASSUME IInv, ListInv, [Next]_vars
  PROVE  ListInv' /\ StackStep
<1>1. CASE CodeStep
  BY <1>1, StartCalls, DispatchCalls, WaitReturns, SendDelivers, SendCounts, ModeIsSet
     DEF CodeStep
<1>2. CASE KernelStep \/ UNCHANGED vars
  <2>1. UNCHANGED <<callVars, mode, Counter>>
    BY <1>2 DEF KernelStep, fsmVars, signalVars, callVars, vars
  <2>2. ListInv' /\ CallList' = CallList
    BY <2>1, SameCalls
  <2> QED BY <2>1, <2>2 DEF StackStep, Stack!vars
<1> QED BY <1>1, <1>2 DEF Next

\* When main() starts nothing has been called.
LEMMA InitStack == ASSUME Init PROVE ListInv /\ Stack!Init
<1>1. IInv /\ ptrRunningFsm = Main
  BY InitInv DEF Init
<1>2. Upward(ptrPrevFsm)
  BY DEF Init, Upward
<1>3. ListInv
  BY <1>1, <1>2, ListParts
<1>4. CallList = <<>>
  BY <1>1, <1>3, TopRuns
<1> QED BY <1>3, <1>4 DEF Stack!Init, Init, Mode

\* FSMs call one another as functions do, however many there are: no FSM that has
\* not returned is called again, Wait() returns to the last caller, which finds what
\* it was called with, and every Send is told once.
THEOREM CallsAreAStack == Spec => ImplementsCallStack
<1>1. Init => ListInv /\ Stack!Init
  BY InitStack
<1>2. IInv /\ ListInv /\ [Next]_vars => ListInv' /\ [Stack!Next]_(Stack!vars)
  BY StepsStack DEF StackStep
<1> QED BY <1>1, <1>2, Invariance, PTL DEF Spec, ImplementsCallStack, Stack!Spec
================================================================================
