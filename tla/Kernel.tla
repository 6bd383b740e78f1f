-------------------------------- MODULE Kernel --------------------------------
(***************************************************************************)
(* Contexts, critical sections and the switch from one context to another   *)
(* (src/kernel), under interrupts.  Each context, main()'s or a task's,     *)
(* counts its own critical sections, so that a task may be switched away    *)
(* from inside one and the next context runs with interrupts as it left     *)
(* them.  Code that runs in interrupt handlers counts its critical sections *)
(* in whatever context is current, which for a few instructions of the      *)
(* switch is not the one the processor is still executing.  (The pointer to *)
(* it is two bytes, stored one after the other with interrupts on; here it  *)
(* is one step, so no handler sees half of a pointer.)                      *)
(*                                                                          *)
(* The module gives the operators and steps; Fsm says when they are taken.  *)
(***************************************************************************)
EXTENDS Integers

CONSTANTS Task,     \* the FSMs, each with a context of its own
          Main,     \* SystemMainContext
          MaxNest   \* bound of the model: how deep critical sections nest

Context == Task \cup {Main}

ASSUME KernelAssumption == Main \notin Task /\ MaxNest \in Nat \ {0}

VARIABLES
  ptrSystemCurrentContext,
  cs_counter,      \* Context_t::cs_counter
  ptrStackTop,     \* whose stack the saved stack pointer of a context points into
  sreg,            \* the interrupt flag in the saved status register
  SP,              \* whose stack, hence whose code, the processor is in
  I,               \* the interrupt flag of its status register
  step,            \* "Code", or where SwitchToContext is
  ptrPrevContext,  \* its local variable
  isr,             \* where an interrupt handler is, or "None"
  isrSreg,         \* the interrupt flag the handler's prologue has saved
  open,            \* open[c]: critical sections the code of c is in (history)
  used             \* used[c]: it has been in one (history)

switchVars == <<ptrSystemCurrentContext, ptrStackTop, sreg, SP, step, ptrPrevContext>>
isrVars    == <<isr, isrSreg>>
countVars  == <<cs_counter, open>>

\* main() runs from reset, with interrupts off; InitTaskContext has given each
\* task its stack, and a context has been constructed with a cleared sreg.
KernelInit ==
  /\ ptrSystemCurrentContext = Main
  /\ cs_counter = [c \in Context |-> 0]
  /\ ptrStackTop = [c \in Context |-> c]
  /\ sreg = [c \in Context |-> FALSE]
  /\ SP = Main
  /\ I = FALSE
  /\ step = "Code"
  /\ ptrPrevContext = Main
  /\ isr = "None"
  /\ isrSreg = FALSE
  /\ open = [c \in Context |-> 0]
  /\ used = [c \in Context |-> FALSE]

--------------------------------------------------------------------------------
(* A name with an underscore is a faulty variant of the operator it is named *)
(* after: a run replaces the one by the other to see its properties fail.    *)

current == ptrSystemCurrentContext

\* The processor executes code of a context, no handler and no switch.
InCode == isr = "None" /\ step = "Code"

\* An Enter that counts the sections of all contexts in one counter.
EnterSection_Shared ==
  /\ I' = FALSE
  /\ cs_counter' = [cs_counter EXCEPT ![Main] = @ + 1]

\* CriticalSection_t::Enter.
EnterSection ==
  /\ I' = FALSE
  /\ cs_counter' = [cs_counter EXCEPT ![current] = @ + 1]

\* An Exit that enables interrupts whatever it leaves.
ExitSection_Always ==
  /\ I' = TRUE
  /\ cs_counter' = [cs_counter EXCEPT ![current] = IF @ > 0 THEN @ - 1 ELSE 0]

\* CriticalSection_t::Exit: does nothing unless a section is open.
ExitSection ==
  /\ I' = (I \/ cs_counter[current] = 1)
  /\ cs_counter' = [cs_counter EXCEPT ![current] = IF @ > 0 THEN @ - 1 ELSE 0]

\* The code of a context enters a critical section, and leaves one.
Enter ==
  /\ InCode
  /\ open[SP] < MaxNest
  /\ EnterSection
  /\ open' = [open EXCEPT ![SP] = @ + 1]
  /\ used' = [used EXCEPT ![SP] = TRUE]
  /\ UNCHANGED <<switchVars, isrVars>>

Exit ==
  /\ InCode
  /\ ExitSection
  /\ open' = [open EXCEPT ![SP] = IF @ > 0 THEN @ - 1 ELSE 0]
  /\ UNCHANGED <<used, switchVars, isrVars>>

\* What a critical section that is entered and left in one step leaves behind:
\* it enables interrupts unless it was nested.
Section ==
  /\ I' = (cs_counter[current] = 0)
  /\ used' = [used EXCEPT ![SP] = TRUE]

\* A switch that leaves the pointer to the current context alone.
SwitchToContext_Unnoted(c) ==
  /\ InCode
  /\ ptrPrevContext' = c
  /\ step' = "Save"
  /\ UNCHANGED <<ptrSystemCurrentContext, ptrStackTop, sreg, SP, isrVars, countVars>>

\* SwitchToContext: the pointer changes first, in one step here, ...
SwitchToContext(c) ==
  /\ InCode
  /\ ptrPrevContext' = ptrSystemCurrentContext
  /\ ptrSystemCurrentContext' = c
  /\ step' = "Save"
  /\ UNCHANGED <<ptrStackTop, sreg, SP, isrVars, countVars>>

\* ... then SwitchContext saves the registers in the previous context, ...
SaveContext ==
  /\ isr = "None" /\ step = "Save"
  /\ ptrStackTop' = [ptrStackTop EXCEPT ![ptrPrevContext] = SP]
  /\ sreg' = [sreg EXCEPT ![ptrPrevContext] = I]
  /\ step' = "Load"
  /\ UNCHANGED <<ptrSystemCurrentContext, SP, I, ptrPrevContext, isrVars, countVars, used>>

\* ... loads the stack pointer of the next one, ...
LoadStack ==
  /\ isr = "None" /\ step = "Load"
  /\ SP' = ptrStackTop[current]
  /\ step' = "Flags"
  /\ UNCHANGED <<ptrSystemCurrentContext, ptrStackTop, sreg, I, ptrPrevContext,
                 isrVars, countVars, used>>

\* A switch that does not load the status register.
LoadFlags_Kept ==
  /\ isr = "None" /\ step = "Flags"
  /\ step' = "Code"
  /\ UNCHANGED <<ptrSystemCurrentContext, ptrStackTop, sreg, SP, I, ptrPrevContext,
                 isrVars, countVars, used>>

\* ... and its status register, and returns on the new stack.
LoadFlags ==
  /\ isr = "None" /\ step = "Flags"
  /\ I' = sreg[current]
  /\ step' = "Code"
  /\ UNCHANGED <<ptrSystemCurrentContext, ptrStackTop, sreg, SP, ptrPrevContext,
                 isrVars, countVars, used>>

\* An interrupt strikes wherever the flag is set.  The processor leaves the flag
\* alone; the prologue of the handler saves the status register.
IsrBegin ==
  /\ isr = "None" /\ I
  /\ isr' = "Begun"
  /\ isrSreg' = I
  /\ UNCHANGED <<switchVars, I, countVars, used>>

\* The handler enters and leaves a critical section, as Send and Put do.
IsrEnter ==
  /\ isr = "Begun"
  /\ isr' = "Section"
  /\ EnterSection
  /\ UNCHANGED <<switchVars, isrSreg, open, used>>

IsrExit ==
  /\ isr = "Section"
  /\ isr' = "Done"
  /\ ExitSection
  /\ UNCHANGED <<switchVars, isrSreg, open, used>>

\* Its epilogue restores the status register.
IsrEnd ==
  /\ isr \in {"Begun", "Done"}
  /\ isr' = "None"
  /\ I' = isrSreg
  /\ UNCHANGED <<switchVars, isrSreg, countVars, used>>

Switching == SaveContext \/ LoadStack \/ LoadFlags

Handler == IsrEnter \/ IsrExit \/ IsrEnd

--------------------------------------------------------------------------------
(* Properties *)

\* Critical sections are honoured: code that is in one, wherever its context
\* was switched to and back meanwhile, cannot be interrupted; nor can a handler
\* that is in one.
SectionsHonoured ==
  /\ InCode /\ open[SP] > 0 => ~I
  /\ isr = "Section" => ~I

\* Outside its critical sections a context that has once left one always has
\* interrupts on: no context ever inherits those of another.  "Thus each Task
\* and main() has its own cs_counter" (manual, 3.1).
InterruptsBack == InCode /\ used[SP] /\ open[SP] = 0 => I

\* Each context counts its own critical sections, all of them and no others,
\* although handlers may count theirs in a context that is not yet, or no
\* longer, the one that was interrupted.
CountersIndependent ==
  isr = "None" => \A c \in Context : cs_counter[c] = open[c]
================================================================================
