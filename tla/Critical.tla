------------------------------ MODULE Critical ------------------------------
(***************************************************************************)
(* The critical sections of interrupt_sam_nvic: cpu_irq_enter_critical and *)
(* cpu_irq_leave_critical, nested and called from the main program and     *)
(* from interrupt handlers of rising priority alike.                       *)
(*                                                                         *)
(* Context 0 is the main program, context c + 1 a handler that has         *)
(* preempted context c; only the topmost one runs.  One step is one access *)
(* to the shared variables or to PRIMASK.                                  *)
(***************************************************************************)
EXTENDS Naturals

CONSTANTS
  Levels,     \* how many handlers can be preempted by one another
  MaxDepth    \* bound: how deep one context nests its critical sections

ASSUME CriticalAssumption == Levels \in Nat /\ MaxDepth \in Nat

Contexts == 0..Levels

VARIABLES
  PRIMASK,    \* 1: no handler is taken
  g,          \* g_interrupt_enabled
  counter,    \* cpu_irq_critical_section_counter
  prev,       \* cpu_irq_prev_interrupt_state
  active,     \* the topmost context
  pc, depth,  \* of each context: its next step, the sections it is in
  began       \* history: PRIMASK when the outermost section began, or as set since?

vars == <<PRIMASK, g, counter, prev, active, pc, depth, began>>

Init ==
  /\ PRIMASK = 0 /\ g = 1     \* as after reset
  /\ counter = 0 /\ prev = 0 /\ active = 0 /\ began = 0
  /\ pc = [c \in Contexts |-> "run"] /\ depth = [c \in Contexts |-> 0]

At(l) == pc[active] = l
Go(l) == pc' = [pc EXCEPT ![active] = l]

-----------------------------------------------------------------------------
(* cpu_irq_enter_critical.                                                 *)

\* if (cpu_irq_critical_section_counter == 0)
TestCounter ==
  /\ At("run") /\ depth[active] < MaxDepth
  /\ IF counter = 0 THEN Go("test") /\ began' = PRIMASK
     ELSE Go("count") /\ UNCHANGED began
  /\ UNCHANGED <<PRIMASK, g, counter, prev, active, depth>>

\* if (cpu_irq_is_enabled())
TestEnabled ==
  /\ At("test")
  /\ Go(IF PRIMASK = 0 THEN "mask" ELSE "noprev")
  /\ UNCHANGED <<PRIMASK, g, counter, prev, active, depth, began>>

\* cpu_irq_disable()
Disable ==
  \/ /\ At("mask") /\ Go("gfalse") /\ PRIMASK' = 1
     /\ UNCHANGED <<g, counter, prev, active, depth, began>>
  \/ /\ At("gfalse") /\ Go("prev") /\ g' = 0
     /\ UNCHANGED <<PRIMASK, counter, prev, active, depth, began>>

\* Mutant: the false state is not saved.
KeepPrev ==
  \/ At("prev") /\ Go("count") /\ prev' = 1
     /\ UNCHANGED <<PRIMASK, g, counter, active, depth, began>>
  \/ At("noprev") /\ Go("count")
     /\ UNCHANGED <<PRIMASK, g, counter, prev, active, depth, began>>

SavePrev ==
  /\ \/ At("prev")   /\ prev' = 1
     \/ At("noprev") /\ prev' = 0
  /\ Go("count")
  /\ UNCHANGED <<PRIMASK, g, counter, active, depth, began>>

\* Mutant: an increment is lost.
LoseCount ==
  /\ At("count") /\ Go("run")
  /\ depth' = [depth EXCEPT ![active] = @ + 1]
  /\ UNCHANGED <<PRIMASK, g, counter, prev, active, began>>

Count ==
  /\ At("count") /\ Go("run")
  /\ counter' = counter + 1 /\ depth' = [depth EXCEPT ![active] = @ + 1]
  /\ UNCHANGED <<PRIMASK, g, prev, active, began>>

-----------------------------------------------------------------------------
(* cpu_irq_leave_critical.                                                 *)

\* Mutant: the interrupts are enabled when any section ends.
EnableAtOnce ==
  /\ At("run") /\ depth[active] > 0
  /\ counter' = counter - 1 /\ depth' = [depth EXCEPT ![active] = @ - 1]
  /\ Go(IF prev = 1 THEN "gtrue" ELSE "run")
  /\ UNCHANGED <<PRIMASK, g, prev, active, began>>

Uncount ==
  /\ At("run") /\ depth[active] > 0
  /\ counter' = counter - 1 /\ depth' = [depth EXCEPT ![active] = @ - 1]
  /\ Go(IF counter' = 0 /\ prev = 1 THEN "gtrue" ELSE "run")
  /\ UNCHANGED <<PRIMASK, g, prev, active, began>>

\* cpu_irq_enable()
Enable ==
  \/ /\ At("gtrue") /\ Go("unmask") /\ g' = 1
     /\ UNCHANGED <<PRIMASK, counter, prev, active, depth, began>>
  \/ /\ At("unmask") /\ Go("run") /\ PRIMASK' = 0
     /\ UNCHANGED <<g, counter, prev, active, depth, began>>

\* The main program calls cpu_irq_disable or cpu_irq_enable outside every section;
\* while PRIMASK is 1 nothing comes between their two writes.
ToggleInterrupts ==
  /\ active = 0 /\ At("run") /\ depth[active] = 0
  /\ PRIMASK' = 1 - PRIMASK /\ g' = PRIMASK /\ began' = PRIMASK'
  /\ UNCHANGED <<counter, prev, active, pc, depth>>

-----------------------------------------------------------------------------
(* The processor.                                                          *)

Preempt ==
  /\ PRIMASK = 0 /\ active < Levels
  /\ active' = active + 1 /\ pc' = [pc EXCEPT ![active + 1] = "run"]
  /\ UNCHANGED <<PRIMASK, g, counter, prev, depth, began>>

\* A handler leaves the sections it has entered before it returns.
HandlerReturns ==
  /\ active > 0 /\ At("run") /\ depth[active] = 0
  /\ active' = active - 1
  /\ UNCHANGED <<PRIMASK, g, counter, prev, pc, depth, began>>

Next ==
  \/ TestCounter \/ TestEnabled \/ Disable \/ SavePrev \/ Count
  \/ Uncount \/ Enable \/ ToggleInterrupts \/ Preempt \/ HandlerReturns
Spec == Init /\ [][Next]_vars

-----------------------------------------------------------------------------
TypeOK ==
  /\ {PRIMASK, g, prev, began} \subseteq {0, 1}
  /\ counter \in Nat /\ active \in Contexts
  /\ pc \in [Contexts -> {"run", "test", "mask", "gfalse", "prev", "noprev", "count",
                          "gtrue", "unmask"}]
  /\ depth \in [Contexts -> Nat]

\* While any context is in a critical section no handler can run, so that no other
\* context is in one: what the sections protect is never seen half changed.
Exclusion ==
  /\ counter > 0 => PRIMASK = 1
  /\ \A c \in Contexts : depth[c] > 0 => c = active /\ PRIMASK = 1

\* The counter's own read and write, and that of the remembered state, are never
\* interleaved with another context's.
CounterProtected == pc[active] \in {"prev", "noprev", "count"} => PRIMASK = 1

\* Outside every section the interrupts are as they were when the outermost one began:
\* a leave never enables interrupts its caller had disabled, nor leaves them off.
StateRestored == counter = 0 /\ pc[active] = "run" => PRIMASK = began

\* The flag that the deprecated users of g_interrupt_enabled read is never 0 while
\* interrupts can come: a handler always sees it set.  (ServicesProofs.)
FlagInHandlers == PRIMASK = 0 => g = 1
=============================================================================
