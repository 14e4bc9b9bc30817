------------------------------ MODULE SleepMgr ------------------------------
(***************************************************************************)
(* The sleep manager: the lock counters of sleepmgr.h, sleepmgr_enter_sleep *)
(* with the pmc_sleep it calls, and the callbacks that handlers leave with *)
(* pmc_wait_wakeup_clocks_restore while the clocks are switched.           *)
(*                                                                         *)
(* Context 0 is the main program, context c + 1 a handler that has         *)
(* preempted context c.  A lock is taken by one context and may be given   *)
(* back by another, as a driver does that locks a mode for a transfer and  *)
(* unlocks it when the transfer's interrupt comes; nobody gives back a     *)
(* lock that is not held.                                                  *)
(***************************************************************************)
EXTENDS Naturals, FiniteSets

CONSTANTS
  Levels,     \* how many handlers can be preempted by one another
  Max,        \* the largest value of a uint8_t lock counter
  Lockable,   \* the modes that are locked
  MaxHeld     \* bound: how many locks of a mode are held, or being taken or given back

SleepAssumption ==
  {Levels, Max, MaxHeld} \subseteq Nat /\ MaxHeld + 1 < Max /\ Lockable \subseteq 0..5

\* SLEEPMGR_ACTIVE 0, _SLEEP_WFE 1, _SLEEP_WFI 2, _WAIT_FAST 3, _WAIT 4, _BACKUP 5.
Modes    == 0..5
Contexts == 0..Levels

VARIABLES
  locks,      \* sleepmgr_locks
  PRIMASK,
  active,     \* the topmost context
  pc, mode,   \* of each context: its next step, and the mode it is locking
  flags, reg, \* of each context: flags of the lock functions, 1 if enabled, and
              \* the register that a counter is loaded into
  held,       \* history: the locks of each mode that are held
  switched,   \* b_is_sleep_clock_used
  callback,   \* is callback_clocks_restored set?
  asked       \* history: how many callbacks were left and not called since

vars == <<locks, PRIMASK, active, pc, mode, flags, reg, held, switched, callback, asked>>
sleep == <<switched, callback, asked>>

Init ==
  /\ locks = [m \in Modes |-> IF m = 5 THEN 1 ELSE 0]   \* sleepmgr_init
  /\ PRIMASK = 0 /\ active = 0
  /\ pc = [c \in Contexts |-> "run"] /\ mode = [c \in Contexts |-> 0]
  /\ flags = [c \in Contexts |-> 0] /\ reg = flags
  /\ held = [m \in Modes |-> 0]
  /\ switched = FALSE /\ callback = FALSE /\ asked = 0

At(l) == pc[active] = l
Go(l) == pc' = [pc EXCEPT ![active] = l]

-----------------------------------------------------------------------------
(* sleepmgr_lock_mode and sleepmgr_unlock_mode.                            *)

Taking(m) == {c \in Contexts : pc[c] \in {"lock_save", "lock", "inc"} /\ mode[c] = m}
Giving(m) == {c \in Contexts : pc[c] \in {"unlock_save", "unlock", "dec"} /\ mode[c] = m}

\* The test for 0xff comes before the critical section.
LockTest(m) ==
  /\ At("run") /\ held[m] + Cardinality(Taking(m) \cup Giving(m)) < MaxHeld
  /\ Go(IF locks[m] >= Max THEN "trap" ELSE "lock_save")
  /\ mode' = [mode EXCEPT ![active] = m]
  /\ UNCHANGED <<locks, PRIMASK, active, flags, reg, held, sleep>>

\* The test for 0; the caller gives its lock away here.
UnlockTest(m) ==
  /\ At("run") /\ held[m] > 0 /\ held' = [held EXCEPT ![m] = @ - 1]
  /\ Go(IF locks[m] = 0 THEN "trap" ELSE "unlock_save")
  /\ mode' = [mode EXCEPT ![active] = m]
  /\ UNCHANGED <<locks, PRIMASK, active, flags, reg, sleep>>

\* Mutant: the interrupts are left enabled.
SaveOnly ==
  /\ \/ At("lock_save") /\ Go("lock")
     \/ At("unlock_save") /\ Go("unlock")
  /\ flags' = [flags EXCEPT ![active] = 1 - PRIMASK]
  /\ UNCHANGED <<locks, PRIMASK, active, mode, reg, held, sleep>>

\* flags = cpu_irq_save()
Save ==
  /\ \/ At("lock_save") /\ Go("lock")
     \/ At("unlock_save") /\ Go("unlock")
  /\ flags' = [flags EXCEPT ![active] = 1 - PRIMASK] /\ PRIMASK' = 1
  /\ UNCHANGED <<locks, active, mode, reg, held, sleep>>

\* ++sleepmgr_locks[mode] and --sleepmgr_locks[mode] load, ...
Load ==
  /\ \/ At("lock") /\ Go("inc")
     \/ At("unlock") /\ Go("dec")
  /\ reg' = [reg EXCEPT ![active] = locks[mode[active]]]
  /\ UNCHANGED <<locks, PRIMASK, active, mode, flags, held, sleep>>

\* ... and store.
Lock ==
  /\ At("inc") /\ Go("restore")
  /\ locks' = [locks EXCEPT ![mode[active]] = (reg[active] + 1) % (Max + 1)]
  /\ held' = [held EXCEPT ![mode[active]] = @ + 1]
  /\ UNCHANGED <<PRIMASK, active, mode, flags, reg, sleep>>

Unlock ==
  /\ At("dec") /\ Go("restore")
  /\ locks' = [locks EXCEPT ![mode[active]] = (reg[active] + Max) % (Max + 1)]
  /\ UNCHANGED <<PRIMASK, active, mode, flags, reg, held, sleep>>

\* cpu_irq_restore(flags)
RestoreFlags ==
  /\ At("restore") /\ Go("run")
  /\ PRIMASK' = IF flags[active] = 1 THEN 0 ELSE PRIMASK
  /\ UNCHANGED <<locks, active, mode, flags, reg, held, sleep>>

-----------------------------------------------------------------------------
(* sleepmgr_enter_sleep and pmc_sleep, called by the main program.         *)

\* sleepmgr_get_sleep_mode; the last counter is never zero.
sleepmgr_get_sleep_mode ==
  CHOOSE m \in Modes : locks[m] > 0 /\ \A n \in Modes : locks[n] > 0 => m <= n

\* Up to cpu_irq_enable in pmc_sleep interrupts are disabled: one step.
EnterSleep ==
  /\ active = 0 /\ At("run")
  /\ LET m == sleepmgr_get_sleep_mode
     IN  /\ mode' = [mode EXCEPT ![0] = m]
         /\ Go(CASE m = 0 -> "run" [] m \in {1, 2} -> "wfi" [] m \in {3, 4} -> "waitmode"
                 [] OTHER -> "off")
         /\ switched' = (m \in {3, 4})
  /\ PRIMASK' = 0
  /\ UNCHANGED <<locks, active, flags, reg, held, callback, asked>>

\* The instruction behind it: __WFI, or the WAITMODE bit.
FallAsleep ==
  /\ active = 0
  /\ \/ At("wfi") /\ Go("asleep")
     \/ At("waitmode") /\ Go("waiting")
  /\ UNCHANGED <<locks, PRIMASK, active, mode, flags, reg, held, sleep>>

\* A fast startup event ends wait mode, whatever PRIMASK is.
FastStartup ==
  /\ active = 0 /\ At("waiting") /\ Go("woken")
  /\ UNCHANGED <<locks, PRIMASK, active, mode, flags, reg, held, sleep>>

\* The clocks are restored and the callback called with interrupts disabled.
RestoreClocks ==
  /\ active = 0 /\ At("woken") /\ Go("run")
  /\ switched' = FALSE /\ PRIMASK' = 0
  /\ callback' = FALSE /\ asked' = asked - (IF callback THEN 1 ELSE 0)
  /\ UNCHANGED <<locks, active, mode, flags, reg, held>>

\* Backup mode ends with a reset.
Reset ==
  /\ active = 0 /\ At("off")
  /\ locks' = [m \in Modes |-> IF m = 5 THEN 1 ELSE 0] /\ held' = [m \in Modes |-> 0]
  /\ pc' = [c \in Contexts |-> "run"]
  /\ UNCHANGED <<PRIMASK, active, mode, flags, reg, sleep>>

-----------------------------------------------------------------------------
(* pmc_wait_wakeup_clocks_restore, called by a handler.                    *)

\* Without the clocks being switched the callback is called at once: no step here.
TestClocks ==
  /\ active > 0 /\ At("run") /\ switched /\ Go("ask")
  /\ UNCHANGED <<locks, PRIMASK, active, mode, flags, reg, held, sleep>>

\* cpu_irq_disable() and the store; the handler then returns, and the interrupts stay
\* disabled until the main program has restored the clocks.
LeaveCallback ==
  /\ At("ask") /\ Go("return")
  /\ PRIMASK' = 1 /\ callback' = TRUE /\ asked' = asked + 1
  /\ UNCHANGED <<locks, active, mode, flags, reg, held, switched>>

-----------------------------------------------------------------------------
(* The processor.                                                          *)

Preempt ==
  /\ PRIMASK = 0 /\ active < Levels /\ ~At("off") /\ ~At("waiting")
  /\ active' = active + 1
  /\ pc' = [c \in Contexts |-> IF c = active + 1 \/ (c = active /\ pc[c] = "asleep") THEN "run" ELSE pc[c]]
  /\ UNCHANGED <<locks, PRIMASK, mode, flags, reg, held, sleep>>

HandlerReturns ==
  /\ active > 0 /\ (At("run") \/ At("return")) /\ active' = active - 1
  /\ UNCHANGED <<locks, PRIMASK, pc, mode, flags, reg, held, sleep>>

Next ==
  \/ \E m \in Lockable : LockTest(m) \/ UnlockTest(m)
  \/ Save \/ Load \/ Lock \/ Unlock \/ RestoreFlags
  \/ EnterSleep \/ FallAsleep \/ FastStartup \/ RestoreClocks \/ Reset
  \/ TestClocks \/ LeaveCallback \/ Preempt \/ HandlerReturns
Spec == Init /\ [][Next]_vars

-----------------------------------------------------------------------------
TypeOK ==
  /\ locks \in [Modes -> 0..Max] /\ held \in [Modes -> Nat]
  /\ PRIMASK \in {0, 1} /\ active \in Contexts
  /\ pc \in [Contexts -> {"run", "lock_save", "lock", "inc", "unlock_save", "unlock", "dec", "restore",
                          "wfi", "waitmode", "asleep", "waiting", "woken", "off", "ask",
                          "return", "trap"}]
  /\ mode \in [Contexts -> Modes] /\ reg \in [Contexts -> 0..Max] /\ flags \in [Contexts -> {0, 1}]
  /\ switched \in BOOLEAN /\ callback \in BOOLEAN /\ asked \in Nat

\* No lock and no unlock is lost or counted twice, however handlers come between the
\* test, the critical section and each other: a counter is the number of locks held
\* and of unlocks that are still on their way, plus the one of sleepmgr_init; and no
\* context runs into the endless loops that catch an overflow.
LocksCounted ==
  /\ \A m \in Modes :
       locks[m] = held[m] + Cardinality(Giving(m)) + (IF m = 5 THEN 1 ELSE 0)
  /\ \A c \in Contexts : pc[c] # "trap"

\* When the clocks have been restored every callback that a handler left has been called,
\* as sleep.h says.  It is not so with two levels of handlers: there is room for one
\* callback only, and it is found free before the interrupts are disabled.
CallbacksCalled == ~switched => asked = 0
=============================================================================
