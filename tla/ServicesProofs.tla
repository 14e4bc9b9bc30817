--------------------------- MODULE ServicesProofs ---------------------------
(***************************************************************************)
(* Proofs about the four services, each for its own specification, and     *)
(* from them what Services checks of the four together.                    *)
(***************************************************************************)
EXTENDS Services, FiniteSetTheorems, TLAPS
-----------------------------------------------------------------------------
(* The critical sections are exclusive for any number of handlers.         *)

\* What the step a context is at says of PRIMASK, the counter and the saved state.
Shape ==
  LET here == pc[active]
  IN  /\ here = "run" => PRIMASK = (IF counter > 0 THEN 1 ELSE began)
      /\ here = "test" => counter = 0 /\ PRIMASK = began
      /\ here = "mask" => counter = 0 /\ PRIMASK = 0 /\ began = 0
      /\ here \in {"gfalse", "prev", "gtrue", "unmask"} =>
           counter = 0 /\ PRIMASK = 1 /\ began = 0
      /\ here = "noprev" => counter = 0 /\ PRIMASK = 1 /\ began = 1
      /\ here = "count" => PRIMASK = 1 /\ prev = 1 - began
      /\ here = "unmask" => g = 1

\* A context that does not run has no section, and was preempted where that is possible.
Others ==
  \A c \in Contexts : c # active =>
    depth[c] = 0 /\ (c < active => pc[c] \in {"run", "test", "mask"})

\* The strengthening that is inductive.
IInv ==
  /\ TypeOK /\ Shape /\ Others /\ FlagInHandlers
  /\ counter = depth[active]
  /\ counter > 0 => prev = 1 - began
  /\ active > 0 => began = 0

-----------------------------------------------------------------------------
LEMMA InitInv == Init => IInv
BY CriticalAssumption DEF CriticalAssumption, Init, IInv, TypeOK, Shape, Others,
     FlagInHandlers, Contexts

\* One step of the topmost context changes only its own entries of pc and depth.
LEMMA StepInv == IInv /\ [Next]_vars => IInv'
<1> SUFFICES ASSUME IInv, [Next]_vars PROVE IInv'
  OBVIOUS
<1> USE CriticalAssumption DEF CriticalAssumption, Contexts, IInv, TypeOK, Shape, Others,
     FlagInHandlers, At, Go
<1>1. CASE TestCounter  BY <1>1 DEF TestCounter
<1>2. CASE TestEnabled  BY <1>2 DEF TestEnabled
<1>3. CASE Disable      BY <1>3 DEF Disable
<1>4. CASE SavePrev     BY <1>4 DEF SavePrev
<1>5. CASE Count        BY <1>5 DEF Count
<1>6. CASE Uncount      BY <1>6 DEF Uncount
<1>7. CASE Enable       BY <1>7 DEF Enable
<1>8. CASE Preempt      BY <1>8 DEF Preempt
<1>9. CASE HandlerReturns BY <1>9 DEF HandlerReturns
<1>10. CASE ToggleInterrupts BY <1>10 DEF ToggleInterrupts
<1>11. CASE UNCHANGED vars BY <1>11 DEF vars
<1> QED
  BY <1>1, <1>2, <1>3, <1>4, <1>5, <1>6, <1>7, <1>8, <1>9, <1>10, <1>11 DEF Next

LEMMA Invariance == Spec => []IInv
BY InitInv, StepInv, PTL DEF Spec

-----------------------------------------------------------------------------
\* Whatever the number of handlers and however deep the nesting, a context that is in
\* a critical section is the one that runs, and no handler can be taken.
THEOREM AlwaysExclusive == Spec => []Exclusion
<1>1. IInv => Exclusion
  BY DEF IInv, TypeOK, Shape, Others, Exclusion, Contexts
<1> QED
  BY <1>1, Invariance, PTL

\* The counter and the saved state are only ever accessed with interrupts masked.
THEOREM AlwaysProtected == Spec => []CounterProtected
<1>1. IInv => CounterProtected
  BY DEF IInv, Shape, CounterProtected
<1> QED
  BY <1>1, Invariance, PTL

\* The outermost section leaves PRIMASK as it found it.
THEOREM AlwaysRestored == Spec => []StateRestored
<1>1. IInv => StateRestored
  BY DEF IInv, Shape, StateRestored
<1> QED
  BY <1>1, Invariance, PTL

\* The types, and g_interrupt_enabled being set whenever a handler can be taken.
THEOREM AlwaysTyped == Spec => [](TypeOK /\ FlagInHandlers)
<1>1. IInv => TypeOK /\ FlagInHandlers
  BY DEF IInv
<1> QED
  BY <1>1, Invariance, PTL

-----------------------------------------------------------------------------
(* The sleep manager: no lock is lost for any number of handlers and modes. *)

\* The steps between a load and a store of a counter, and all steps but the trap.
Counting == {"lock", "inc", "unlock", "dec"}
SleepSteps ==
  Counting \cup {"run", "lock_save", "unlock_save", "restore", "wfi", "waitmode", "asleep",
                 "waiting", "woken", "off", "ask", "return"}

Busy(m) == Sleep!Taking(m) \cup Sleep!Giving(m)
Always(m) == IF m = 5 THEN 1 ELSE 0

SleepTyped ==
  /\ locks \in [Sleep!Modes -> Nat] /\ held \in [Sleep!Modes -> Nat]
  /\ sMask \in {0, 1} /\ sActive \in Sleep!Contexts
  /\ sPc \in [Sleep!Contexts -> SleepSteps]
  /\ sMode \in [Sleep!Contexts -> Sleep!Modes] /\ sReg \in [Sleep!Contexts -> Nat]
  /\ \A c \in Sleep!Contexts : sReg[c] <= Max
  /\ flags \in [Sleep!Contexts -> {0, 1}]
  /\ switched \in BOOLEAN /\ callback \in BOOLEAN
  /\ asked \in Nat /\ (callback => asked > 0)

\* Only the context that runs is between a load and a store, with interrupts disabled.
Alone ==
  /\ sPc[sActive] \in Counting => sMask = 1
  /\ \A c \in Sleep!Contexts : c # sActive => sPc[c] \notin Counting
  /\ sPc[sActive] \in {"inc", "dec"} => sReg[sActive] = locks[sMode[sActive]]
  /\ \A c \in Sleep!Contexts : c > sActive => sPc[c] \in {"run", "return"}

\* The counters, and the bound of MaxHeld on what is held or in work.
CountedAt(m) ==
  /\ locks[m] = held[m] + Cardinality(Sleep!Giving(m)) + Always(m)
  /\ held[m] + Cardinality(Busy(m)) <= MaxHeld
Counted == \A m \in Sleep!Modes : CountedAt(m)

SleepInv == SleepTyped /\ Alone /\ Counted

-----------------------------------------------------------------------------
LEMMA SleepProper ==
  /\ SleepLevels \in Nat /\ Max \in Nat /\ MaxHeld \in Nat /\ MaxHeld + 1 < Max
  /\ \A m \in Lockable : m \in Sleep!Modes
BY ServicesAssumption DEF ServicesAssumption, Sleep!SleepAssumption, Sleep!Modes

LEMMA OneCardinality == \A S : Sleep!Cardinality(S) = Cardinality(S)
BY DEF Sleep!Cardinality, Cardinality

\* Sets of contexts are finite: one that joins or leaves counts one.
LEMMA ContextCounts ==
  ASSUME NEW S \in SUBSET Sleep!Contexts
  PROVE  /\ IsFiniteSet(S) /\ Cardinality(S) \in Nat
         /\ \A c : c \in S => Cardinality(S) > 0 /\ Cardinality(S \ {c}) = Cardinality(S) - 1
         /\ \A c : c \notin S => Cardinality(S \cup {c}) = Cardinality(S) + 1
<1>1. IsFiniteSet(Sleep!Contexts)
  BY SleepProper, FS_Interval DEF Sleep!Contexts
<1>2. IsFiniteSet(S)
  BY <1>1, FS_Subset
<1>3. Cardinality(S) \in Nat
  BY <1>2, FS_CardinalityType
<1>4. ASSUME NEW c \in S
      PROVE  Cardinality(S) > 0 /\ Cardinality(S \ {c}) = Cardinality(S) - 1
  <2>1. Cardinality(S \ {c}) = Cardinality(S) - 1
    BY <1>2, FS_RemoveElement
  <2>2. IsFiniteSet(S \ {c})
    BY <1>2, FS_Subset
  <2> QED
    BY <1>3, <2>1, <2>2, FS_CardinalityType
<1>5. ASSUME NEW c, c \notin S PROVE Cardinality(S \cup {c}) = Cardinality(S) + 1
  BY <1>2, <1>5, FS_AddElement
<1> QED
  BY <1>2, <1>3, <1>4, <1>5

LEMMA SetsOfContexts ==
  \A m : /\ Sleep!Giving(m) \subseteq Sleep!Contexts /\ Busy(m) \subseteq Sleep!Contexts
         /\ Sleep!Giving(m) \subseteq Busy(m)
BY DEF Sleep!Giving, Sleep!Taking, Busy

\* With what is held or in work bounded no counter reaches its limit.
LEMMA CountersBounded ==
  ASSUME SleepTyped, Counted, NEW m \in Sleep!Modes
  PROVE  /\ locks[m] \in Nat /\ locks[m] < Max
         /\ \A c \in Sleep!Giving(m) : locks[m] > 0
         /\ held[m] > 0 => locks[m] > 0
<1>1. /\ Cardinality(Sleep!Giving(m)) \in Nat /\ Cardinality(Busy(m)) \in Nat
      /\ \A c \in Sleep!Giving(m) : Cardinality(Sleep!Giving(m)) > 0
  BY ContextCounts, SetsOfContexts
<1>2. Cardinality(Sleep!Giving(m)) <= Cardinality(Busy(m))
  <2>1. IsFiniteSet(Busy(m))
    BY ContextCounts, SetsOfContexts
  <2> QED
    BY <2>1, SetsOfContexts, FS_Subset
<1>3. held[m] \in Nat /\ locks[m] \in Nat
  BY DEF SleepTyped
<1> QED
  BY <1>1, <1>2, <1>3, SleepProper DEF Counted, CountedAt, Always

\* Steps that leave the counters, and who is taking and giving them, alone.
LEMMA SameCounts ==
  ASSUME SleepTyped, Counted, UNCHANGED <<locks, held>>,
         \A m \in Sleep!Modes : (Sleep!Giving(m))' = Sleep!Giving(m) /\ Busy(m)' = Busy(m)
  PROVE  Counted'
BY DEF Counted, CountedAt, Always

\* One context goes on by a step that does not begin or end a lock or unlock.
LEMMA SameSets ==
  ASSUME SleepTyped, NEW c \in Sleep!Contexts, sMode' = sMode, NEW l,
         sPc' = [sPc EXCEPT ![c] = l],
         \/ {sPc[c], l} \subseteq {"lock_save", "lock", "inc"}
         \/ {sPc[c], l} \subseteq {"unlock_save", "unlock", "dec"}
         \/ {sPc[c], l} \cap (Counting \cup {"lock_save", "unlock_save"}) = {}
  PROVE  \A m \in Sleep!Modes : (Sleep!Giving(m))' = Sleep!Giving(m) /\ Busy(m)' = Busy(m)
BY DEF SleepTyped, Sleep!Giving, Sleep!Taking, Busy, Counting

-----------------------------------------------------------------------------
LEMMA SleepInitInv == Sleep!Init => SleepInv
<1> SUFFICES ASSUME Sleep!Init PROVE SleepInv
  OBVIOUS
<1>1. 0 \in Sleep!Contexts
  BY SleepProper DEF Sleep!Contexts
<1>2. SleepTyped
  <2>1. flags = [c \in Sleep!Contexts |-> 0] /\ sReg = flags
    BY DEF Sleep!Init
  <2>2. \A c \in Sleep!Contexts : sReg[c] = 0 /\ flags[c] = 0
    BY <2>1
  <2>3. /\ sPc \in [Sleep!Contexts -> SleepSteps] /\ sMode \in [Sleep!Contexts -> Sleep!Modes]
        /\ locks \in [Sleep!Modes -> Nat] /\ held \in [Sleep!Modes -> Nat]
    BY DEF Sleep!Init, SleepSteps, Sleep!Modes
  <2>4. flags \in [Sleep!Contexts -> {0, 1}] /\ sReg \in [Sleep!Contexts -> Nat]
    BY <2>1
  <2>5. \A c \in Sleep!Contexts : sReg[c] <= Max
    BY <2>2, SleepProper
  <2>6. sMask \in {0, 1} /\ sActive \in Sleep!Contexts /\ switched \in BOOLEAN
        /\ callback = FALSE /\ asked = 0
    BY <1>1 DEF Sleep!Init
  <2> QED
    BY <2>3, <2>4, <2>5, <2>6 DEF SleepTyped
<1>4. Alone
  BY <1>1 DEF Sleep!Init, Alone, Counting
<1>3. ASSUME NEW m \in Sleep!Modes PROVE CountedAt(m)
  <2>1. Sleep!Giving(m) = {} /\ Busy(m) = {}
    BY DEF Sleep!Init, Sleep!Giving, Sleep!Taking, Busy
  <2>2. locks[m] = Always(m) /\ held[m] = 0
    BY DEF Sleep!Init, Always
  <2> QED
    BY <2>1, <2>2, FS_EmptySet, SleepProper DEF CountedAt, Always
<1> QED
  BY <1>2, <1>3, <1>4 DEF SleepInv, Counted

LEMMA LockTestInv ==
  ASSUME SleepInv, NEW m \in Lockable, Sleep!LockTest(m) PROVE SleepInv'
<1> USE DEF SleepInv
<1>0. m \in Sleep!Modes /\ sActive \in Sleep!Contexts
  BY SleepProper DEF SleepTyped
<1>1. locks[m] < Max /\ locks[m] \in Nat
  BY <1>0, CountersBounded
<1>2. /\ sPc[sActive] = "run" /\ sPc' = [sPc EXCEPT ![sActive] = "lock_save"]
      /\ sMode' = [sMode EXCEPT ![sActive] = m]
      /\ UNCHANGED <<locks, sMask, sActive, flags, sReg, held, switched, callback, asked>>
  <2>1. ~(locks[m] >= Max)
    BY <1>1, SleepProper
  <2> QED
    BY <2>1, Zenon DEF Sleep!LockTest, Sleep!At, Sleep!Go, Sleep!sleep
<1>3. SleepTyped'
  BY <1>0, <1>2 DEF SleepTyped, SleepSteps
<1>4. Alone'
  BY <1>0, <1>2 DEF SleepTyped, Alone, Counting, Sleep!Contexts
<1>5. /\ (Sleep!Giving(m))' = Sleep!Giving(m) /\ Busy(m)' = Busy(m) \cup {sActive}
      /\ sActive \notin Busy(m)
      /\ \A n \in Sleep!Modes : n # m =>
           (Sleep!Giving(n))' = Sleep!Giving(n) /\ Busy(n)' = Busy(n)
  BY <1>0, <1>2 DEF SleepTyped, Sleep!Giving, Sleep!Taking, Busy
<1>6. CountedAt(m)'
  <2>1. Cardinality(Busy(m)') = Cardinality(Busy(m)) + 1 /\ Cardinality(Busy(m)) \in Nat
    BY <1>5, ContextCounts, SetsOfContexts
  <2>2. held[m] + Cardinality(Busy(m)) < MaxHeld
    BY OneCardinality DEF Sleep!LockTest, Busy
  <2> QED
    BY <1>0, <1>2, <1>5, <2>1, <2>2, SleepProper DEF Counted, CountedAt, Always, SleepTyped
<1>7. \A n \in Sleep!Modes : n # m => CountedAt(n)'
  BY <1>2, <1>5 DEF Counted, CountedAt, Always
<1> QED
  BY <1>3, <1>4, <1>6, <1>7 DEF Counted

LEMMA UnlockTestInv ==
  ASSUME SleepInv, NEW m \in Lockable, Sleep!UnlockTest(m) PROVE SleepInv'
<1> USE DEF SleepInv
<1>0. m \in Sleep!Modes /\ sActive \in Sleep!Contexts
  BY SleepProper DEF SleepTyped
<1>1. held[m] > 0 /\ held[m] \in Nat /\ locks[m] \in Nat /\ locks[m] > 0
  BY <1>0, CountersBounded DEF Sleep!UnlockTest, SleepTyped
<1>2. /\ sPc[sActive] = "run" /\ sPc' = [sPc EXCEPT ![sActive] = "unlock_save"]
      /\ sMode' = [sMode EXCEPT ![sActive] = m] /\ held' = [held EXCEPT ![m] = held[m] - 1]
      /\ UNCHANGED <<locks, sMask, sActive, flags, sReg, switched, callback, asked>>
  <2>1. locks[m] # 0
    BY <1>1
  <2> QED
    BY <2>1, Zenon DEF Sleep!UnlockTest, Sleep!At, Sleep!Go, Sleep!sleep
<1>3. SleepTyped'
  BY <1>0, <1>1, <1>2 DEF SleepTyped, SleepSteps
<1>4. Alone'
  BY <1>0, <1>2 DEF SleepTyped, Alone, Counting, Sleep!Contexts
<1>5. /\ (Sleep!Giving(m))' = Sleep!Giving(m) \cup {sActive} /\ Busy(m)' = Busy(m) \cup {sActive}
      /\ sActive \notin Busy(m) /\ sActive \notin Sleep!Giving(m)
      /\ \A n \in Sleep!Modes : n # m =>
           (Sleep!Giving(n))' = Sleep!Giving(n) /\ Busy(n)' = Busy(n)
  BY <1>0, <1>2 DEF SleepTyped, Sleep!Giving, Sleep!Taking, Busy
<1>6. CountedAt(m)'
  <2>1. /\ Cardinality(Busy(m)') = Cardinality(Busy(m)) + 1 /\ Cardinality(Busy(m)) \in Nat
        /\ Cardinality((Sleep!Giving(m))') = Cardinality(Sleep!Giving(m)) + 1
        /\ Cardinality(Sleep!Giving(m)) \in Nat
    BY <1>5, ContextCounts, SetsOfContexts
  <2>2. held'[m] = held[m] - 1
    BY <1>0, <1>2 DEF SleepTyped
  <2> QED
    BY <1>0, <1>1, <1>2, <2>1, <2>2, SleepProper DEF Counted, CountedAt, Always, SleepTyped
<1>7. \A n \in Sleep!Modes : n # m => CountedAt(n)'
  BY <1>2, <1>5 DEF Counted, CountedAt, Always, SleepTyped
<1> QED
  BY <1>3, <1>4, <1>6, <1>7 DEF Counted

\* The load changes neither counters nor sets, the store both.
LEMMA LoadInv == ASSUME SleepInv, Sleep!Save \/ Sleep!Load \/ Sleep!RestoreFlags PROVE SleepInv'
<1> USE DEF SleepInv
<1>0. sActive \in Sleep!Contexts /\ sMode[sActive] \in Sleep!Modes
  BY DEF SleepTyped
<1>1. locks[sMode[sActive]] \in Nat /\ locks[sMode[sActive]] <= Max
  BY <1>0, CountersBounded, SleepProper
<1>2. /\ UNCHANGED <<locks, sActive, sMode, held, switched, callback, asked>>
  BY DEF Sleep!Save, Sleep!Load, Sleep!RestoreFlags, Sleep!sleep
<1>3. SleepTyped'
  BY <1>0, <1>1, <1>2 DEF SleepTyped, SleepSteps, Counting, Sleep!Save, Sleep!Load,
       Sleep!RestoreFlags, Sleep!At, Sleep!Go
<1>4. Alone'
  BY <1>0, <1>2 DEF SleepTyped, Alone, Counting, Sleep!Contexts, Sleep!Save, Sleep!Load,
       Sleep!RestoreFlags, Sleep!At, Sleep!Go
<1>5. \A m \in Sleep!Modes : (Sleep!Giving(m))' = Sleep!Giving(m) /\ Busy(m)' = Busy(m)
  <2>1. PICK l : /\ sPc' = [sPc EXCEPT ![sActive] = l]
                 /\ <<sPc[sActive], l>> \in {<<"lock_save", "lock">>, <<"unlock_save", "unlock">>,
                      <<"lock", "inc">>, <<"unlock", "dec">>, <<"restore", "run">>}
    BY DEF Sleep!Save, Sleep!Load, Sleep!RestoreFlags, Sleep!At, Sleep!Go
  <2> QED
    BY <1>0, <1>2, <2>1, SameSets DEF Counting
<1> QED
  BY <1>2, <1>3, <1>4, <1>5, SameCounts

LEMMA StoreInv == ASSUME SleepInv, Sleep!Lock \/ Sleep!Unlock PROVE SleepInv'
<1> USE DEF SleepInv
<1> DEFINE m == sMode[sActive]
<1>0. sActive \in Sleep!Contexts /\ m \in Sleep!Modes /\ sReg[sActive] = locks[m]
  BY DEF SleepTyped, Alone, Sleep!Lock, Sleep!Unlock, Sleep!At
<1>1. locks[m] \in Nat /\ locks[m] < Max /\ held[m] \in Nat
  BY <1>0, CountersBounded DEF SleepTyped
<1>2. /\ UNCHANGED <<sMask, sActive, sMode, flags, sReg, switched, callback, asked>>
      /\ sPc[sActive] \in {"inc", "dec"} /\ sPc' = [sPc EXCEPT ![sActive] = "restore"]
  BY DEF Sleep!Lock, Sleep!Unlock, Sleep!sleep, Sleep!At, Sleep!Go
<1>3. Alone'
  BY <1>0, <1>2 DEF SleepTyped, Alone, Counting, Sleep!Contexts
<1>4. \A n \in Sleep!Modes : n # m => (Sleep!Giving(n))' = Sleep!Giving(n) /\ Busy(n)' = Busy(n)
  BY <1>0, <1>2 DEF SleepTyped, Sleep!Giving, Sleep!Taking, Busy
<1>5. Busy(m)' = Busy(m) \ {sActive} /\ sActive \in Busy(m)
  BY <1>0, <1>2 DEF SleepTyped, Sleep!Giving, Sleep!Taking, Busy
<1>6. Cardinality(Busy(m)') = Cardinality(Busy(m)) - 1 /\ Cardinality(Busy(m)) \in Nat
  BY <1>5, ContextCounts, SetsOfContexts
<1>7. Cardinality(Sleep!Giving(m)) \in Nat
  BY ContextCounts, SetsOfContexts
<1>8. CASE Sleep!Lock
  <2>1. (locks[m] + 1) % (Max + 1) = locks[m] + 1
    BY <1>1, SleepProper
  <2>2. locks' = [locks EXCEPT ![m] = locks[m] + 1] /\ held' = [held EXCEPT ![m] = held[m] + 1]
        /\ sPc[sActive] = "inc"
    BY <1>0, <1>8, <2>1 DEF Sleep!Lock, Sleep!At
  <2>3. (Sleep!Giving(m))' = Sleep!Giving(m)
    BY <1>0, <1>2, <2>2 DEF SleepTyped, Sleep!Giving
  <2>4. SleepTyped'
    BY <1>0, <1>1, <1>2, <2>2 DEF SleepTyped, SleepSteps
  <2>5. CountedAt(m)'
    <3>1. locks'[m] = locks[m] + 1 /\ held'[m] = held[m] + 1
      BY <1>0, <2>2 DEF SleepTyped
    <3> QED
      BY <1>0, <1>1, <1>2, <1>6, <1>7, <2>3, <3>1, SleepProper DEF Counted, CountedAt, Always
  <2>6. \A n \in Sleep!Modes : n # m => CountedAt(n)'
    BY <1>0, <1>4, <2>2 DEF Counted, CountedAt, Always, SleepTyped
  <2> QED
    BY <1>2, <1>3, <2>4, <2>5, <2>6 DEF Counted
<1>9. CASE Sleep!Unlock
  <2>0. sPc[sActive] = "dec" /\ sActive \in Sleep!Giving(m)
    BY <1>0, <1>9 DEF Sleep!Unlock, Sleep!At, Sleep!Giving
  <2>1. (locks[m] + Max) % (Max + 1) = locks[m] - 1 /\ locks[m] > 0
    BY <1>0, <1>1, <2>0, CountersBounded, SleepProper
  <2>2. locks' = [locks EXCEPT ![m] = locks[m] - 1] /\ held' = held
    BY <1>0, <1>9, <2>1 DEF Sleep!Unlock
  <2>3. (Sleep!Giving(m))' = Sleep!Giving(m) \ {sActive}
    BY <1>0, <1>2, <2>0 DEF SleepTyped, Sleep!Giving
  <2>4. SleepTyped'
    BY <1>0, <1>1, <1>2, <2>1, <2>2 DEF SleepTyped, SleepSteps
  <2>5. CountedAt(m)'
    <3>1. locks'[m] = locks[m] - 1
      BY <1>0, <2>2 DEF SleepTyped
    <3>2. Cardinality((Sleep!Giving(m))') = Cardinality(Sleep!Giving(m)) - 1
      BY <2>0, <2>3, ContextCounts, SetsOfContexts
    <3>3. /\ locks[m] = held[m] + Cardinality(Sleep!Giving(m)) + Always(m)
          /\ held[m] + Cardinality(Busy(m)) <= MaxHeld
      BY <1>0 DEF Counted, CountedAt
    <3>4. locks'[m] = held[m] + Cardinality((Sleep!Giving(m))') + Always(m)
      BY <1>1, <1>7, <3>1, <3>2, <3>3 DEF Always
    <3>5. held[m] + Cardinality(Busy(m)') <= MaxHeld
      BY <1>1, <1>6, <3>3, SleepProper
    <3>6. m' = m /\ held' = held
      BY <1>2, <2>2
    <3> QED
      BY <3>4, <3>5, <3>6 DEF CountedAt, Always
  <2>6. \A n \in Sleep!Modes : n # m => CountedAt(n)'
    BY <1>0, <1>4, <2>2 DEF Counted, CountedAt, Always, SleepTyped
  <2> QED
    BY <1>2, <1>3, <2>4, <2>5, <2>6 DEF Counted
<1> QED
  BY <1>8, <1>9
\* The last counter is never 0, so that there is a mode to choose.
LEMMA ModeChosen ==
  ASSUME SleepInv, Sleep!EnterSleep
  PROVE  /\ sActive = 0 /\ 0 \in Sleep!Contexts /\ sPc[0] = "run"
         /\ Sleep!sleepmgr_get_sleep_mode \in Sleep!Modes
         /\ \E l \in {"run", "wfi", "waitmode", "off"} :
              sPc' = [sPc EXCEPT ![0] = l] /\ switched' = (l = "waitmode")
<1> USE DEF SleepInv
<1>0. sActive = 0 /\ sActive \in Sleep!Contexts /\ sPc[0] = "run" /\ 0 \in Sleep!Contexts
  BY DEF Sleep!EnterSleep, Sleep!At, SleepTyped
<1>1. Sleep!sleepmgr_get_sleep_mode \in Sleep!Modes
  <2> DEFINE P(m) == /\ m \in Sleep!Modes /\ locks[m] > 0
                     /\ \A n \in Sleep!Modes : locks[n] > 0 => m <= n
  <2>1. locks[5] > 0 /\ \A n \in Sleep!Modes : locks[n] \in Nat
    <3>1. 5 \in Sleep!Modes
      BY DEF Sleep!Modes
    <3>2. Cardinality(Sleep!Giving(5)) \in Nat
      BY ContextCounts, SetsOfContexts
    <3> QED
      BY <3>1, <3>2 DEF Counted, CountedAt, Always, SleepTyped
  <2>2. P(0) \/ P(1) \/ P(2) \/ P(3) \/ P(4) \/ P(5)
    BY <2>1 DEF Sleep!Modes
  <2>3. \E m \in Sleep!Modes : P(m)
    BY <2>2
  <2> QED
    BY <2>3 DEF Sleep!sleepmgr_get_sleep_mode
<1>2. \E l \in {"run", "wfi", "waitmode", "off"} :
        sPc' = [sPc EXCEPT ![0] = l] /\ switched' = (l = "waitmode")
  <2> DEFINE m == Sleep!sleepmgr_get_sleep_mode
  <2>1. Sleep!Go(CASE m = 0 -> "run" [] m \in {1, 2} -> "wfi" [] m \in {3, 4} -> "waitmode"
                   [] OTHER -> "off")
       /\ switched' = (m \in {3, 4})
    BY DEF Sleep!EnterSleep
  <2>2. m \in {1, 2} \/ m \in {3, 4} \/ m = 0 \/ m = 5
    BY <1>1 DEF Sleep!Modes
  <2> HIDE DEF m
  <2>3. PICK l \in {"run", "wfi", "waitmode", "off"} :
          /\ l = CASE m = 0 -> "run" [] m \in {1, 2} -> "wfi" [] m \in {3, 4} -> "waitmode"
                   [] OTHER -> "off"
          /\ (m \in {3, 4}) = (l = "waitmode")
    BY <2>2
  <2> QED
    BY <1>0, <2>1, <2>3 DEF Sleep!Go
<1> QED
  BY <1>0, <1>1, <1>2

\* Falling asleep and waking up: the counters are as they were.
LEMMA ModeInv == ASSUME SleepInv, Sleep!EnterSleep PROVE SleepInv'
<1> USE DEF SleepInv
<1>0. /\ sActive = 0 /\ sPc[0] = "run" /\ 0 \in Sleep!Contexts
      /\ Sleep!sleepmgr_get_sleep_mode \in Sleep!Modes
  BY ModeChosen
<1>2. PICK l \in {"run", "wfi", "waitmode", "off"} : sPc' = [sPc EXCEPT ![0] = l]
  BY ModeChosen
<1>3. /\ sMode' = [sMode EXCEPT ![0] = Sleep!sleepmgr_get_sleep_mode] /\ sMask' = 0
      /\ switched' \in BOOLEAN
      /\ UNCHANGED <<locks, sActive, flags, sReg, held, callback, asked>>
  BY DEF Sleep!EnterSleep
<1>4. SleepTyped'
  BY <1>0, <1>2, <1>3 DEF SleepTyped, SleepSteps
<1>5. Alone'
  BY <1>0, <1>2, <1>3 DEF SleepTyped, Alone, Counting, Sleep!Contexts
<1>6. \A m \in Sleep!Modes : (Sleep!Giving(m))' = Sleep!Giving(m) /\ Busy(m)' = Busy(m)
  BY <1>0, <1>2, <1>3 DEF SleepTyped, Sleep!Giving, Sleep!Taking, Busy
<1> QED
  BY <1>3, <1>4, <1>5, <1>6, SameCounts

LEMMA WakeInv ==
  ASSUME SleepInv,
         Sleep!FallAsleep \/ Sleep!FastStartup \/ Sleep!RestoreClocks \/ Sleep!TestClocks
           \/ Sleep!LeaveCallback
  PROVE  SleepInv'
<1> USE DEF SleepInv
<1>0. sActive \in Sleep!Contexts
  BY DEF SleepTyped
<1>1. PICK l \in {"asleep", "waiting", "woken", "run", "ask", "return"} :
        sPc' = [sPc EXCEPT ![sActive] = l]
  BY DEF Sleep!FallAsleep, Sleep!FastStartup, Sleep!RestoreClocks, Sleep!TestClocks,
         Sleep!LeaveCallback, Sleep!Go
<1>2. /\ UNCHANGED <<locks, sActive, sMode, flags, sReg, held>>
      /\ sPc[sActive] \in {"wfi", "waitmode", "waiting", "woken", "run", "ask"}
      /\ sMask' \in {0, 1} /\ switched' \in BOOLEAN
  BY DEF Sleep!FallAsleep, Sleep!FastStartup, Sleep!RestoreClocks, Sleep!TestClocks,
         Sleep!LeaveCallback, Sleep!At, Sleep!sleep, SleepTyped
<1>3. callback' \in BOOLEAN /\ asked' \in Nat /\ (callback' => asked' > 0)
  <2>1. CASE Sleep!RestoreClocks
    <3>1. callback' = FALSE /\ asked' = asked - (IF callback THEN 1 ELSE 0)
      BY <2>1 DEF Sleep!RestoreClocks
    <3>2. asked' \in Nat
      <4>1. CASE callback
        <5>1. asked \in Nat /\ asked > 0 /\ asked' = asked - 1
          BY <3>1, <4>1, Zenon DEF SleepTyped
        <5> QED
          BY <5>1
      <4>2. CASE ~callback
        <5>1. asked \in Nat /\ asked' = asked - 0
          BY <3>1, <4>2, Zenon DEF SleepTyped
        <5> QED
          BY <5>1
      <4> QED
        BY <4>1, <4>2
    <3> QED
      BY <3>1, <3>2, Zenon
  <2>2. CASE Sleep!LeaveCallback
    BY <2>2 DEF Sleep!LeaveCallback, SleepTyped
  <2>3. CASE Sleep!FallAsleep \/ Sleep!FastStartup \/ Sleep!TestClocks
    BY <2>3 DEF Sleep!FallAsleep, Sleep!FastStartup, Sleep!TestClocks, Sleep!sleep, SleepTyped
  <2> QED
    BY <2>1, <2>2, <2>3
<1>4. SleepTyped'
  BY <1>0, <1>1, <1>2, <1>3 DEF SleepTyped, SleepSteps
<1>5. Alone'
  BY <1>0, <1>1, <1>2 DEF SleepTyped, Alone, Counting, Sleep!Contexts
<1>6. \A m \in Sleep!Modes : (Sleep!Giving(m))' = Sleep!Giving(m) /\ Busy(m)' = Busy(m)
  BY <1>0, <1>1, <1>2, SameSets DEF Counting
<1> QED
  BY <1>2, <1>4, <1>5, <1>6, SameCounts

\* After the reset that ends backup mode nothing is locked.
LEMMA ResetInv == ASSUME SleepInv, Sleep!Reset PROVE SleepInv'
<1> USE DEF SleepInv
<1>1. /\ locks' = [m \in Sleep!Modes |-> IF m = 5 THEN 1 ELSE 0]
      /\ held' = [m \in Sleep!Modes |-> 0] /\ sPc' = [c \in Sleep!Contexts |-> "run"]
      /\ UNCHANGED <<sMask, sActive, sMode, flags, sReg, switched, callback, asked>>
  BY DEF Sleep!Reset, Sleep!sleep
<1>2. SleepTyped'
  BY <1>1 DEF SleepTyped, SleepSteps
<1>3. Alone'
  BY <1>1, <1>2 DEF SleepTyped, Alone, Counting, Sleep!Contexts
<1>4. ASSUME NEW m \in Sleep!Modes PROVE CountedAt(m)'
  <2>1. (Sleep!Giving(m))' = {} /\ Busy(m)' = {}
    BY <1>1 DEF Sleep!Giving, Sleep!Taking, Busy
  <2>2. locks'[m] = Always(m) /\ held'[m] = 0
    BY <1>1 DEF Always
  <2> QED
    BY <2>1, <2>2, FS_EmptySet, SleepProper DEF CountedAt, Always
<1> QED
  BY <1>2, <1>3, <1>4 DEF Counted

\* A handler is only taken, and only returns, between two locks or unlocks.
LEMMA PreemptInv == ASSUME SleepInv, Sleep!Preempt PROVE SleepInv'
<1> USE DEF SleepInv
<1>1. /\ sActive' = sActive + 1 /\ sMask = 0 /\ sActive < SleepLevels
      /\ sPc' = [c \in Sleep!Contexts |->
                   IF c = sActive + 1 \/ (c = sActive /\ sPc[c] = "asleep") THEN "run" ELSE sPc[c]]
      /\ UNCHANGED <<locks, sMask, sMode, flags, sReg, held, switched, callback, asked>>
  BY DEF Sleep!Preempt, Sleep!sleep
<1>2. sActive \in Sleep!Contexts /\ sActive + 1 \in Sleep!Contexts /\ sActive + 1 # sActive
  BY <1>1, SleepProper DEF SleepTyped, Sleep!Contexts
<1>3. SleepTyped'
  BY <1>1, <1>2 DEF SleepTyped, SleepSteps
<1>4. Alone'
  BY <1>1, <1>2 DEF SleepTyped, Alone, Counting, Sleep!Contexts
<1>5. \A m \in Sleep!Modes : (Sleep!Giving(m))' = Sleep!Giving(m) /\ Busy(m)' = Busy(m)
  <2>1. sPc[sActive + 1] \in {"run", "return"}
    BY <1>2 DEF Alone, Sleep!Contexts
  <2>2. \A c \in Sleep!Contexts :
          sPc'[c] = sPc[c] \/ (sPc'[c] = "run" /\ sPc[c] \in {"run", "return", "asleep"})
    BY <1>1, <1>2, <2>1
  <2> QED
    BY <1>1, <2>2 DEF Sleep!Giving, Sleep!Taking, Busy
<1> QED
  BY <1>1, <1>3, <1>4, <1>5, SameCounts

LEMMA ReturnInv == ASSUME SleepInv, Sleep!HandlerReturns PROVE SleepInv'
<1> USE DEF SleepInv
<1>1. /\ sActive' = sActive - 1 /\ sActive > 0 /\ sPc[sActive] \in {"run", "return"}
      /\ UNCHANGED <<locks, sMask, sPc, sMode, flags, sReg, held, switched, callback, asked>>
  BY DEF Sleep!HandlerReturns, Sleep!sleep, Sleep!At
<1>2. sActive \in Sleep!Contexts /\ sActive - 1 \in Sleep!Contexts /\ sActive - 1 # sActive
  BY <1>1, SleepProper DEF SleepTyped, Sleep!Contexts
<1>3. SleepTyped'
  BY <1>1, <1>2 DEF SleepTyped
<1>4. Alone'
  BY <1>1, <1>2 DEF SleepTyped, Alone, Counting, Sleep!Contexts
<1>5. \A m \in Sleep!Modes : (Sleep!Giving(m))' = Sleep!Giving(m) /\ Busy(m)' = Busy(m)
  BY <1>1 DEF Sleep!Giving, Sleep!Taking, Busy
<1> QED
  BY <1>1, <1>3, <1>4, <1>5, SameCounts

LEMMA SleepInvariance == Sleep!Spec => []SleepInv
<1>1. SleepInv /\ [Sleep!Next]_(Sleep!vars) => SleepInv'
  <2> SUFFICES ASSUME SleepInv, [Sleep!Next]_(Sleep!vars) PROVE SleepInv'
    OBVIOUS
  <2>1. CASE UNCHANGED Sleep!vars
    <3>1. UNCHANGED sleepVars
      BY <2>1 DEF Sleep!vars, sleepVars
    <3>2. SleepTyped' /\ Alone'
      BY <3>1 DEF SleepInv, SleepTyped, Alone, sleepVars
    <3>3. \A m \in Sleep!Modes : (Sleep!Giving(m))' = Sleep!Giving(m) /\ Busy(m)' = Busy(m)
      BY <3>1 DEF Sleep!Giving, Sleep!Taking, Busy, sleepVars
    <3> QED
      BY <3>1, <3>2, <3>3, SameCounts DEF SleepInv, sleepVars
  <2>2. ASSUME NEW m \in Lockable, Sleep!LockTest(m) \/ Sleep!UnlockTest(m) PROVE SleepInv'
    BY <2>2, LockTestInv, UnlockTestInv
  <2>3. CASE Sleep!Save \/ Sleep!Load \/ Sleep!RestoreFlags \/ Sleep!Lock \/ Sleep!Unlock
    BY <2>3, LoadInv, StoreInv
  <2>4. CASE Sleep!EnterSleep \/ Sleep!FallAsleep \/ Sleep!FastStartup \/ Sleep!RestoreClocks
               \/ Sleep!Reset \/ Sleep!TestClocks \/ Sleep!LeaveCallback
    BY <2>4, ModeInv, WakeInv, ResetInv
  <2>5. CASE Sleep!Preempt \/ Sleep!HandlerReturns
    BY <2>5, PreemptInv, ReturnInv
  <2> QED
    BY <2>1, <2>2, <2>3, <2>4, <2>5 DEF Sleep!Next
<1> QED
  BY <1>1, SleepInitInv, PTL DEF Sleep!Spec

-----------------------------------------------------------------------------
\* Every counter is the locks held and those on their way back, for any number of
\* handlers, and no context is caught by the overflow test.
THEOREM AlwaysCounted == Sleep!Spec => []Sleep!LocksCounted
<1>1. SleepInv => Sleep!LocksCounted
  BY OneCardinality, Zenon
     DEF SleepInv, SleepTyped, SleepSteps, Counting, Counted, CountedAt, Always, Sleep!LocksCounted
<1> QED
  BY <1>1, SleepInvariance, PTL

\* The types; the registers and counters never leave their range.
THEOREM SleepAlwaysTyped == Sleep!Spec => []Sleep!TypeOK
<1>1. SleepInv => Sleep!TypeOK
  <2> SUFFICES ASSUME SleepInv PROVE Sleep!TypeOK
    OBVIOUS
  <2>1. \A m \in Sleep!Modes : locks[m] \in 0..Max
    BY CountersBounded, SleepProper DEF SleepInv
  <2>2. \A c \in Sleep!Contexts : sReg[c] \in 0..Max
    BY SleepProper DEF SleepInv, SleepTyped
  <2>3. locks \in [Sleep!Modes -> 0..Max] /\ sReg \in [Sleep!Contexts -> 0..Max]
    BY <2>1, <2>2 DEF SleepInv, SleepTyped
  <2> QED
    BY <2>3 DEF SleepInv, SleepTyped, SleepSteps, Counting, Sleep!TypeOK
<1> QED
  BY <1>1, SleepInvariance, PTL

-----------------------------------------------------------------------------
(* The pin handlers, for a table of any size and any pins and masks.       *)

LEMMA PioProper == Pio!PioAssumption
BY ServicesAssumption DEF ServicesAssumption

\* A counted source of controller d has the pin.
PinHas(d, p) == \E t \in Pio!Table : t < number /\ source[t].id = d /\ p \in source[t].mask

PioSource == [id: Ids \cup {"none"}, mask: SUBSET Pins, handler: BOOLEAN]

PioTyped ==
  /\ source \in [Pio!Table -> PioSource] /\ pArg \in PioSource
  /\ number \in Nat /\ number <= MAX_INTERRUPT_SOURCES
  /\ at \in Pio!Table /\ i \in Nat
  /\ imr \in [Ids -> SUBSET Pins] /\ isr \in [Ids -> SUBSET Pins]

\* What is counted has its handler; a source that is written again keeps id and mask.
PioWritten ==
  /\ \A t \in Pio!Table : t < number => source[t].handler
  /\ pPc \in {"id", "mask", "handler", "number"} =>
       /\ pArg.handler
       /\ at <= number
       /\ at < number => source[at].id = pArg.id /\ source[at].mask = pArg.mask
  /\ pPc = "number" => source[at].handler

\* Pins are only enabled, and will only be enabled again, if they have a source.
PinsDefined ==
  /\ \A d \in Ids : \A p \in imr[d] : PinHas(d, p)
  /\ pPc \in {"idr", "isr", "ier"} => \A p \in pArg.mask : PinHas(pArg.id, p)

\* Each pin the search still looks for has a source that it has yet to come to.
PinsAhead ==
  /\ irq = "none" => status = {}
  /\ owed = status
  /\ \A p \in status : \E t \in Pio!Table :
       i <= t /\ t < number /\ source[t].id = irq /\ p \in source[t].mask

PioInv == PioTyped /\ PioWritten /\ PinsDefined /\ PinsAhead

-----------------------------------------------------------------------------
LEMMA PioInitInv == Pio!Init => PioInv
BY PioProper DEF Pio!PioAssumption, Pio!Init, PioInv, PioTyped, PioWritten, PinsDefined,
     PinsAhead, PioSource, Pio!Table, Pio!Unset

\* Defined is the set of the pins that a counted source has.
LEMMA DefinedHas == \A d, p : p \in Pio!Defined(d) => PinHas(d, p)
BY DEF Pio!Defined, PinHas

\* A step that keeps the counted sources keeps what they have.
LEMMA HasKept ==
  ASSUME PioTyped, number' \in Nat, number <= number',
         \A t \in Pio!Table : t < number =>
           source'[t].id = source[t].id /\ source'[t].mask = source[t].mask
  PROVE  \A d, p : PinHas(d, p) => PinHas(d, p)'
<1> SUFFICES ASSUME NEW d, NEW p, PinHas(d, p) PROVE PinHas(d, p)'
  OBVIOUS
<1>1. PICK t \in Pio!Table : t < number /\ source[t].id = d /\ p \in source[t].mask
  BY DEF PinHas
<1>2. t < number'
  BY <1>1 DEF PioTyped, Pio!Table
<1> QED
  BY <1>1, <1>2 DEF PinHas

LEMMA FindTable ==
  ASSUME PioTyped, NEW d, NEW m, number < MAX_INTERRUPT_SOURCES
  PROVE  /\ Pio!Find(d, m) \in Pio!Table /\ Pio!Find(d, m) <= number
         /\ Pio!Find(d, m) < number =>
              source[Pio!Find(d, m)].id = d /\ source[Pio!Find(d, m)].mask = m
<1>1. number \in Pio!Table
  BY PioProper DEF PioTyped, Pio!Table, Pio!PioAssumption
<1>2. CASE \E t \in Pio!Table : t < number /\ Pio!IsFor(t, d, m)
  <2>1. Pio!Find(d, m) \in Pio!Table /\ Pio!Find(d, m) < number /\ Pio!IsFor(Pio!Find(d, m), d, m)
    BY <1>2 DEF Pio!Find
  <2> QED
    BY <1>1, <2>1 DEF Pio!IsFor, Pio!Table, PioTyped
<1>3. CASE ~\E t \in Pio!Table : t < number /\ Pio!IsFor(t, d, m)
  <2>1. Pio!Find(d, m) = number
    BY <1>3 DEF Pio!Find
  <2> QED
    BY <1>1, <2>1 DEF Pio!Table, PioTyped
<1> QED
  BY <1>2, <1>3

-----------------------------------------------------------------------------
\* The main program: it runs only while no interrupt does.
LEMMA SetInv ==
  ASSUME PioInv, NEW d \in Ids, NEW m \in Masks, Pio!Set(d, m) PROVE PioInv'
<1> USE DEF PioInv
<1>1. m \in SUBSET Pins
  BY PioProper DEF Pio!PioAssumption
<1>2. pArg' = [id |-> d, mask |-> m, handler |-> TRUE] /\ pArg' \in PioSource
  BY <1>1 DEF Pio!Set, PioSource
<1>3. /\ UNCHANGED <<source, number, isr, imr, irq, status, i, owed>> /\ pPc = "run"
  BY DEF Pio!Set, Pio!Main
<1>4. PinsAhead'
  BY <1>3 DEF PinsAhead
<1>5. CASE number >= MAX_INTERRUPT_SOURCES
  <2>1. pPc' = pPc /\ at' = at
    BY <1>5 DEF Pio!Set
  <2> QED
    BY <1>2, <1>3, <1>4, <2>1 DEF PioTyped, PioWritten, PinsDefined, PinHas
<1>6. CASE ~(number >= MAX_INTERRUPT_SOURCES)
  <2>1. pPc' = "id" /\ at' = Pio!Find(d, m)
    BY <1>6 DEF Pio!Set
  <2>2. number < MAX_INTERRUPT_SOURCES
    BY <1>6, PioProper DEF PioTyped, Pio!PioAssumption
  <2>3. /\ at' \in Pio!Table /\ at' <= number
        /\ at' < number => source[at'].id = d /\ source[at'].mask = m
    BY <2>1, <2>2, FindTable
  <2>4. PioTyped'
    BY <1>2, <1>3, <2>3 DEF PioTyped
  <2>5. PioWritten'
    BY <1>2, <1>3, <2>1, <2>3 DEF PioWritten
  <2>6. PinsDefined'
    BY <1>3, <2>1 DEF PinsDefined, PinHas
  <2> QED
    BY <1>4, <2>4, <2>5, <2>6
<1> QED
  BY <1>5, <1>6

LEMMA WriteInv == ASSUME PioInv, Pio!WriteSource PROVE PioInv'
<1> USE DEF PioInv
<1>1. /\ UNCHANGED <<number, isr, imr, pArg, at, pRet, irq, status, i, owed>>
      /\ irq = "none" /\ status = {}
  BY DEF Pio!WriteSource, Pio!Main, PinsAhead
<1>2. PinsAhead'
  BY <1>1 DEF PinsAhead
<1>3. source' \in [Pio!Table -> PioSource] /\ pPc \in {"id", "mask", "handler"}
      /\ pPc' \in {"mask", "handler", "number"}
  BY DEF Pio!WriteSource, PioTyped, PioSource
<1>4. \A t \in Pio!Table : t # at => source'[t] = source[t]
  BY DEF Pio!WriteSource, PioTyped
<1>5. at < number => source'[at].id = source[at].id /\ source'[at].mask = source[at].mask
                     /\ source'[at].handler
  BY DEF Pio!WriteSource, PioTyped, PioWritten, PioSource
<1>6. pPc' = "number" => source'[at].handler
  BY DEF Pio!WriteSource, PioTyped, PioWritten, PioSource
<1>7. PioTyped'
  BY <1>1, <1>3 DEF PioTyped
<1>8. PioWritten'
  BY <1>1, <1>3, <1>4, <1>5, <1>6 DEF PioWritten
<1>9. \A d, p : PinHas(d, p) => PinHas(d, p)'
  BY <1>1, <1>4, <1>5, HasKept DEF PioTyped
<1>10. PinsDefined'
  BY <1>1, <1>3, <1>9 DEF PinsDefined
<1> QED
  BY <1>2, <1>7, <1>8, <1>10

LEMMA CountInv == ASSUME PioInv, Pio!CountSource PROVE PioInv'
<1> USE DEF PioInv
<1>1. /\ UNCHANGED <<source, isr, imr, pArg, at, pRet, irq, status, i, owed>>
      /\ irq = "none" /\ status = {} /\ pPc = "number" /\ pPc' = "run"
      /\ number' = IF at = number THEN number + 1 ELSE number
  BY DEF Pio!CountSource, Pio!Main, PinsAhead
<1>2. PinsAhead'
  BY <1>1 DEF PinsAhead
<1>3. number' \in Nat /\ number <= number' /\ number' <= MAX_INTERRUPT_SOURCES
  BY <1>1, PioProper DEF PioTyped, Pio!Table, Pio!PioAssumption
<1>4. PioTyped'
  BY <1>1, <1>3 DEF PioTyped
<1>5. \A t \in Pio!Table : t < number' => t < number \/ t = at
  BY <1>1 DEF PioTyped, Pio!Table
<1>6. PioWritten'
  BY <1>1, <1>5 DEF PioWritten
<1>7. \A d, p : PinHas(d, p) => PinHas(d, p)'
  BY <1>1, <1>3, HasKept
<1>8. PinsDefined'
  BY <1>1, <1>7 DEF PinsDefined
<1> QED
  BY <1>2, <1>4, <1>6, <1>8

LEMMA PinsInv ==
  ASSUME PioInv, NEW d \in Ids, NEW m \in Masks, Pio!EnablePins(d, m) \/ Pio!DisablePins(d, m)
  PROVE  PioInv'
<1> USE DEF PioInv
<1>1. /\ UNCHANGED <<source, number, isr, pPc, pArg, at, pRet, irq, status, i, owed>>
      /\ pPc = "run"
  BY DEF Pio!EnablePins, Pio!DisablePins, Pio!Main, Pio!main
<1>2. /\ imr' \in [Ids -> SUBSET Pins]
      /\ \A e \in Ids : \A p \in imr'[e] : p \in imr[e] \/ (e = d /\ p \in Pio!Defined(d))
  <2>1. m \in SUBSET Pins
    BY PioProper DEF Pio!PioAssumption
  <2> QED
    BY <2>1 DEF Pio!EnablePins, Pio!DisablePins, PioTyped
<1>3. PinsDefined'
  BY <1>1, <1>2, DefinedHas DEF PinsDefined, PinHas
<1> QED
  BY <1>1, <1>2, <1>3 DEF PioTyped, PioWritten, PinsAhead

LEMMA PriorityInv == ASSUME PioInv, NEW d \in Ids, Pio!SetPriority(d) PROVE PioInv'
<1> USE DEF PioInv
<1>1. UNCHANGED <<source, number, at, pRet, irq, status, i, owed>>
  BY DEF Pio!SetPriority, Pio!Main
<1>2. /\ pPc' \in {"idr", "isr", "ier", "run"}
      /\ pArg' \in PioSource /\ isr' \in [Ids -> SUBSET Pins] /\ imr' \in [Ids -> SUBSET Pins]
  <2>1. CASE pPc = "run"
    <3>1. pArg' = [id |-> d, mask |-> imr[d], handler |-> FALSE] /\ pPc' = "idr"
          /\ isr' = isr /\ imr' = imr
      BY <2>1 DEF Pio!SetPriority
    <3> QED
      BY <3>1 DEF PioTyped, PioSource
  <2>2. CASE pPc = "idr"
    BY <2>2 DEF Pio!SetPriority, PioTyped
  <2>3. CASE pPc = "isr"
    BY <2>3 DEF Pio!SetPriority, PioTyped
  <2>4. CASE pPc = "ier"
    <3>1. pArg.mask \in SUBSET Pins /\ imr' = [imr EXCEPT ![d] = @ \cup pArg.mask]
      BY <2>4 DEF Pio!SetPriority, PioTyped, PioSource
    <3> QED
      BY <2>4, <3>1 DEF Pio!SetPriority, PioTyped
  <2> QED
    BY <2>1, <2>2, <2>3, <2>4 DEF Pio!SetPriority
<1>3. PinsDefined'
  <2>1. \A e, p : PinHas(e, p)' <=> PinHas(e, p)
    BY <1>1 DEF PinHas
  <2>2. pPc' \in {"idr", "isr", "ier"} => \A p \in pArg'.mask : PinHas(pArg'.id, p)
    BY DEF Pio!SetPriority, PinsDefined
  <2>3. \A e \in Ids : \A p \in imr'[e] : PinHas(e, p)
    BY DEF Pio!SetPriority, PinsDefined, PioTyped
  <2> QED
    BY <2>1, <2>2, <2>3 DEF PinsDefined
<1> QED
  BY <1>1, <1>2, <1>3 DEF PioTyped, PioWritten, PinsAhead

\* The controllers' events.
LEMMA EventInv == ASSUME PioInv, NEW d \in Ids, NEW p \in Pins, Pio!Event(d, p) PROVE PioInv'
BY DEF PioInv, Pio!Event, Pio!main, PioTyped, PioWritten, PinsDefined, PinHas, PinsAhead

\* The interrupt.
LEMMA IrqInv == ASSUME PioInv, Pio!pio_handler_process PROVE PioInv'
<1> USE DEF PioInv
<1>1. UNCHANGED <<source, number, pPc, pArg, at, pRet>>
  BY DEF Pio!pio_handler_process, Pio!Enter, Pio!Search, Pio!ReturnFromIrq, Pio!main
<1>2. isr' \in [Ids -> SUBSET Pins] /\ imr' \in [Ids -> SUBSET Pins]
      /\ \A d \in Ids : imr'[d] \subseteq imr[d]
  BY DEF Pio!pio_handler_process, Pio!Enter, Pio!Search, Pio!ReturnFromIrq, PioTyped
<1>3. i' \in Nat
  BY DEF Pio!pio_handler_process, Pio!Enter, Pio!Search, Pio!ReturnFromIrq, PioTyped
<1>4. PioTyped' /\ PioWritten'
  BY <1>1, <1>2, <1>3 DEF PioTyped, PioWritten
<1>5. PinsDefined'
  BY <1>1, <1>2 DEF PinsDefined, PinHas
<1>6. ASSUME NEW d \in Ids, Pio!Enter(d) PROVE PinsAhead'
  <2>1. irq' = d /\ d # "none" /\ status' \subseteq imr[d] /\ owed' = status' /\ i' = 0
    BY <1>6, PioProper DEF Pio!Enter, Pio!PioAssumption
  <2>2. \A p \in status' : PinHas(d, p)
    BY <2>1 DEF PinsDefined
  <2>3. \A t \in Pio!Table : 0 <= t
    BY DEF Pio!Table
  <2> QED
    BY <1>1, <2>1, <2>2, <2>3 DEF PinsAhead, PinHas
<1>7. ASSUME Pio!Search PROVE PinsAhead'
  <2>1. irq' = irq /\ i' = i + 1 /\ owed' = status' /\ irq # "none"
    BY <1>7 DEF Pio!Search, PinsAhead
  <2>2. /\ status' \subseteq status
        /\ source[i].id = irq => \A p \in status' : p \notin source[i].mask
    BY <1>7 DEF Pio!Search, Pio!Matches
  <2>3. ASSUME NEW p \in status'
        PROVE  \E t \in Pio!Table :
                 i + 1 <= t /\ t < number /\ source[t].id = irq /\ p \in source[t].mask
    <3>1. PICK t \in Pio!Table :
            i <= t /\ t < number /\ source[t].id = irq /\ p \in source[t].mask
      BY <2>2, <2>3 DEF PinsAhead
    <3>2. t # i
      BY <2>2, <2>3, <3>1
    <3>3. i + 1 <= t
      BY <3>1, <3>2 DEF PioTyped, Pio!Table
    <3> QED
      BY <3>1, <3>3
  <2> QED
    BY <1>1, <2>1, <2>3 DEF PinsAhead
<1>8. ASSUME Pio!ReturnFromIrq PROVE PinsAhead'
  BY <1>8 DEF Pio!ReturnFromIrq, PinsAhead
<1> QED
  BY <1>4, <1>5, <1>6, <1>7, <1>8 DEF Pio!pio_handler_process

LEMMA PioInvariance ==
  Pio!Spec => []PioInv
<1>1. Pio!Init => PioInv
  BY PioInitInv
<1>2. PioInv /\ [Pio!Next]_(Pio!vars) => PioInv'
  <2>1. PioInv /\ UNCHANGED Pio!vars => PioInv'
    <3> SUFFICES ASSUME PioInv, UNCHANGED Pio!vars PROVE PioInv'
      OBVIOUS
    <3>1. PioTyped' /\ PioWritten'
      BY DEF PioInv, Pio!vars, Pio!main, PioTyped, PioWritten
    <3>2. PinsDefined'
      BY DEF PioInv, Pio!vars, Pio!main, PinsDefined, PinHas
    <3>3. PinsAhead'
      BY DEF PioInv, Pio!vars, Pio!main, PinsAhead
    <3> QED
      BY <3>1, <3>2, <3>3 DEF PioInv
  <2>2. PioInv /\ Pio!Next => PioInv'
    <3> SUFFICES ASSUME PioInv, Pio!Next PROVE PioInv'
      OBVIOUS
    <3>1. ASSUME NEW d \in Ids, NEW m \in Masks,
                 Pio!Set(d, m) \/ Pio!EnablePins(d, m) \/ Pio!DisablePins(d, m)
          PROVE  PioInv'
      BY <3>1, SetInv, PinsInv
    <3>2. CASE Pio!WriteSource \/ Pio!CountSource \/ \E d \in Ids : Pio!SetPriority(d)
      BY <3>2, WriteInv, CountInv, PriorityInv
    <3>3. CASE Pio!pio_handler_process \/ \E d \in Ids, p \in Pins : Pio!Event(d, p)
      BY <3>3, EventInv, IrqInv
    <3> QED
      BY <3>1, <3>2, <3>3 DEF Pio!Next
  <2> QED
    BY <2>1, <2>2
<1> QED
  BY <1>1, <1>2, PTL DEF Pio!Spec

-----------------------------------------------------------------------------
\* No two counted sources are for the same pins of a controller: the one being written
\* is a counted one again, or none of them is for its pins.
PioDistinct ==
  /\ \A t, u \in Pio!Table : t < u /\ u < number => ~Pio!IsFor(t, source[u].id, source[u].mask)
  /\ pPc \in {"id", "mask", "handler", "number"} /\ at = number =>
       \A t \in Pio!Table : t < number => ~Pio!IsFor(t, pArg.id, pArg.mask)
  /\ pPc \in {"mask", "handler", "number"} => source[at].id = pArg.id
  /\ pPc \in {"handler", "number"} => source[at].mask = pArg.mask
  /\ i <= MAX_INTERRUPT_SOURCES /\ status \subseteq Pins /\ pRet \in {0, 1}

LEMMA DistinctStep == PioInv /\ PioDistinct /\ [Pio!Next]_(Pio!vars) => PioDistinct'
<1> SUFFICES ASSUME PioInv, PioDistinct, [Pio!Next]_(Pio!vars) PROVE PioDistinct'
  OBVIOUS
<1> USE DEF PioInv
<1>1. ASSUME NEW d \in Ids, NEW m \in Masks, Pio!Set(d, m) PROVE PioDistinct'
  <2>1. /\ UNCHANGED <<source, number, i, status>> /\ pPc = "run" /\ pRet' \in {0, 1}
        /\ pArg' = [id |-> d, mask |-> m, handler |-> TRUE]
    BY <1>1 DEF Pio!Set, Pio!Main
  <2>2. CASE number >= MAX_INTERRUPT_SOURCES
    BY <1>1, <2>1, <2>2 DEF Pio!Set, PioDistinct, Pio!IsFor
  <2>3. CASE ~(number >= MAX_INTERRUPT_SOURCES)
    <3>1. pPc' = "id" /\ at' = Pio!Find(d, m)
      BY <1>1, <2>3 DEF Pio!Set
    <3>2. at' = number => \A t \in Pio!Table : t < number => ~Pio!IsFor(t, d, m)
      <4> SUFFICES ASSUME NEW t \in Pio!Table, t < number, Pio!IsFor(t, d, m) PROVE at' < number
        BY DEF PioTyped
      <4> QED
        BY <3>1 DEF Pio!Find
    <3> QED
      BY <2>1, <3>1, <3>2 DEF PioDistinct, Pio!IsFor
  <2> QED
    BY <2>2, <2>3
<1>2. CASE Pio!WriteSource
  <2>1. /\ UNCHANGED <<number, pArg, at, pRet, i, status>>
        /\ pPc \in {"id", "mask", "handler"} /\ pPc' \in {"mask", "handler", "number"}
        /\ (pPc' = "mask") = (pPc = "id") /\ (pPc' = "handler") = (pPc = "mask")
    BY <1>2 DEF Pio!WriteSource, Pio!Main
  <2>2. \A t \in Pio!Table : t < number =>
          source'[t].id = source[t].id /\ source'[t].mask = source[t].mask
    BY <1>2 DEF Pio!WriteSource, PioTyped, PioWritten, PioSource
  <2>3. /\ source'[at].id = pArg.id
        /\ pPc' \in {"handler", "number"} => source'[at].mask = pArg.mask
    BY <1>2 DEF Pio!WriteSource, PioTyped, PioDistinct, PioSource
  <2>4. \A t, u \in Pio!Table : t < u /\ u < number => t < number
    BY DEF PioTyped, Pio!Table
  <2> QED
    BY <2>1, <2>2, <2>3, <2>4 DEF PioDistinct, Pio!IsFor
<1>3. CASE Pio!CountSource
  <2>1. /\ UNCHANGED <<source, pArg, at, pRet, i, status>> /\ pPc = "number" /\ pPc' = "run"
        /\ number' = IF at = number THEN number + 1 ELSE number
    BY <1>3 DEF Pio!CountSource, Pio!Main
  <2>2. ASSUME NEW t \in Pio!Table, NEW u \in Pio!Table, t < u, u < number'
        PROVE  ~Pio!IsFor(t, source[u].id, source[u].mask)
    <3>1. u < number \/ (u = at /\ at = number /\ t < number)
      BY <2>1, <2>2 DEF PioTyped, Pio!Table
    <3> QED
      BY <2>1, <2>2, <3>1 DEF PioDistinct
  <2> QED
    BY <2>1, <2>2 DEF PioDistinct, Pio!IsFor
<1>4. ASSUME NEW d \in Ids, NEW m \in Masks, Pio!EnablePins(d, m) \/ Pio!DisablePins(d, m)
      PROVE  PioDistinct'
  BY <1>4 DEF Pio!EnablePins, Pio!DisablePins, Pio!Main, Pio!main, PioDistinct, Pio!IsFor
<1>5. ASSUME NEW d \in Ids, Pio!SetPriority(d) PROVE PioDistinct'
  BY <1>5 DEF Pio!SetPriority, Pio!Main, PioDistinct, Pio!IsFor
<1>6. ASSUME NEW d \in Ids, NEW p \in Pins, Pio!Event(d, p) PROVE PioDistinct'
  BY <1>6 DEF Pio!Event, Pio!main, PioDistinct, Pio!IsFor
<1>7. CASE Pio!pio_handler_process
  <2>1. UNCHANGED <<source, number, pPc, pArg, at, pRet>>
    BY <1>7 DEF Pio!pio_handler_process, Pio!Enter, Pio!Search, Pio!ReturnFromIrq, Pio!main
  <2>2. i' <= MAX_INTERRUPT_SOURCES
    BY <1>7, PioProper DEF Pio!pio_handler_process, Pio!Enter, Pio!Search, Pio!ReturnFromIrq,
         PioTyped, PioDistinct, Pio!PioAssumption
  <2>3. status' \subseteq Pins
    BY <1>7 DEF Pio!pio_handler_process, Pio!Enter, Pio!Search, Pio!ReturnFromIrq,
         PioTyped, PioDistinct
  <2> QED
    BY <2>1, <2>2, <2>3 DEF PioDistinct, Pio!IsFor
<1>8. CASE UNCHANGED Pio!vars
  BY <1>8 DEF Pio!vars, Pio!main, PioDistinct, Pio!IsFor
<1> QED
  BY <1>1, <1>2, <1>3, <1>4, <1>5, <1>6, <1>7, <1>8 DEF Pio!Next

\* The types; each pin of a controller and mask is the business of one source.
THEOREM TableTyped == Pio!Spec => []Pio!TypeOK
<1>1. Pio!Init => PioDistinct
  BY PioProper DEF Pio!PioAssumption, Pio!Init, PioDistinct, Pio!IsFor, Pio!Table
<1>2. PioInv /\ PioDistinct => Pio!TypeOK
  <2> SUFFICES ASSUME PioInv, PioDistinct PROVE Pio!TypeOK
    OBVIOUS
  <2>1. number \in 0..MAX_INTERRUPT_SOURCES /\ i \in 0..MAX_INTERRUPT_SOURCES
    BY PioProper DEF PioInv, PioTyped, PioDistinct, Pio!PioAssumption
  <2> QED
    BY <2>1 DEF PioInv, PioTyped, PioDistinct, Pio!TypeOK
<1> QED
  BY <1>1, <1>2, PioInvariance, DistinctStep, PTL DEF Pio!Spec

\* The interrupt never calls a source whose handler is not written yet, although it
\* searches the whole table and may find one that is half written.
THEOREM HandlersWritten ==
  Pio!Spec => []Pio!NoNullCall
<1>1. PioInv => Pio!NoNullCall
  <2> SUFFICES ASSUME PioInv, irq # "none", status # {}, i \in Pio!Table, Pio!Matches
               PROVE  source[i].handler
    BY DEF Pio!NoNullCall
  <2>1. PICK p \in status : TRUE
    OBVIOUS
  <2>2. i < number
    BY <2>1 DEF PioInv, PinsAhead, PioTyped, Pio!Table
  <2> QED
    BY <2>2 DEF PioInv, PioWritten
<1> QED
  BY <1>1, PioInvariance, PTL

\* Every event that the interrupt takes from a controller reaches a handler before it
\* returns, whatever sources share the pins and whichever one is being written.
THEOREM EventsHandled ==
  Pio!Spec => []Pio!EventsReachHandlers
<1>1. PioInv => Pio!EventsReachHandlers
  <2> SUFFICES ASSUME PioInv, status # {}, i = MAX_INTERRUPT_SOURCES PROVE FALSE
    BY DEF Pio!EventsReachHandlers, PioInv, PinsAhead
  <2>1. PICK p \in status : TRUE
    OBVIOUS
  <2>2. PICK t \in Pio!Table : i <= t /\ t < number
    BY <2>1 DEF PioInv, PinsAhead
  <2> QED
    BY <2>2 DEF PioInv, PioTyped, Pio!Table
<1> QED
  BY <1>1, PioInvariance, PTL

-----------------------------------------------------------------------------
(* The clock, in 24-hour mode and for calls that take less than a minute.  *)

AnyDate  == [y: Nat, m: Nat, d: Nat]
Instants == [date: AnyDate, time: Clock!Times]

RtcTyped ==
  /\ now \in Instants /\ old \in Instants /\ rArg \in Instants /\ during \subseteq Instants
  /\ settling \in {TRUE, FALSE} /\ ticks \in Nat /\ ticks <= MaxTicks
  /\ rPc \in {"idle", "timr", "timr2", "time", "calr", "calr2", "date", "sec", "ack", "write", "go"}
  /\ op \in {"none", "get_time", "get_date", "fattime", "set_time", "set_date"}
  /\ op = "none" => rPc = "idle"
  /\ rPc \in {"timr", "timr2", "time"} => op \in {"get_time", "fattime"}
  /\ rPc \in {"calr", "calr2", "date"} => op \in {"get_date", "fattime"}
  /\ rPc \in {"sec", "ack", "write", "go"} => op \in {"set_time", "set_date"}

\* Which instants a mixture can be of, and which have been shown since the call began.
Around ==
  /\ settling = TRUE => now = Clock!NextInstant(old) /\ ticks > 0
  /\ op # "none" => now \in during
  /\ rPc \in {"timr2", "calr2"} /\ settling = TRUE => old \in during

ShownTime(r) == \E n \in during : r = Clock!Timr(n.time)
ShownDate(r) == \E n \in during : r = Clock!Calr(n.date)

\* After the first read of RTC_TIMR: it is right, or it does not look like one of the
\* seconds around a full minute, or such a minute is over and the next one too far away.
FirstTime ==
  \/ ShownTime(rReg)
  \/ rReg.sec \notin {Clock!Bcd(59), Clock!Bcd(0)}
  \/ now.time.s <= ticks /\ (settling = TRUE => now.time.s > 0)

\* After the first read of RTC_CALR: it is right, or midnight is just over.
FirstDate ==
  \/ ShownDate(rReg)
  \/ /\ now.time.h = 0 /\ now.time.m = 0 /\ now.time.s <= ticks
     /\ settling = TRUE => now.time.s > 0

Reading ==
  /\ rPc = "timr2" => FirstTime
  /\ rPc = "time"  => ShownTime(rReg)
  /\ rPc = "calr2" => FirstDate
  /\ rPc = "date"  => ShownDate(rReg)
  /\ op \in {"get_time", "fattime"} /\ rPc \in {"idle", "calr", "calr2", "date"} =>
       \E n \in during : n.time = time
  /\ op \in {"get_date", "fattime"} /\ rPc = "idle" => \E n \in during : n.date = date

\* The value that was written stays until the call returns.
SettingWritten ==
  /\ op = "set_time" => now.time = rArg.time
  /\ op = "set_date" => now.date = rArg.date

Setting ==
  /\ rPc \in {"ack", "write", "go"} => UPD = op
  /\ rPc = "go" /\ rRet = 0 => SettingWritten
  /\ rPc = "idle" /\ rRet = 0 =>
       /\ op = "set_time" => \E n \in during : n.time = rArg.time
       /\ op = "set_date" => \E n \in during : n.date = rArg.date

RtcInv == RtcTyped /\ Around /\ Reading /\ Setting

-----------------------------------------------------------------------------
\* What is coded as BCD is decoded to what it was.
LEMMA BcdBack == \A n \in Nat : Clock!FromBcd(Clock!Bcd(n)) = n
BY DEF Clock!FromBcd, Clock!Bcd

LEMMA BcdOne == \A m, n \in Nat : Clock!Bcd(m) = Clock!Bcd(n) => m = n
BY DEF Clock!Bcd

LEMMA BcdDigits ==
  ASSUME NEW a \in Nat, NEW b \in Nat, b < 10
  PROVE  Clock!FromBcd(16 * a + b) = 10 * a + b
BY DEF Clock!FromBcd

\* The digits of a year, and its century and the year in it.
LEMMA Digits ==
  ASSUME NEW y \in Nat
  PROVE  y \div 100 \in Nat /\ y % 100 \in Nat /\ y = 100 * (y \div 100) + (y % 100)
OBVIOUS

LEMMA CenturyDigits ==
  ASSUME NEW y \in Nat
  PROVE  /\ y \div 1000 \in Nat /\ (y \div 100) % 10 \in Nat /\ (y \div 100) % 10 < 10
         /\ 10 * (y \div 1000) + ((y \div 100) % 10) = y \div 100
OBVIOUS

LEMMA DateBack ==
  ASSUME NEW d \in AnyDate
  PROVE  Clock!DecodeDate(Clock!Calr(d)) = d
<1> DEFINE r == Clock!Calr(d)
<1>1. /\ Clock!FromBcd(r.cent) = d.y \div 100 /\ Clock!FromBcd(r.year) = d.y % 100
      /\ Clock!FromBcd(r.month) = d.m /\ Clock!FromBcd(r.date) = d.d
  BY BcdBack, Digits DEF Clock!Calr, AnyDate
<1>2. 100 * (d.y \div 100) + (d.y % 100) = d.y
  BY Digits DEF AnyDate
<1> QED
  BY <1>1, <1>2 DEF Clock!DecodeDate, AnyDate

\* rtc_set_date codes a date digit by digit.
LEMMA DateEncoded ==
  ASSUME NEW d \in AnyDate
  PROVE  Clock!DecodeDate(Clock!EncodeDate(d)) = d
<1> DEFINE r == Clock!EncodeDate(d)
<1>1. PICK y \in Nat : y = d.y
  BY DEF AnyDate
<1>2. Clock!FromBcd(r.cent) = y \div 100
  <2>1. Clock!FromBcd(16 * (y \div 1000) + ((y \div 100) % 10))
          = 10 * (y \div 1000) + ((y \div 100) % 10)
    BY BcdDigits, CenturyDigits
  <2> QED
    BY <1>1, <2>1, CenturyDigits DEF Clock!EncodeDate
<1>3. Clock!FromBcd(r.year) = y % 100
  <2>1. /\ (y \div 10) % 10 \in Nat /\ y % 10 \in Nat /\ y % 10 < 10
        /\ 10 * ((y \div 10) % 10) + (y % 10) = y % 100
    OBVIOUS
  <2>2. Clock!FromBcd(16 * ((y \div 10) % 10) + (y % 10)) = 10 * ((y \div 10) % 10) + (y % 10)
    BY <2>1, BcdDigits
  <2> QED
    BY <1>1, <2>1, <2>2 DEF Clock!EncodeDate
<1>4. Clock!FromBcd(r.month) = d.m /\ Clock!FromBcd(r.date) = d.d
  BY BcdBack DEF Clock!EncodeDate, AnyDate
<1>5. 100 * (y \div 100) + (y % 100) = y
  BY Digits
<1> QED
  BY <1>1, <1>2, <1>3, <1>4, <1>5 DEF Clock!DecodeDate, AnyDate

LEMMA TimeBack ==
  ASSUME HRMOD = 0, NEW t \in Clock!Times
  PROVE  Clock!DecodeTime(Clock!Timr(t)) = t
BY BcdBack DEF Clock!Timr, Clock!DecodeTime, Clock!Times

\* The time that is loaded is the one that was coded.
LEMMA TimeLoaded ==
  ASSUME HRMOD = 0, NEW t \in Clock!Times, NEW u \in Clock!Loads(Clock!EncodeTime(t))
  PROVE  u = t
<1>1. /\ u.h \in 0..23 /\ u.m = Clock!FromBcd(Clock!Bcd(t.m)) /\ u.s = Clock!FromBcd(Clock!Bcd(t.s))
      /\ u = [h |-> u.h, m |-> u.m, s |-> u.s] /\ Clock!Bcd(u.h) = Clock!Bcd(t.h)
  BY DEF Clock!Loads, Clock!EncodeTime, Clock!Timr
<1>2. t.h \in Nat /\ t.m \in Nat /\ t.s \in Nat /\ t = [h |-> t.h, m |-> t.m, s |-> t.s]
  BY DEF Clock!Times
<1>3. u.h \in Nat
  BY <1>1
<1>4. u.h = t.h /\ u.m = t.m /\ u.s = t.s
  BY <1>1, <1>2, <1>3, BcdBack, BcdOne
<1> QED
  BY <1>1, <1>2, <1>4

\* A mixture of two times in the same minute is one of them.
LEMMA SecondsOnly ==
  ASSUME HRMOD = 0, NEW t \in Clock!Times, NEW u \in Clock!Times, t.h = u.h, t.m = u.m,
         NEW r \in Clock!Mixed(Clock!Timr(t), Clock!Timr(u))
  PROVE  r = Clock!Timr(t) \/ r = Clock!Timr(u)
<1> DEFINE fields == {"hour", "ampm", "min", "sec"}
           a == Clock!Timr(t)
           b == Clock!Timr(u)
<1>1. /\ DOMAIN a = fields /\ a = [f \in fields |-> a[f]] /\ b = [f \in fields |-> b[f]]
      /\ a["hour"] = b["hour"] /\ a["ampm"] = b["ampm"] /\ a["min"] = b["min"]
  BY DEF Clock!Timr
<1>2. /\ \A f \in fields : r[f] \in {a[f], b[f]}
      /\ r = [f \in fields |-> r[f]]
  BY <1>1 DEF Clock!Mixed
<1> HIDE DEF a, b
<1>3. CASE r["sec"] = a["sec"]
  <2>1. \A f \in fields : r[f] = a[f]
    BY <1>1, <1>2, <1>3
  <2> QED
    BY <1>1, <1>2, <2>1 DEF a
<1>4. CASE r["sec"] = b["sec"]
  <2>1. \A f \in fields : r[f] = b[f]
    BY <1>1, <1>2, <1>4
  <2> QED
    BY <1>1, <1>2, <2>1 DEF b
<1> QED
  BY <1>2, <1>3, <1>4

\* The assumptions on the constants.
LEMMA RtcProper ==
  /\ MaxTicks \in Nat
  /\ \A n \in Starts : n \in Instants
  /\ \A n \in Settings : n \in Instants
<1>1. Clock!Dates \subseteq AnyDate
  <2> SUFFICES ASSUME NEW d \in Clock!Dates PROVE d \in AnyDate
    OBVIOUS
  <2>1. d.y \in Nat /\ d.m \in Nat /\ d.d \in Nat /\ d = [y |-> d.y, m |-> d.m, d |-> d.d]
    BY DEF Clock!Dates
  <2> QED
    BY <2>1 DEF AnyDate
<1>2. MaxTicks \in Nat
  BY ServicesAssumption DEF ServicesAssumption, Clock!RtcAssumption
<1>3. Starts \subseteq [date: Clock!Dates, time: Clock!Times]
      /\ Settings \subseteq [date: Clock!Dates, time: Clock!Times]
  BY ServicesAssumption DEF ServicesAssumption, Clock!RtcAssumption
<1>4. [date: Clock!Dates, time: Clock!Times] \subseteq Instants
  BY <1>1 DEF Instants
<1> QED
  BY <1>2, <1>3, <1>4

\* A register whose value does not change is read as it is.
LEMMA SameRead ==
  ASSUME NEW d \in AnyDate, NEW r \in Clock!Mixed(Clock!Calr(d), Clock!Calr(d))
  PROVE  r = Clock!Calr(d)
<1> DEFINE c == Clock!Calr(d)
           fields == {"cent", "year", "month", "date"}
<1>1. c = [f \in fields |-> c[f]] /\ DOMAIN c = fields
  BY DEF Clock!Calr
<1> HIDE DEF c
<1>2. r \in [DOMAIN c -> {c[f] : f \in DOMAIN c} \cup {c[f] : f \in DOMAIN c}]
      /\ \A f \in DOMAIN c : r[f] \in {c[f], c[f]}
  BY DEF Clock!Mixed, c
<1>3. r = [f \in fields |-> r[f]] /\ \A f \in fields : r[f] = c[f]
  BY <1>1, <1>2
<1> QED
  BY <1>1, <1>3 DEF c

LEMMA SecondsRead ==
  ASSUME HRMOD = 0, NEW t \in Clock!Times, NEW u \in Clock!Times,
         NEW r \in Clock!Mixed(Clock!Timr(t), Clock!Timr(u))
  PROVE  r.sec \in {Clock!Bcd(t.s), Clock!Bcd(u.s)}
<1>1. "sec" \in DOMAIN Clock!Timr(t) /\ Clock!Timr(t)["sec"] = Clock!Bcd(t.s)
      /\ Clock!Timr(u)["sec"] = Clock!Bcd(u.s)
  BY DEF Clock!Timr
<1> QED
  BY <1>1 DEF Clock!Mixed

\* What the next second changes.
LEMMA NextSecond ==
  ASSUME NEW n \in Instants
  PROVE  LET x == Clock!NextInstant(n)
         IN  /\ x \in Instants
             /\ n.time.s < 59 => /\ x.time.h = n.time.h /\ x.time.m = n.time.m
                                 /\ x.time.s = n.time.s + 1 /\ x.date = n.date
             /\ ~(n.time.s < 59) => n.time.s = 59 /\ x.time.s = 0
             /\ x.time.s # 0 => x.date = n.date
<1> DEFINE x == Clock!NextInstant(n)
<1>1. n.time \in Clock!Times /\ n.date \in AnyDate
      /\ n.time.h \in 0..23 /\ n.time.m \in 0..59 /\ n.time.s \in 0..59
  BY DEF Instants, Clock!Times
<1>2. x.time = Clock!NextTime(n.time)
      /\ x.date = (IF n.time = [h |-> 23, m |-> 59, s |-> 59]
                   THEN Clock!NextDate(n.date) ELSE n.date)
      /\ x = [time |-> x.time, date |-> x.date]
  BY DEF Clock!NextInstant
<1>3. Clock!NextTime(n.time) \in Clock!Times
  <2>1. (n.time.h + 1) % 24 \in 0..23
    BY <1>1
  <2>2. n.time.s < 59 => n.time.s + 1 \in 0..59
    BY <1>1
  <2>3. n.time.m < 59 => n.time.m + 1 \in 0..59
    BY <1>1
  <2>4. 0 \in 0..59
    OBVIOUS
  <2> QED
    BY <1>1, <2>1, <2>2, <2>3, <2>4 DEF Clock!NextTime, Clock!Times
<1>4. Clock!NextDate(n.date) \in AnyDate
  BY <1>1 DEF Clock!NextDate, AnyDate
<1>5. x \in Instants
  BY <1>1, <1>2, <1>3, <1>4 DEF Instants
<1>6. n.time.s < 59 => n.time # [h |-> 23, m |-> 59, s |-> 59]
  BY <1>1
<1> HIDE DEF x
<1>7. n.time.s < 59 => /\ x.time.h = n.time.h /\ x.time.m = n.time.m
                       /\ x.time.s = n.time.s + 1 /\ x.date = n.date
  <2> SUFFICES ASSUME n.time.s < 59
               PROVE  /\ x.time.h = n.time.h /\ x.time.m = n.time.m
                      /\ x.time.s = n.time.s + 1 /\ x.date = n.date
    OBVIOUS
  <2>1. x.time = [n.time EXCEPT !.s = n.time.s + 1]
    BY <1>2 DEF Clock!NextTime
  <2> QED
    BY <1>1, <1>2, <1>6, <2>1 DEF Clock!Times
<1>8. ~(n.time.s < 59) => n.time.s = 59 /\ x.time.s = 0
  BY <1>1, <1>2 DEF Clock!NextTime
<1> QED
  BY <1>5, <1>6, <1>7, <1>8 DEF x
-----------------------------------------------------------------------------
LEMMA RtcInitInv == Clock!Init => RtcInv
<1> SUFFICES ASSUME Clock!Init PROVE RtcInv
  OBVIOUS
<1>1. now \in Instants /\ old = now /\ settling = FALSE /\ ticks = 0 /\ rArg = now
      /\ rPc = "idle" /\ op = "none" /\ during = {}
  BY RtcProper DEF Clock!Init
<1>2. RtcTyped
  <2>1. settling \in {TRUE, FALSE}
    BY <1>1, Zenon
  <2>2. MaxTicks \in Nat /\ ticks = 0
    BY <1>1, RtcProper
  <2>3. ticks \in Nat /\ ticks <= MaxTicks
    BY <2>2
  <2> QED
    BY <1>1, <2>1, <2>3 DEF RtcTyped
<1> QED
  BY <1>1, <1>2 DEF RtcInv, Around, Reading, Setting

\* With less than a minute of ticks, what has been read of a time stays explained.
LEMMA TickInv ==
  ASSUME HRMOD = 0, MaxTicks < 60, RtcInv, Clock!Tick PROVE RtcInv'
<1> USE DEF RtcInv
<1>1. /\ UNCHANGED <<UPD, rPc, op, rArg, rReg, time, date, rRet>>
      /\ during' = during \cup {now'}
  BY DEF Clock!Tick
<1>2. CASE UPD # "none"
  <2>1. UNCHANGED <<now, old, settling, ticks>>
    BY <1>2 DEF Clock!Tick
  <2>2. RtcTyped' /\ Around'
    BY <1>1, <2>1 DEF RtcTyped, Around
  <2>3. Reading'
    BY <1>1, <2>1 DEF Reading, FirstTime, FirstDate, ShownTime, ShownDate
  <2>4. Setting'
    BY <1>1, <2>1 DEF Setting, SettingWritten
  <2> QED
    BY <2>2, <2>3, <2>4
<1>3. CASE UPD = "none"
  <2>1. /\ ticks < MaxTicks /\ ticks' = ticks + 1 /\ now' = Clock!NextInstant(now)
        /\ old' = now /\ settling' = TRUE
    BY <1>3 DEF Clock!Tick
  <2>2. /\ now' \in Instants /\ now \in Instants
        /\ now.time.s < 59 => /\ now'.time.h = now.time.h /\ now'.time.m = now.time.m
                              /\ now'.time.s = now.time.s + 1
    BY <2>1, NextSecond DEF RtcTyped
  <2>3. ticks \in Nat /\ ticks < 59 /\ now.time.s \in Nat
    BY <2>1, RtcProper DEF RtcTyped, Instants, Clock!Times
  <2>4. RtcTyped'
    BY <1>1, <2>1, <2>2, <2>3, RtcProper DEF RtcTyped
  <2>5. Around'
    BY <1>1, <2>1, <2>3 DEF RtcTyped, Around
  <2>6. FirstTime => FirstTime'
    <3>1. ShownTime(rReg) => ShownTime(rReg)'
      BY <1>1 DEF ShownTime
    <3>2. ASSUME now.time.s <= ticks PROVE now'.time.s <= ticks' /\ now'.time.s > 0
      BY <2>1, <2>2, <2>3, <3>2
    <3> QED
      BY <1>1, <3>1, <3>2 DEF FirstTime
  <2>7. FirstDate => FirstDate'
    <3>1. ShownDate(rReg) => ShownDate(rReg)'
      BY <1>1 DEF ShownDate
    <3>2. ASSUME now.time.h = 0, now.time.m = 0, now.time.s <= ticks
          PROVE  now'.time.h = 0 /\ now'.time.m = 0 /\ now'.time.s <= ticks' /\ now'.time.s > 0
      BY <2>1, <2>2, <2>3, <3>2
    <3> QED
      BY <1>1, <3>1, <3>2 DEF FirstDate
  <2>8. Reading'
    BY <1>1, <2>6, <2>7 DEF Reading, ShownTime, ShownDate
  <2>9. Setting'
    BY <1>1, <1>3 DEF Setting, SettingWritten, RtcTyped
  <2> QED
    BY <2>4, <2>5, <2>8, <2>9
<1> QED
  BY <1>2, <1>3

LEMMA CallInv == ASSUME RtcInv, Clock!Call PROVE RtcInv'
<1> USE DEF RtcInv
<1>1. PICK o \in {"get_time", "get_date", "fattime", "set_time", "set_date"}, a \in Instants :
        Clock!Begin(o, a)
  BY RtcProper DEF Clock!Call, RtcTyped
<1>2. /\ rPc = "idle" /\ op' = o /\ rArg' = a /\ during' = {now}
      /\ rPc' = IF o \in {"set_time", "set_date"} THEN "sec"
                ELSE IF o = "get_date" THEN "calr" ELSE "timr"
      /\ UNCHANGED <<now, old, settling, SEC, ACKUPD, UPD, ticks, rReg, time, date, rRet>>
  BY <1>1 DEF Clock!Begin, Clock!clock
<1>3. RtcTyped' /\ Around' /\ Setting'
  BY <1>2 DEF RtcTyped, Around, Setting
<1>4. Reading'
  BY <1>2 DEF Reading
<1> QED
  BY <1>3, <1>4

\* The two reads of RTC_TIMR.
LEMMA TimeRead ==
  ASSUME HRMOD = 0, RtcInv,
         \/ Clock!ReadFirst("timr", "timr2", Clock!Timr(now.time), Clock!Timr(old.time))
         \/ Clock!ReadAgain("timr2", "timr", "time", Clock!Timr(now.time), Clock!Timr(old.time)),
         UNCHANGED <<now, old, SEC, ACKUPD, UPD, ticks, op, rArg, time, date, rRet, during>>
  PROVE  RtcInv'
<1> USE DEF RtcInv
<1> DEFINE new == Clock!Timr(now.time)
           before == Clock!Timr(old.time)
<1>1. now \in during /\ now.time \in Clock!Times /\ old.time \in Clock!Times
      /\ rPc \in {"timr", "timr2"} /\ op \in {"get_time", "fattime"} /\ settling' = FALSE
      /\ rPc' \in {"timr", "timr2", "time"}
  BY DEF RtcTyped, Around, Instants, Clock!ReadFirst, Clock!ReadAgain
<1>2. RtcTyped' /\ Around' /\ Setting'
  BY <1>1 DEF RtcTyped, Around, Setting
<1>3. /\ settling = FALSE \/ settling = TRUE
      /\ settling = FALSE => Clock!Read(new, before) = {new}
      /\ settling = TRUE => Clock!Read(new, before) = Clock!Mixed(new, before)
  BY DEF RtcTyped, Clock!Read
<1>4. ASSUME settling = TRUE
      PROVE  /\ now = Clock!NextInstant(old) /\ ticks > 0 /\ ticks \in Nat
             /\ old.time.s < 59 => /\ now.time.h = old.time.h /\ now.time.m = old.time.m
                                   /\ now.time.s = old.time.s + 1
             /\ ~(old.time.s < 59) => old.time.s = 59 /\ now.time.s = 0
             /\ old.time.s \in Nat
  BY <1>1, <1>4, NextSecond DEF RtcTyped, Around, Clock!Times
<1>5. CASE Clock!ReadFirst("timr", "timr2", new, before)
  <2>1. rPc' = "timr2" /\ rReg' \in Clock!Read(new, before)
    BY <1>5 DEF Clock!ReadFirst
  <2>2. FirstTime'
    <3>1. CASE rReg' = new
      BY <1>1, <3>1 DEF FirstTime, ShownTime
    <3>2. CASE settling = TRUE /\ old.time.s < 59 /\ rReg' # new
      <4>1. rReg' = before
        BY <1>1, <1>3, <1>4, <2>1, <3>2, SecondsOnly
      <4>2. rReg'.sec = Clock!Bcd(old.time.s)
        BY <4>1 DEF Clock!Timr
      <4>3. CASE old.time.s = 0
        BY <1>1, <1>4, <3>2, <4>3 DEF FirstTime
      <4>4. CASE old.time.s # 0
        <5>1. rReg'.sec \notin {Clock!Bcd(59), Clock!Bcd(0)}
          BY <1>4, <3>2, <4>2, <4>4, BcdOne
        <5> QED
          BY <5>1 DEF FirstTime
      <4> QED
        BY <4>3, <4>4
    <3>3. CASE settling = TRUE /\ ~(old.time.s < 59)
      BY <1>1, <1>4, <3>3 DEF FirstTime
    <3> QED
      BY <1>3, <2>1, <3>1, <3>2, <3>3
  <2>3. Reading'
    BY <1>1, <2>1, <2>2 DEF Reading
  <2> QED
    BY <1>2, <2>3
<1>6. CASE Clock!ReadAgain("timr2", "timr", "time", new, before)
  <2>1. PICK r \in Clock!Read(new, before) : rPc' = IF r = rReg THEN "time" ELSE "timr"
    BY <1>6 DEF Clock!ReadAgain
  <2>2. rReg' = rReg /\ FirstTime
    BY <1>6 DEF Clock!ReadAgain, Reading
  <2>3. ASSUME r = rReg PROVE ShownTime(rReg)
    <3>1. CASE r = new
      BY <1>1, <2>3, <3>1 DEF ShownTime
    <3>2. CASE settling = TRUE /\ old.time.s < 59 /\ r # new
      <4>1. rReg = before
        BY <1>1, <1>3, <1>4, <2>1, <2>3, <3>2, SecondsOnly
      <4>2. old \in during
        BY <1>6, <3>2 DEF Around, Clock!ReadAgain
      <4> QED
        BY <4>1, <4>2 DEF ShownTime
    <3>3. CASE settling = TRUE /\ ~(old.time.s < 59)
      <4>1. old.time.s = 59 /\ now.time.s = 0
        BY <1>4, <3>3
      <4>2. rReg.sec \in {Clock!Bcd(59), Clock!Bcd(0)}
        BY <1>1, <1>3, <2>1, <2>3, <3>3, <4>1, SecondsRead
      <4> QED
        BY <2>2, <3>3, <4>1, <4>2 DEF FirstTime
    <3> QED
      BY <1>3, <2>1, <3>1, <3>2, <3>3
  <2>4. Reading'
    BY <1>1, <2>1, <2>2, <2>3 DEF Reading, ShownTime
  <2> QED
    BY <1>2, <2>4
<1> QED
  BY <1>5, <1>6

\* The two reads of RTC_CALR: it changes at midnight only.
LEMMA DateRead ==
  ASSUME RtcInv,
         \/ Clock!ReadFirst("calr", "calr2", Clock!Calr(now.date), Clock!Calr(old.date))
         \/ Clock!ReadAgain("calr2", "calr", "date", Clock!Calr(now.date), Clock!Calr(old.date)),
         UNCHANGED <<now, old, SEC, ACKUPD, UPD, ticks, op, rArg, time, date, rRet, during>>
  PROVE  RtcInv'
<1> USE DEF RtcInv
<1> DEFINE new == Clock!Calr(now.date)
           before == Clock!Calr(old.date)
<1>1. now \in during /\ now.date \in AnyDate /\ now.time.s \in Nat
      /\ rPc \in {"calr", "calr2"} /\ op \in {"get_date", "fattime"} /\ settling' = FALSE
      /\ rPc' \in {"calr", "calr2", "date"}
  BY DEF RtcTyped, Around, Instants, Clock!Times, Clock!ReadFirst, Clock!ReadAgain
<1>2. RtcTyped' /\ Around' /\ Setting'
  BY <1>1 DEF RtcTyped, Around, Setting
<1>3. ASSUME settling = FALSE \/ now.time.s > 0, NEW r \in Clock!Read(new, before) PROVE r = new
  <2>1. CASE settling = FALSE
    BY <1>3, <2>1 DEF Clock!Read
  <2>2. CASE settling = TRUE
    <3>1. now.date = old.date
      BY <1>1, <1>3, <2>2, NextSecond DEF RtcTyped, Around
    <3> QED
      BY <1>1, <1>3, <2>2, <3>1, SameRead DEF Clock!Read
  <2> QED
    BY <2>1, <2>2 DEF RtcTyped
<1>4. ASSUME settling = TRUE, ~(now.time.s > 0), new # before
      PROVE  now.time.h = 0 /\ now.time.m = 0 /\ now.time.s = 0
  <2>1. old.time = [h |-> 23, m |-> 59, s |-> 59]
    BY <1>4 DEF Around, Clock!NextInstant
  <2>2. now.time = Clock!NextTime(old.time)
    BY <1>4 DEF Around, Clock!NextInstant
  <2> QED
    BY <2>1, <2>2 DEF Clock!NextTime
<1>5. CASE Clock!ReadFirst("calr", "calr2", new, before)
  <2>1. rPc' = "calr2" /\ rReg' \in Clock!Read(new, before)
    BY <1>5 DEF Clock!ReadFirst
  <2>2. FirstDate'
    <3>1. CASE rReg' = new
      BY <1>1, <3>1 DEF FirstDate, ShownDate
    <3>2. CASE settling = TRUE /\ ~(now.time.s > 0) /\ new # before
      BY <1>1, <1>4, <3>2 DEF FirstDate, RtcTyped
    <3>3. CASE settling = TRUE /\ new = before
      BY <1>1, <2>1, <3>1, <3>3, SameRead DEF Clock!Read
    <3> QED
      BY <1>3, <2>1, <3>1, <3>2, <3>3 DEF RtcTyped
  <2>3. Reading'
    BY <1>1, <2>1, <2>2 DEF Reading
  <2> QED
    BY <1>2, <2>3
<1>6. CASE Clock!ReadAgain("calr2", "calr", "date", new, before)
  <2>1. PICK r \in Clock!Read(new, before) : rPc' = IF r = rReg THEN "date" ELSE "calr"
    BY <1>6 DEF Clock!ReadAgain
  <2>2. rReg' = rReg /\ FirstDate /\ rPc = "calr2"
    BY <1>6 DEF Clock!ReadAgain, Reading
  <2>3. ASSUME r = rReg PROVE ShownDate(rReg)
    <3>1. CASE settling = FALSE \/ now.time.s > 0
      BY <1>1, <1>3, <2>1, <2>3, <3>1 DEF ShownDate
    <3>2. CASE settling = TRUE /\ ~(now.time.s > 0)
      BY <2>2, <3>2 DEF FirstDate
    <3> QED
      BY <3>1, <3>2 DEF RtcTyped
  <2>4. Reading'
    BY <1>1, <2>1, <2>2, <2>3 DEF Reading, ShownDate
  <2> QED
    BY <1>2, <2>4
<1> QED
  BY <1>5, <1>6

\* A register value that was shown decodes to the time or date that was shown.
LEMMA DecodeInv == ASSUME HRMOD = 0, RtcInv, Clock!Decode PROVE RtcInv'
<1> USE DEF RtcInv
<1>1. /\ UNCHANGED <<now, old, settling, SEC, ACKUPD, UPD, ticks, op, rArg, rRet, during>>
      /\ rPc \in {"time", "date"}
  BY DEF Clock!Decode, Clock!clock
<1>2. CASE rPc = "time"
  <2>1. /\ time' = Clock!DecodeTime(rReg) /\ date' = date /\ op \in {"get_time", "fattime"}
        /\ rPc' = IF op = "fattime" THEN "calr" ELSE "idle"
    BY <1>2 DEF Clock!Decode, RtcTyped
  <2>2. PICK n \in during : rReg = Clock!Timr(n.time)
    BY <1>2 DEF Reading, ShownTime
  <2>3. \E k \in during : k.time = time'
    BY <2>1, <2>2, TimeBack DEF RtcTyped, Instants
  <2>4. RtcTyped' /\ Around' /\ Setting'
    BY <1>1, <2>1 DEF RtcTyped, Around, Setting
  <2>5. Reading'
    BY <1>1, <2>1, <2>3 DEF Reading
  <2> QED
    BY <2>4, <2>5
<1>3. CASE rPc = "date"
  <2>1. /\ date' = Clock!DecodeDate(rReg) /\ time' = time /\ op \in {"get_date", "fattime"}
        /\ rPc' = "idle"
    BY <1>3 DEF Clock!Decode, RtcTyped
  <2>2. PICK n \in during : rReg = Clock!Calr(n.date)
    BY <1>3 DEF Reading, ShownDate
  <2>3. \E k \in during : k.date = date'
    BY <2>1, <2>2, DateBack DEF RtcTyped, Instants
  <2>4. RtcTyped' /\ Around' /\ Setting'
    BY <1>1, <2>1 DEF RtcTyped, Around, Setting
  <2>5. Reading'
    BY <1>1, <1>3, <2>1, <2>3 DEF Reading
  <2> QED
    BY <2>4, <2>5
<1> QED
  BY <1>1, <1>2, <1>3

LEMMA UpdateInv == ASSUME HRMOD = 0, RtcInv, Clock!Update PROVE RtcInv'
<1> USE DEF RtcInv
<1>1. /\ UNCHANGED <<ticks, op, rArg, rReg, time, date>> /\ during' = {now'}
      /\ settling' = (settling /\ rPc = "sec") /\ old' = IF settling' THEN old ELSE now'
      /\ rPc \in {"sec", "ack", "write", "go"} /\ op \in {"set_time", "set_date"}
      /\ rPc' \in {"ack", "write", "go", "idle"}
  BY DEF Clock!Update, RtcTyped
<1>2. now' \in Instants /\ (rPc # "write" => now' = now)
      /\ (rPc = "write" /\ rRet' = 0 => SettingWritten')
  <2>1. CASE rPc # "write"
    BY <2>1 DEF Clock!Update, RtcTyped
  <2>2. CASE rPc = "write" /\ op = "set_date"
    <3>1. now' = [now EXCEPT !.date = Clock!DecodeDate(Clock!EncodeDate(rArg.date))]
      BY <2>2 DEF Clock!Update
    <3>2. now' = [now EXCEPT !.date = rArg.date] /\ rArg.date \in AnyDate
      BY <3>1, DateEncoded DEF RtcTyped, Instants
    <3> QED
      BY <1>1, <2>2, <3>2 DEF RtcTyped, Instants, SettingWritten
  <2>3. CASE rPc = "write" /\ op = "set_time"
    <3>1. \/ now' = now /\ rRet' = 1
          \/ \E t \in Clock!Loads(Clock!EncodeTime(rArg.time)) : now' = [now EXCEPT !.time = t]
      BY <2>3 DEF Clock!Update
    <3>2. \/ now' = now /\ rRet' = 1
          \/ now' = [now EXCEPT !.time = rArg.time]
      BY <3>1, TimeLoaded DEF RtcTyped, Instants
    <3> QED
      BY <1>1, <2>3, <3>2 DEF RtcTyped, Instants, SettingWritten
  <2> QED
    BY <1>1, <2>1, <2>2, <2>3
<1>3. /\ settling' \in {TRUE, FALSE} /\ old' \in Instants
      /\ settling' = TRUE => settling = TRUE /\ old' = old /\ now' = now
  <2>1. CASE settling = TRUE /\ rPc = "sec"
    BY <1>1, <1>2, <2>1 DEF RtcTyped
  <2>2. CASE ~(settling = TRUE /\ rPc = "sec")
    <3>1. settling' = FALSE
      BY <1>1, <2>2 DEF RtcTyped
    <3> QED
      BY <1>1, <1>2, <3>1
  <2> QED
    BY <2>1, <2>2
<1>4. RtcTyped' /\ Around'
  BY <1>1, <1>2, <1>3 DEF RtcTyped, Around
<1>5. Reading'
  BY <1>1 DEF Reading
<1>6. Setting'
  <2>1. rPc' \in {"ack", "write", "go"} => UPD' = op'
    BY <1>1 DEF Clock!Update, Setting
  <2>2. rPc' = "go" => rPc = "write"
    BY DEF Clock!Update
  <2>3. rPc' = "idle" => rPc = "go" /\ rRet' = rRet /\ now' = now
    BY DEF Clock!Update
  <2>4. rPc' = "idle" /\ rRet' = 0 => SettingWritten
    BY <2>3 DEF Setting
  <2> QED
    BY <1>1, <1>2, <2>1, <2>2, <2>3, <2>4 DEF Setting, SettingWritten
<1> QED
  BY <1>4, <1>5, <1>6

LEMMA RtcInvariance ==
  ASSUME HRMOD = 0, MaxTicks < 60
  PROVE  Clock!Spec => []RtcInv
<1>1. RtcInv /\ [Clock!Next]_(Clock!vars) => RtcInv'
  <2> SUFFICES ASSUME RtcInv, [Clock!Next]_(Clock!vars) PROVE RtcInv'
    OBVIOUS
  <2>1. CASE Clock!Tick \/ Clock!Call \/ Clock!Decode \/ Clock!Update
    BY <2>1, TickInv, CallInv, DecodeInv, UpdateInv
  <2>2. CASE Clock!ReadRegisters
    BY <2>2, TimeRead, DateRead DEF Clock!ReadRegisters
  <2>3. CASE UNCHANGED Clock!vars
    <3>1. UNCHANGED <<now, old, settling, UPD, ticks, rPc, op, rArg, rReg, time, date, rRet,
                      during>>
      BY <2>3 DEF Clock!vars, Clock!clock
    <3>2. RtcTyped' /\ Around' /\ Setting'
      BY <3>1 DEF RtcInv, RtcTyped, Around, Setting, SettingWritten
    <3>3. Reading'
      BY <3>1 DEF RtcInv, Reading, FirstTime, FirstDate, ShownTime, ShownDate
    <3> QED
      BY <3>2, <3>3 DEF RtcInv
  <2> QED
    BY <2>1, <2>2, <2>3 DEF Clock!Next, Clock!Driver
<1> QED
  BY <1>1, RtcInitInv, PTL DEF Clock!Spec

\* Every time and date that is read, and the one that was set, are right, however the
\* clock ticks and its registers settle during a call that takes less than a minute.
\* (A minute after a read of a settling register the same mixture may come again; and in
\* 12-hour mode, which nothing sets, noon and midnight are read wrong.)
THEOREM ClockAlwaysRight ==
  ASSUME HRMOD = 0, MaxTicks < 60
  PROVE  Clock!Spec => [](Clock!ReadsAreReal /\ Clock!SettingTakes)
<1>1. RtcInv => Clock!ReadsAreReal /\ Clock!SettingTakes
  BY DEF RtcInv, RtcTyped, Reading, Setting, Clock!ReadsAreReal, Clock!SettingTakes
<1> QED
  BY <1>1, RtcInvariance, PTL

\* The calendar of RTC_CALR ends with 2099; a year can only begin with a tick.
InCentury == \A n \in Starts \cup Settings : n.date.y + MaxTicks <= 2099

DatesInCentury ==
  /\ \A n \in during \cup {now, rArg} : n.date \in Clock!Dates
  /\ now.date.y + MaxTicks <= 2099 + ticks
  /\ rArg.date.y + MaxTicks <= 2099
  /\ date \in Clock!Dates /\ time \in Clock!Times

LEMMA NextYear ==
  ASSUME NEW d \in Clock!Dates, d.y < 2099
  PROVE  Clock!NextDate(d) \in Clock!Dates /\ Clock!NextDate(d).y <= d.y + 1
<1>1. d.y \in Nat /\ d.y >= 1900 /\ d.m \in 1..12 /\ d.d \in 1..31
  BY DEF Clock!Dates
<1>2. Clock!Days(d.y, d.m) \in 28..31
  BY DEF Clock!Days
<1>3. CASE d.d < Clock!Days(d.y, d.m)
  <2>1. Clock!NextDate(d) = [d EXCEPT !.d = d.d + 1]
    BY <1>3 DEF Clock!NextDate
  <2>2. d.d + 1 \in 1..31
    BY <1>1, <1>2, <1>3
  <2> QED
    BY <1>1, <2>1, <2>2 DEF Clock!Dates
<1>4. CASE ~(d.d < Clock!Days(d.y, d.m)) /\ d.m < 12
  <2>1. Clock!NextDate(d) = [y |-> d.y, m |-> d.m + 1, d |-> 1]
    BY <1>4 DEF Clock!NextDate
  <2>2. d.m + 1 \in 1..12 /\ d.y \in 1900..2099
    BY <1>1, <1>4
  <2> QED
    BY <1>1, <2>1, <2>2 DEF Clock!Dates
<1>5. CASE ~(d.d < Clock!Days(d.y, d.m)) /\ ~(d.m < 12)
  <2>1. Clock!NextDate(d) = [y |-> d.y + 1, m |-> 1, d |-> 1]
    BY <1>5 DEF Clock!NextDate
  <2>2. d.y + 1 \in 1900..2099
    BY <1>1
  <2> QED
    BY <1>1, <2>1, <2>2 DEF Clock!Dates
<1> QED
  BY <1>3, <1>4, <1>5

LEMMA CenturyStep ==
  ASSUME HRMOD = 0, InCentury, RtcInv, RtcInv', DatesInCentury, [Clock!Next]_(Clock!vars)
  PROVE  DatesInCentury'
<1>0. now.date \in Clock!Dates /\ rArg.date \in Clock!Dates /\ now.date.y \in Nat
      /\ rArg.date.y \in Nat /\ MaxTicks \in Nat /\ ticks \in Nat
  BY RtcProper DEF RtcInv, RtcTyped, Instants, AnyDate, DatesInCentury
<1>1. CASE Clock!Tick
  <2>1. UNCHANGED <<rArg, date, time>> /\ during' = during \cup {now'}
    BY <1>1 DEF Clock!Tick
  <2>2. CASE now' = now /\ ticks' = ticks
    BY <2>1, <2>2 DEF DatesInCentury
  <2>3. CASE now' = Clock!NextInstant(now) /\ ticks' = ticks + 1 /\ ticks < MaxTicks
    <3>1. now'.date = now.date \/ now'.date = Clock!NextDate(now.date)
      BY <2>3 DEF Clock!NextInstant
    <3>2. now.date.y < 2099
      BY <1>0, <2>3 DEF DatesInCentury
    <3>3. now'.date \in Clock!Dates /\ now'.date.y <= now.date.y + 1
      BY <1>0, <3>1, <3>2, NextYear
    <3>4. now'.date.y \in Nat
      BY <3>3 DEF Clock!Dates
    <3>5. now'.date.y + MaxTicks <= 2099 + ticks'
      BY <1>0, <2>3, <3>3, <3>4 DEF DatesInCentury
    <3> QED
      BY <2>1, <3>3, <3>5 DEF DatesInCentury
  <2> QED
    BY <1>1, <2>2, <2>3 DEF Clock!Tick
<1>2. CASE Clock!Call
  <2>1. PICK o \in {"get_time", "get_date", "fattime", "set_time", "set_date"},
             a \in Settings \cup {rArg} : Clock!Begin(o, a)
    BY <1>2 DEF Clock!Call
  <2>2. UNCHANGED <<now, ticks, date, time>> /\ during' = {now} /\ rArg' = a
    BY <2>1 DEF Clock!Begin, Clock!clock
  <2>3. a.date \in Clock!Dates /\ a.date.y + MaxTicks <= 2099
    <3>1. CASE a = rArg
      BY <3>1 DEF DatesInCentury
    <3>2. CASE a \in Settings
      BY <3>2, ServicesAssumption DEF ServicesAssumption, Clock!RtcAssumption, InCentury
    <3> QED
      BY <3>1, <3>2
  <2> QED
    BY <2>2, <2>3 DEF DatesInCentury
<1>3. CASE Clock!ReadRegisters
  BY <1>3 DEF Clock!ReadRegisters, DatesInCentury
<1>4. CASE Clock!Decode
  <2>1. UNCHANGED <<now, ticks, rArg, during>>
    BY <1>4 DEF Clock!Decode, Clock!clock
  <2>2. CASE rPc = "time"
    <3>1. time' = Clock!DecodeTime(rReg) /\ date' = date
      BY <1>4, <2>2 DEF Clock!Decode
    <3>2. PICK n \in during : rReg = Clock!Timr(n.time)
      BY <2>2 DEF RtcInv, Reading, ShownTime
    <3>3. n.time \in Clock!Times
      BY DEF RtcInv, RtcTyped, Instants
    <3> QED
      BY <2>1, <3>1, <3>2, <3>3, TimeBack DEF DatesInCentury
  <2>3. CASE rPc = "date"
    <3>1. date' = Clock!DecodeDate(rReg) /\ time' = time
      BY <1>4, <2>3 DEF Clock!Decode
    <3>2. PICK n \in during : rReg = Clock!Calr(n.date)
      BY <2>3 DEF RtcInv, Reading, ShownDate
    <3>3. n.date \in AnyDate
      BY DEF RtcInv, RtcTyped, Instants
    <3>4. date' \in Clock!Dates
      BY <3>1, <3>2, <3>3, DateBack DEF DatesInCentury
    <3> QED
      BY <2>1, <3>1, <3>4 DEF DatesInCentury
  <2> QED
    BY <1>4, <2>2, <2>3 DEF Clock!Decode
<1>5. CASE Clock!Update
  <2>1. UNCHANGED <<ticks, rArg, date, time>> /\ during' = {now'}
    BY <1>5 DEF Clock!Update
  <2>2. now'.date = now.date \/ now'.date = rArg.date
    <3>1. Clock!DecodeDate(Clock!EncodeDate(rArg.date)) = rArg.date
      BY DateEncoded DEF RtcInv, RtcTyped, Instants
    <3>2. \/ now' = now
          \/ now' = [now EXCEPT !.date = rArg.date]
          \/ \E t : now' = [now EXCEPT !.time = t]
      BY <1>5, <3>1 DEF Clock!Update
    <3> QED
      BY <3>2 DEF RtcInv, RtcTyped, Instants
  <2>3. now'.date \in Clock!Dates /\ now'.date.y + MaxTicks <= 2099 + ticks
    BY <1>0, <2>2 DEF DatesInCentury
  <2> QED
    BY <2>1, <2>3 DEF DatesInCentury
<1>6. CASE UNCHANGED Clock!vars
  BY <1>6 DEF Clock!vars, Clock!clock, DatesInCentury
<1> QED
  BY <1>1, <1>2, <1>3, <1>4, <1>5, <1>6 DEF Clock!Next, Clock!Driver

\* The flags and results the invariant does not need.
FlagsTyped ==
  /\ {settling, SEC, ACKUPD} \subseteq BOOLEAN /\ rRet \in {0, 1}
  /\ UPD \in {"none", "set_time", "set_date"}

\* The types of the clock, for one that does not come to the year 2100.
THEOREM ClockTyped ==
  ASSUME HRMOD = 0, MaxTicks < 60, InCentury
  PROVE  Clock!Spec => []Clock!TypeOK
<1>1. Clock!Init => DatesInCentury /\ FlagsTyped
  <2> SUFFICES ASSUME Clock!Init PROVE DatesInCentury /\ FlagsTyped
    OBVIOUS
  <2>1. /\ now \in Starts /\ rArg = now /\ ticks = 0 /\ date = now.date /\ during = {}
        /\ now.date \in Clock!Dates /\ now.date.y + MaxTicks <= 2099
    BY ServicesAssumption DEF Clock!Init, ServicesAssumption, Clock!RtcAssumption, InCentury
  <2>2. time \in Clock!Times
    BY DEF Clock!Init, Clock!Midnight, Clock!Times
  <2>3. now.date.y + MaxTicks <= 2099 + ticks
    BY <2>1
  <2>4. DatesInCentury
    BY <2>1, <2>2, <2>3 DEF DatesInCentury
  <2>5. FlagsTyped
    BY DEF Clock!Init, FlagsTyped
  <2> QED
    BY <2>4, <2>5
<1>2. RtcInv /\ FlagsTyped /\ [Clock!Next]_(Clock!vars) => FlagsTyped'
  <2> SUFFICES ASSUME RtcInv, FlagsTyped, [Clock!Next]_(Clock!vars) PROVE FlagsTyped'
    OBVIOUS
  <2>1. CASE Clock!Tick
    BY <2>1 DEF Clock!Tick, FlagsTyped
  <2>2. CASE Clock!Call
    BY <2>2 DEF Clock!Call, Clock!Begin, Clock!clock, FlagsTyped
  <2>3. CASE Clock!ReadRegisters
    BY <2>3 DEF Clock!ReadRegisters, Clock!ReadFirst, Clock!ReadAgain, FlagsTyped
  <2>4. CASE Clock!Decode
    BY <2>4 DEF Clock!Decode, Clock!clock, FlagsTyped
  <2>5. CASE Clock!Update
    BY <2>5 DEF Clock!Update, FlagsTyped, RtcInv, RtcTyped
  <2>6. CASE UNCHANGED Clock!vars
    BY <2>6 DEF Clock!vars, Clock!clock, FlagsTyped
  <2> QED
    BY <2>1, <2>2, <2>3, <2>4, <2>5, <2>6 DEF Clock!Next, Clock!Driver
<1>3. RtcInv /\ RtcInv' /\ DatesInCentury /\ [Clock!Next]_(Clock!vars) => DatesInCentury'
  BY CenturyStep
<1>4. RtcInv /\ DatesInCentury /\ FlagsTyped => Clock!TypeOK
  BY RtcProper DEF RtcInv, RtcTyped, DatesInCentury, FlagsTyped, Instants, Clock!TypeOK
<1> QED
  BY <1>1, <1>2, <1>3, <1>4, RtcInvariance, PTL DEF Clock!Spec

-----------------------------------------------------------------------------
(* The services together.                                                  *)

\* In every behaviour of the four each of them behaves as it does alone.
LEMMA EachService ==
  ServicesSpec => Spec /\ Sleep!Spec /\ Pio!Spec /\ Clock!Spec
<1>1. ServicesInit => Init /\ Sleep!Init /\ Pio!Init /\ Clock!Init
  BY DEF ServicesInit
<1>2. [ServicesNext]_servicesVars => [Next]_vars
  BY DEF ServicesNext, servicesVars, criticalVars
<1>3. [ServicesNext]_servicesVars => [Sleep!Next]_(Sleep!vars)
  BY DEF ServicesNext, servicesVars, sleepVars, Sleep!vars
<1>4. [ServicesNext]_servicesVars => [Pio!Next]_(Pio!vars)
  BY DEF ServicesNext, servicesVars, pioVars, Pio!vars, Pio!main
<1>5. [ServicesNext]_servicesVars => [Clock!Next]_(Clock!vars)
  BY DEF ServicesNext, servicesVars, rtcVars, Clock!vars, Clock!clock
<1> QED
  BY <1>1, <1>2, <1>3, <1>4, <1>5, PTL DEF ServicesSpec, Spec, Sleep!Spec, Pio!Spec, Clock!Spec

\* A context in a critical section is alone, and the interrupts are restored after it.
THEOREM SectionsSafe == ServicesSpec => [](Exclusion /\ StateRestored)
BY EachService, AlwaysExclusive, AlwaysRestored, PTL

\* No lock or unlock of a sleep mode is lost.
THEOREM NoLockLost == ServicesSpec => []LocksCounted
BY EachService, AlwaysCounted, PTL DEF LocksCounted

\* No pin's source is called before its handler is written.
THEOREM OnlyWrittenCalled == ServicesSpec => []NoNullCall
BY EachService, HandlersWritten, PTL DEF NoNullCall

\* Every pin event that the interrupt takes reaches a handler.
THEOREM NoEventLost == ServicesSpec => []EventsReachHandlers
BY EachService, EventsHandled, PTL DEF EventsReachHandlers

\* Times and dates are read and set right.
THEOREM ClockReadAndSet ==
  ASSUME HRMOD = 0, MaxTicks < 60
  PROVE  ServicesSpec => []ClockIsRight
BY EachService, ClockAlwaysRight, PTL DEF ClockIsRight

\* The types of the four; in particular no two sources of the pin handlers have the same
\* controller and mask.
THEOREM ServicesAlwaysTyped ==
  ASSUME HRMOD = 0, MaxTicks < 60, InCentury
  PROVE  ServicesSpec => []ServicesTypeOK
BY EachService, AlwaysTyped, SleepAlwaysTyped, TableTyped, ClockTyped, PTL DEF ServicesTypeOK
=============================================================================
