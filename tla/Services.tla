------------------------------ MODULE Services ------------------------------
(* Four services of the ASF that share no state: the critical sections,    *)
(* the sleep manager, the table of pin handlers and the real-time clock.   *)
(* Which of them runs is chosen at the start; the others stay in their     *)
(* initial states.                                                         *)
EXTENDS Critical, Integers

CONSTANTS
  SleepLevels, Max, Lockable, MaxHeld,            \* of the sleep manager
  Ids, Pins, Masks, MAX_INTERRUPT_SOURCES,        \* of the pin handlers
  HRMOD, Starts, Settings, MaxTicks               \* of the clock

VARIABLES
  service,    \* the one that runs
  locks, sMask, sActive, sPc, sMode, flags, sReg, held, switched, callback, asked,
  source, number, isr, imr, pPc, pArg, at, pRet, irq, status, i, owed,
  now, old, settling, SEC, ACKUPD, UPD, ticks, rPc, op, rArg, rReg, time, date, rRet, during

Sleep == INSTANCE SleepMgr WITH
  Levels <- SleepLevels,
  PRIMASK <- sMask, active <- sActive, pc <- sPc, mode <- sMode, reg <- sReg

Pio == INSTANCE PioHandler WITH pc <- pPc, arg <- pArg, ret <- pRet

Clock == INSTANCE Rtc WITH pc <- rPc, arg <- rArg, reg <- rReg, ret <- rRet

ASSUME ServicesAssumption ==
  Sleep!SleepAssumption /\ Pio!PioAssumption /\ Clock!RtcAssumption

criticalVars == vars
sleepVars == <<locks, sMask, sActive, sPc, sMode, flags, sReg, held, switched, callback, asked>>
pioVars   == <<source, number, isr, imr, pPc, pArg, at, pRet, irq, status, i, owed>>
rtcVars   == <<now, old, settling, SEC, ACKUPD, UPD, ticks, rPc, op, rArg, rReg, time, date,
               rRet, during>>
servicesVars == <<service, criticalVars, sleepVars, pioVars, rtcVars>>

ServicesInit ==
  /\ service \in {"critical", "sleep", "pio", "rtc"}
  /\ Init /\ Sleep!Init /\ Pio!Init /\ Clock!Init
  /\ service = "rtc" \/ (now = (CHOOSE n \in Starts : TRUE) /\ ~SEC)

ServicesNext ==
  /\ UNCHANGED service
  /\ \/ service = "critical" /\ Next /\ UNCHANGED <<sleepVars, pioVars, rtcVars>>
     \/ service = "sleep" /\ Sleep!Next /\ UNCHANGED <<criticalVars, pioVars, rtcVars>>
     \/ service = "pio" /\ Pio!Next /\ UNCHANGED <<criticalVars, sleepVars, rtcVars>>
     \/ service = "rtc" /\ Clock!Next /\ UNCHANGED <<criticalVars, sleepVars, pioVars>>

ServicesSpec == ServicesInit /\ [][ServicesNext]_servicesVars

\* Every variable of the four services has its type; in particular no two sources of the
\* pin handlers have the same controller and mask (PioHandler.TypeOK).
ServicesTypeOK == TypeOK /\ Sleep!TypeOK /\ Pio!TypeOK /\ Clock!TypeOK

\* SleepMgr.LocksCounted: no lock or unlock of a sleep mode is lost.
LocksCounted == Sleep!LocksCounted

\* SleepMgr.CallbacksCalled: every callback a handler left for the restored clocks
\* has been called.  (Violated when a handler is preempted by one that leaves its own.)
CallbacksCalled == Sleep!CallbacksCalled

\* PioHandler.NoNullCall: no source is called before its handler is written.
NoNullCall == Pio!NoNullCall

\* PioHandler.EventsReachHandlers: an event that was read has been handled.
EventsReachHandlers == Pio!EventsReachHandlers

\* Rtc.ReadsAreReal and Rtc.SettingTakes: a time or date that was read is one the clock
\* has shown, and one that was set is the one it goes on from.
ClockIsRight == Clock!ReadsAreReal /\ Clock!SettingTakes
=============================================================================
