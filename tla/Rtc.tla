-------------------------------- MODULE Rtc --------------------------------
(***************************************************************************)
(* The real-time clock driver rtc.c and get_fattime, the time stamp that   *)
(* FatFs gives a file.  The clock ticks between any two register accesses. *)
(* While it does, its register changes field by field: one read may return *)
(* a mixture of the old and the new value, the next one does not.          *)
(***************************************************************************)
EXTENDS Naturals

CONSTANTS
  HRMOD,      \* 1: 12-hour mode
  Starts,     \* the instants the clock may start at
  Settings,   \* the instants it may be set to
  MaxTicks    \* bound: how often it ticks

Times == [h: 0..23, m: 0..59, s: 0..59]
Dates == [y: 1900..2099, m: 1..12, d: 1..31]

RtcAssumption ==
  /\ HRMOD \in {0, 1} /\ MaxTicks \in Nat
  /\ Starts \subseteq [date: Dates, time: Times] /\ Settings \subseteq [date: Dates, time: Times]

VARIABLES
  now, old,   \* the instant the clock is at, and was at before the last tick
  settling,   \* may a read still return a mixture?
  SEC, ACKUPD, UPD, \* flags of RTC_SR; the update bit of RTC_CR that is set
  ticks,
  pc, op, arg, \* the running call, and what it is to set
  reg, time, date, \* the register value being compared; what has been read
  ret,        \* the result of a setting call; 0 for OK
  during      \* history: the instants since the call began

clock == <<now, old, settling, SEC, ACKUPD, UPD, ticks>>
vars  == <<clock, pc, op, arg, reg, time, date, ret, during>>

-----------------------------------------------------------------------------
(* The hardware.                                                           *)

Bcd(n)     == 16 * (n \div 10) + (n % 10)
FromBcd(b) == 10 * (b \div 16) + (b % 16)

\* RTC_TIMR: 12 AM is midnight and 12 PM noon in 12-hour mode.
Timr(t) ==
  [hour |-> Bcd(IF HRMOD = 0 THEN t.h ELSE IF t.h % 12 = 0 THEN 12 ELSE t.h % 12),
   ampm |-> IF HRMOD = 1 /\ t.h >= 12 THEN 1 ELSE 0, min |-> Bcd(t.m), sec |-> Bcd(t.s)]
Calr(d) == [cent |-> Bcd(d.y \div 100), year |-> Bcd(d.y % 100), month |-> Bcd(d.m), date |-> Bcd(d.d)]

\* A time that is written is checked: with an invalid digit nothing is loaded.
Loads(r) == {t \in [h: 0..23, m: {FromBcd(r.min)}, s: {FromBcd(r.sec)}] : Timr(t) = r}

Leap(y) == y % 4 = 0 /\ (y % 100 # 0 \/ y % 400 = 0)
Days(y, m) == IF m \in {4, 6, 9, 11} THEN 30 ELSE IF m # 2 THEN 31 ELSE IF Leap(y) THEN 29 ELSE 28

NextTime(t) ==
  IF t.s < 59 THEN [t EXCEPT !.s = @ + 1]
  ELSE IF t.m < 59 THEN [h |-> t.h, m |-> t.m + 1, s |-> 0]
  ELSE [h |-> (t.h + 1) % 24, m |-> 0, s |-> 0]
NextDate(d) ==
  IF d.d < Days(d.y, d.m) THEN [d EXCEPT !.d = @ + 1]
  ELSE IF d.m < 12 THEN [y |-> d.y, m |-> d.m + 1, d |-> 1]
  ELSE [y |-> d.y + 1, m |-> 1, d |-> 1]
NextInstant(n) ==
  [time |-> NextTime(n.time),
   date |-> IF n.time = [h |-> 23, m |-> 59, s |-> 59] THEN NextDate(n.date) ELSE n.date]

Midnight == [h |-> 0, m |-> 0, s |-> 0]
NoReg    == [of |-> "none"]

Init ==
  /\ now \in Starts /\ old = now /\ settling = FALSE
  /\ SEC \in BOOLEAN /\ ACKUPD = FALSE /\ UPD = "none" /\ ticks = 0
  /\ pc = "idle" /\ op = "none" /\ arg = now /\ reg = NoReg
  /\ time = Midnight /\ date = now.date /\ ret = 0 /\ during = {}

\* A second passes; a clock whose update is asked for stops instead.
Tick ==
  /\ SEC' = TRUE
  /\ \/ /\ UPD = "none" /\ ticks < MaxTicks /\ ticks' = ticks + 1
        /\ now' = NextInstant(now) /\ old' = now /\ settling' = TRUE /\ UNCHANGED ACKUPD
     \/ UPD # "none" /\ ACKUPD' = TRUE /\ UNCHANGED <<now, old, settling, ticks>>
  /\ during' = during \cup {now'}
  /\ UNCHANGED <<UPD, pc, op, arg, reg, time, date, ret>>

\* What a read of a register may return: each of its fields is the new or the old one.
Mixed(a, b) == {r \in [DOMAIN a -> {a[f] : f \in DOMAIN a} \cup {b[f] : f \in DOMAIN b}] :
                  \A f \in DOMAIN a : r[f] \in {a[f], b[f]}}
Read(new, before) == IF settling THEN Mixed(new, before) ELSE {new}

-----------------------------------------------------------------------------
(* rtc_get_time, rtc_get_date and get_fattime.                             *)

Begin(o, a) ==
  /\ pc = "idle" /\ op' = o /\ arg' = a /\ during' = {now}
  /\ pc' = IF o \in {"set_time", "set_date"} THEN "sec" ELSE IF o = "get_date" THEN "calr" ELSE "timr"
  /\ UNCHANGED <<clock, reg, time, date, ret>>

\* Mutant: the register is read once.
ReadOnce(at, again, new, before) ==
  /\ pc = at /\ \E r \in Read(new, before) : reg' = r
  /\ settling' = FALSE /\ pc' = IF at = "timr" THEN "time" ELSE "date"

ReadFirst(at, again, new, before) ==
  /\ pc = at /\ \E r \in Read(new, before) : reg' = r
  /\ settling' = FALSE /\ pc' = again

\* while (ul_time != p_rtc->RTC_TIMR)
ReadAgain(at, first, next, new, before) ==
  /\ pc = at
  /\ \E r \in Read(new, before) : pc' = IF r = reg THEN next ELSE first
  /\ settling' = FALSE /\ UNCHANGED reg

ReadRegisters ==
  /\ \/ ReadFirst("timr", "timr2", Timr(now.time), Timr(old.time))
     \/ ReadAgain("timr2", "timr", "time", Timr(now.time), Timr(old.time))
     \/ ReadFirst("calr", "calr2", Calr(now.date), Calr(old.date))
     \/ ReadAgain("calr2", "calr", "date", Calr(now.date), Calr(old.date))
  /\ UNCHANGED <<now, old, SEC, ACKUPD, UPD, ticks, op, arg, time, date, ret, during>>

DecodeTime(r) == [h |-> FromBcd(r.hour) + 12 * r.ampm, m |-> FromBcd(r.min), s |-> FromBcd(r.sec)]
DecodeDate(r) == [y |-> 100 * FromBcd(r.cent) + FromBcd(r.year), m |-> FromBcd(r.month),
                  d |-> FromBcd(r.date)]

Decode ==
  /\ \/ pc = "time" /\ time' = DecodeTime(reg) /\ UNCHANGED date
        /\ pc' = IF op = "fattime" THEN "calr" ELSE "idle"
     \/ pc = "date" /\ date' = DecodeDate(reg) /\ pc' = "idle" /\ UNCHANGED time
  /\ reg' = NoReg /\ UNCHANGED <<clock, op, arg, ret, during>>

-----------------------------------------------------------------------------
(* rtc_set_time and rtc_set_date.                                          *)

EncodeTime(t) ==
  LET pm == HRMOD = 1 /\ t.h > 12
  IN  [hour |-> Bcd(IF pm THEN t.h - 12 ELSE t.h), ampm |-> IF pm THEN 1 ELSE 0,
       min |-> Bcd(t.m), sec |-> Bcd(t.s)]

EncodeDate(d) ==
  [cent |-> 16 * (d.y \div 1000) + ((d.y \div 100) % 10),
   year |-> 16 * ((d.y \div 10) % 10) + (d.y % 10), month |-> Bcd(d.m), date |-> Bcd(d.d)]

\* The driver waits for a second, asks for the update, waits until the clock has
\* stopped, writes it and lets it go on.
Update ==
  /\ \/ pc = "sec" /\ SEC /\ pc' = "ack" /\ UPD' = op /\ UNCHANGED <<now, ACKUPD, ret>>
     \/ pc = "ack" /\ ACKUPD /\ pc' = "write" /\ ACKUPD' = FALSE /\ UNCHANGED <<now, UPD, ret>>
     \/ /\ pc = "write" /\ pc' = "go" /\ UNCHANGED <<ACKUPD, UPD>>
        /\ IF op = "set_date" THEN now' = [now EXCEPT !.date = DecodeDate(EncodeDate(arg.date))] /\ ret' = 0
           ELSE IF Loads(EncodeTime(arg.time)) = {} THEN ret' = 1 /\ UNCHANGED now
           ELSE \E t \in Loads(EncodeTime(arg.time)) : now' = [now EXCEPT !.time = t] /\ ret' = 0
     \/ pc = "go" /\ pc' = "idle" /\ UPD' = "none" /\ UNCHANGED <<now, ACKUPD, ret>>
  /\ during' = {now'}
  /\ settling' = (settling /\ pc = "sec") /\ old' = IF settling' THEN old ELSE now'
  /\ UNCHANGED <<SEC, ticks, op, arg, reg, time, date>>

Driver == ReadRegisters \/ Decode \/ Update
Call ==
  \/ \E o \in {"get_time", "get_date", "fattime"} : Begin(o, arg)
  \/ \E o \in {"set_time", "set_date"}, a \in Settings : Begin(o, a)
Next == Tick \/ Call \/ Driver
Spec == Init /\ [][Next]_vars

-----------------------------------------------------------------------------
TypeOK ==
  /\ {now.time, time} \subseteq Times /\ {now.date, date} \subseteq Dates
  /\ {settling, SEC, ACKUPD} \subseteq BOOLEAN
  /\ UPD \in {"none", "set_time", "set_date"} /\ ticks \in 0..MaxTicks /\ ret \in {0, 1}
  /\ pc \in {"idle", "timr", "timr2", "time", "calr", "calr2", "date", "sec", "ack", "write", "go"}

\* What rtc_get_time, rtc_get_date and get_fattime return is a time, and a date, that the
\* clock has shown since the call began, although it ticks between the reads and a read
\* of a changing register may return a mixture.  (Time and date of get_fattime need not
\* be of the same instant: midnight may come between them.)
ReadsAreReal ==
  LET timeShown == \E n \in during : n.time = time
      dateShown == \E n \in during : n.date = date
  IN  pc = "idle" => CASE op = "get_time" -> timeShown
                       [] op = "get_date" -> dateShown
                       [] op = "fattime"  -> timeShown /\ dateShown
                       [] OTHER -> TRUE

\* After rtc_set_time or rtc_set_date has returned OK the clock is at the time or the
\* date that was asked for, or as many seconds later as have passed since.
SettingTakes ==
  pc = "idle" /\ ret = 0 =>
    /\ op = "set_time" => \E n \in during : n.time = arg.time
    /\ op = "set_date" => \E n \in during : n.date = arg.date
=============================================================================
