----------------------------- MODULE MCServices -----------------------------
(* Small instances of the four services.                                   *)
EXTENDS Services

\* The clock about to tick into another hour, noon, a leap day and a year.
Instant(y, mo, d, h, mi, s) ==
  [date |-> [y |-> y, m |-> mo, d |-> d], time |-> [h |-> h, m |-> mi, s |-> s]]
MCStarts ==
  {Instant(2019, 12, 31, 23, 59, 58), Instant(2020, 2, 28, 23, 59, 58),
   Instant(2019, 6, 1, 11, 59, 59), Instant(2019, 6, 9, 9, 59, 58)}
MCSettings == {Instant(2020, 2, 29, 19, 30, 0), Instant(1999, 12, 31, 12, 0, 59)}

\* Sources of one pin and of both.
MCMasks == {{1}, {2}, {1, 2}}
=============================================================================
