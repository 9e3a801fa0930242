------------------------------ MODULE FileTimes ------------------------------
(***************************************************************************)
(* The times of entries: unix_to_filetime of src/src/archive.rs,            *)
(* format_filetime and days_to_ymd of src/src/main.rs, set_file_time of     *)
(* src/src/extract.rs.  A calendar goes on second by second on some days    *)
(* and day by day on the others, as one is taught it, and the formulas have *)
(* to keep up with it.  Numbers of 64 bits have a small maximum here.       *)
(***************************************************************************)
EXTENDS Integers

CONSTANTS
  EPOCH_DIFF,    \* seconds between the two epochs
  TICKS_PER_SEC,
  MAX,           \* u64::MAX
  TickDays,      \* days that pass second by second
  LastDay

TimesConstants ==
  /\ {EPOCH_DIFF, MAX, LastDay} \subseteq Nat /\ TICKS_PER_SEC \in Nat \ {0}
  /\ EPOCH_DIFF * TICKS_PER_SEC <= MAX
  /\ TickDays \subseteq Nat

VARIABLES
  day,     \* days since 1970-01-01
  second,  \* of the day
  date, time  \* what the calendar says: <<year, month, day>>, <<hour, minute, second>>

vars == <<day, second, date, time>>

-----------------------------------------------------------------------------
(* The code                                                                 *)

Smaller(a, b) == IF a <= b THEN a ELSE b
SaturatingSub(a, b) == IF a <= b THEN 0 ELSE a - b

UnixToFiletimeWrapped(secs) == ((secs + EPOCH_DIFF) * TICKS_PER_SEC) % (MAX + 1)  \* mutant
unix_to_filetime(secs) == Smaller(Smaller(secs + EPOCH_DIFF, MAX) * TICKS_PER_SEC, MAX)

\* format_filetime shows, and set_file_time sets, nothing before 1970.
BeforeUnix(ticks) == ticks < EPOCH_DIFF * TICKS_PER_SEC
unix_secs(ticks) == SaturatingSub(ticks \div TICKS_PER_SEC, EPOCH_DIFF)

Clock(secs) ==
  LET time_of_day == secs % 86400
  IN  <<time_of_day \div 3600, (time_of_day % 3600) \div 60, time_of_day % 60>>

YearFromMarch(y, m) == y  \* mutant: it still begins in March
YearFromJanuary(y, m) == IF m <= 2 THEN y + 1 ELSE y

\* Years begin in March here: the year within a cycle of 400 years, the day
\* within that year, the month and the day within that month.
YearOfEra(doe) == (doe - doe \div 1460 + doe \div 36524 - doe \div 146096) \div 365
DayOfYear(doe, yoe) == doe - (365 * yoe + yoe \div 4 - yoe \div 100)
DateFromMarch(y, doy) ==
  LET mp == (5 * doy + 2) \div 153
      d  == doy - (153 * mp + 2) \div 5 + 1
      m  == IF mp < 10 THEN mp + 3 ELSE mp - 9
  IN  <<YearFromJanuary(y, m), m, d>>

days_to_ymd(days) ==
  LET z   == days + 719468
      era == z \div 146097
      doe == z - era * 146097
      yoe == YearOfEra(doe)
  IN  DateFromMarch(yoe + era * 400, DayOfYear(doe, yoe))

-----------------------------------------------------------------------------
(* The calendar                                                             *)

IsLeap(y) == y % 4 = 0 /\ (y % 100 = 0 => y % 400 = 0)
DaysOf(y, m) == CASE m = 2 -> IF IsLeap(y) THEN 29 ELSE 28
                  [] m \in {4, 6, 9, 11} -> 30
                  [] OTHER -> 31

NextDate(d) ==
  IF d[3] < DaysOf(d[1], d[2]) THEN <<d[1], d[2], d[3] + 1>>
  ELSE IF d[2] < 12 THEN <<d[1], d[2] + 1, 1>> ELSE <<d[1] + 1, 1, 1>>

NextTime(t) ==
  IF t[3] < 59 THEN <<t[1], t[2], t[3] + 1>>
  ELSE IF t[2] < 59 THEN <<t[1], t[2] + 1, 0>> ELSE <<t[1] + 1, 0, 0>>

Init == day = 0 /\ second = 0 /\ date = <<1970, 1, 1>> /\ time = <<0, 0, 0>>

Tick ==
  /\ day \in TickDays /\ second < 86399
  /\ second' = second + 1 /\ time' = NextTime(time)
  /\ UNCHANGED <<day, date>>

Midnight ==
  /\ day < LastDay /\ (day \in TickDays => second = 86399)
  /\ day' = day + 1 /\ date' = NextDate(date)
  /\ second' = 0 /\ time' = <<0, 0, 0>>

Next == Tick \/ Midnight

Spec == Init /\ [][Next]_vars

-----------------------------------------------------------------------------

\* The date in a listing is the date of the calendar, over leap years and over
\* centuries that are none.
DateIsRight == days_to_ymd(day) = date

\* The seconds of a POSIX header come back from the FILETIME that is stored,
\* in the listing and in the file, until the ticks do not fit: then they stay
\* at the last second that does, and never wrap to an early one.
Seconds == 86400 * day + second
TimeIsKept ==
  day \in TickDays =>
    LET ticks == unix_to_filetime(Seconds) IN
      /\ ~BeforeUnix(ticks)
      /\ unix_secs(ticks) = Smaller(Seconds, MAX \div TICKS_PER_SEC - EPOCH_DIFF)
      /\ (unix_secs(ticks) = Seconds) => Clock(unix_secs(ticks)) = time
                                         /\ unix_secs(ticks) \div 86400 = day
=============================================================================
