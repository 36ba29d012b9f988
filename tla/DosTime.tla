------------------------------ MODULE DosTime ------------------------------
(***************************************************************************)
(* The dates of files: nanoseconds since 1970 on the host, packed fields   *)
(* since 1980 in DOS, in local time (unixtime.h).                          *)
(*                                                                         *)
(* The code counts in units of two seconds, in 32 bits.  A count is        *)
(* written here as a record of days and the units since midnight, and a    *)
(* date and time of DOS as the record of its bit fields.  The fraction of  *)
(* two seconds is left out.  unsigned has 16 bits.                         *)
(*                                                                         *)
(* The specification is a calendar that goes from day to day through some  *)
(* years, the reference that the conversions are compared with.            *)
(***************************************************************************)
EXTENDS Integers

CONSTANTS
  Years,    \* bound: the years that are gone through
  Units,    \* times of day that are converted, in units since midnight
  Zones     \* values of data.tz_offset: units to the west of Greenwich

PerDay == 43200

ASSUME DosTimeAssumption ==
  /\ Years \subseteq 1970 .. 2200
  /\ Units \subseteq 0 .. PerDay - 1 /\ Zones \subseteq Int

VARIABLES
  day,   \* since 1 January 1970
  date   \* the same in the Gregorian calendar

datevars == <<day, date>>

UNIX_EPOCH_YEAR == 1970
DOS_EPOCH_YEAR == 1980

-----------------------------------------------------------------------------
(* The reference *)

LastOfMonth(d) ==
  d.day = CASE d.month \in {4, 6, 9, 11} -> 30
            [] d.month = 2 ->
                 IF d.year % 4 # 0 \/ (d.year % 100 = 0 /\ d.year % 400 # 0)
                   THEN 28 ELSE 29
            [] OTHER -> 31

\* 1 January: of the years before it since 1970, every fourth has a day more,
\* but of those of 1900, 2000 and 2100 only 2000.
NewYear(y) ==
  365 * (y - 1970) + (y - 1969) \div 4 - (y - 1901) \div 100 + (y - 1601) \div 400

NewYears ==
  \E y \in Years :
    /\ day = NewYear(y) /\ date = [year |-> y, month |-> 1, day |-> 1]

Tomorrow ==
  \/ ~LastOfMonth(date) /\ date' = [date EXCEPT !.day = @ + 1]
  \/ /\ LastOfMonth(date) /\ date.month < 12
     /\ date' = [date EXCEPT !.month = @ + 1, !.day = 1]
  \/ /\ LastOfMonth(date) /\ date.month = 12
     /\ date' = [year |-> date.year + 1, month |-> 1, day |-> 1]

NextDay == date.year \in Years /\ day' = day + 1 /\ Tomorrow

Calendar == NewYears /\ [][NextDay]_datevars

-----------------------------------------------------------------------------
(* Counts of two seconds *)

Count(d, u) == [day |-> d + u \div PerDay, unit |-> u % PerDay]
Add(t, n) == Count(t.day, t.unit + n)
Before(s, t) == s.day < t.day \/ (s.day = t.day /\ s.unit < t.unit)

Bit31 == Count(49710, 11648)  \* 2^31 units
Bit32 == Count(99420, 23296)  \* 2^32 units

-----------------------------------------------------------------------------
(* The calendar of the code *)

\* Mutant: centuries are leap years.
is_leap_yearMutant(y) == y % 4 = 0

is_leap_year(y) == (y % 4 = 0 /\ y % 100 # 0) \/ y % 400 = 0

days_per_year(y) == IF is_leap_year(y) THEN 366 ELSE 365

days_per_month(m, leap) ==
  CASE m \in {1, 3, 5, 7, 8, 10, 12} -> 31
    [] m \in {4, 6, 9, 11} -> 30
    [] m = 2 -> IF leap THEN 29 ELSE 28
    [] OTHER -> 0

\* The days from 1970 to a year, and from a year to one of its months
DaysToYear[y \in UNIX_EPOCH_YEAR .. 2250] ==
  IF y = UNIX_EPOCH_YEAR THEN 0 ELSE DaysToYear[y - 1] + days_per_year(y - 1)

DaysToMonth(month, leap) ==
  LET to[m \in 0 .. 15] ==
        IF m <= 1 THEN 0 ELSE to[m - 1] + days_per_month(m - 1, leap)
  IN  to[month]

-----------------------------------------------------------------------------
(* timestampns_to_dos_time *)

\* The first division overflows, which is an interrupt.
Faults(t) == ~Before(t, Bit31) \/ Before(t, Count(-49711, PerDay - 11648))

\* Local time, in 32 bits without a sign: the second division clears edx.
Local(t, tz) ==
  LET u == Add(t, -tz)
  IN  IF u.day < 0 THEN Count(u.day + Bit32.day, u.unit + Bit32.unit) ELSE u

ToDos(t, tz) ==
  LET u == Local(t, tz)
      year == CHOOSE y \in UNIX_EPOCH_YEAR + u.day \div 366
                           .. UNIX_EPOCH_YEAR + u.day \div 365 :
                /\ DaysToYear[y] <= u.day
                /\ u.day < DaysToYear[y] + days_per_year(y)
      rest == u.day - DaysToYear[year]
      leap == is_leap_year(year)
      month == CHOOSE m \in 1 .. 12 :
                 /\ DaysToMonth(m, leap) <= rest
                 /\ rest < DaysToMonth(m, leap) + days_per_month(m, leap)
  IN  [year |-> IF year < DOS_EPOCH_YEAR THEN 0
                ELSE (year - DOS_EPOCH_YEAR) % 128,
       month |-> month,
       day |-> 1 + rest - DaysToMonth(month, leap),
       hours |-> u.unit \div 1800,
       minutes |-> (u.unit \div 30) % 60,
       seconds2 |-> u.unit % 30]

-----------------------------------------------------------------------------
(* timestampns_from_dos_time *)

\* Mutant: a leap year is taken for any other.
FromDosMutant(f, tz) ==
  LET year == f.year + DOS_EPOCH_YEAR
  IN  Add(Count(DaysToYear[year] + DaysToMonth(f.month, FALSE) + f.day - 1,
                f.seconds2 + f.minutes * 30 + f.hours * 1800), tz)

\* hours * 3600U is cut to 16 bits before it is halved, and a day of 0 is 65536;
\* the sum has 32 bits and a sign.
FromDos(f, tz) ==
  LET year == f.year + DOS_EPOCH_YEAR
      days == DaysToYear[year] + DaysToMonth(f.month, is_leap_year(year))
                + ((f.day - 1) % 65536)
      units == f.seconds2 + f.minutes * 30 + ((f.hours * 3600) % 65536) \div 2
      t == Add(Count(days, units), tz)
  IN  IF Before(t, Bit31) THEN t
      ELSE Count(t.day - Bit32.day, t.unit - Bit32.unit)

-----------------------------------------------------------------------------
(* Properties *)

\* The times of this day that the conversions are asked for, with the zones: the
\* local time and, on the host, the time that it is.
Times == {[local |-> Count(day, u), zone |-> z, host |-> Count(day, u + z)] :
            u \in Units, z \in Zones}

\* From 1970 on, and until the division overflows in 2106, a file is shown with
\* the local date and time that it has on the host, leap years and days included;
\* before 1980 the year is 0 (unixtime.h:64-151).
DatesAreTrue ==
  \A t \in Times :
    ~Faults(t.host) =>
      ToDos(t.host, t.zone) =
        [year |-> IF date.year < DOS_EPOCH_YEAR THEN 0
                  ELSE date.year - DOS_EPOCH_YEAR,
         month |-> date.month, day |-> date.day,
         hours |-> t.local.unit \div 1800,
         minutes |-> (t.local.unit % 1800) \div 30,
         seconds2 |-> t.local.unit % 30]

\* A date that DOS shows goes back to the host as the time it came from; the two
\* functions disagree neither on a leap day nor on the zone (unixtime.h:153-208).
\* After 19 o'clock it comes back 2^16 seconds early.
DatesComeBack ==
  \A t \in Times :
    date.year >= DOS_EPOCH_YEAR /\ ~Faults(t.host) =>
      FromDos(ToDos(t.host, t.zone), t.zone) =
        IF t.local.unit < 19 * 1800 THEN t.host ELSE Add(t.host, -32768)

\* unixtime.h:193 says of the sum of days and time of day: "eax now contains
\* seconds_since_epoch / 2".
LateTimesComeBack ==
  \A t \in Times :
    date.year >= DOS_EPOCH_YEAR /\ ~Faults(t.host) =>
      FromDos(ToDos(t.host, t.zone), t.zone) = t.host

=============================================================================
