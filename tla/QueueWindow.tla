----------------------------- MODULE QueueWindow -----------------------------
(***************************************************************************)
(* The window of operation of a queue: when it opens and closes next.      *)
(*                                                                         *)
(* A Window as the parser leaves it has a time of day to start and one to  *)
(* end, and a recurrence or a single date; or it is always open, possibly  *)
(* except for such a recurrence; or it is never open.  It caches the last  *)
(* answer in start_ and end_ and finds another one when now has passed     *)
(* start_.                                                                 *)
(*                                                                         *)
(* Time is counted in seconds since the first day of the year Epoch; the   *)
(* instant t stands for the second t and some part of the next, so that    *)
(* now.After(t) is now >= t.  Local time is UTC and names of timezones     *)
(* have no offset, which is what time.Parse makes of those it does not     *)
(* know.                                                                   *)
(***************************************************************************)
EXTENDS Integers

Epoch == 2015
MinutesPerDay == 1440
Minute == 60
Day == MinutesPerDay * Minute

(* time.Time{}, and the year 2500. *)
Zero == -1
FarFuture == 1000 * Day

(* A Window, with what each recurrence needs. *)
TimesOfDay == 0 .. MinutesPerDay - 1
DaysOfMonth == 1 .. 31
Months == 1 .. 12
IsWindow(w) ==
    \/ w.kind \in {"always", "nothing"}
    \/ /\ w.kind = "on"
       /\ w.start \in TimesOfDay /\ w.end \in TimesOfDay \cup {Zero}
       /\ w.date.day \in DaysOfMonth /\ w.date.month \in Months /\ w.date.year \in Nat
    \/ /\ w.kind \in {"every", "always_except"}
       /\ w.start \in TimesOfDay /\ w.end \in TimesOfDay
       /\ \/ w.recurrence.every \in {"day", "weekday", "weekend"}
          \/ w.recurrence.every = "day_of_week" /\ w.recurrence.weekday \in 0 .. 6
          \/ w.recurrence.every = "month" /\ w.recurrence.day \in DaysOfMonth
          \/ /\ w.recurrence.every = "year"
             /\ w.recurrence.day \in DaysOfMonth /\ w.recurrence.month \in Months

-----------------------------------------------------------------------------
(* The calendar, for the years 2001 to 2099. *)
IsLeap(year) == year % 4 = 0

DaysBeforeMonth ==
    <<0, 31, 59, 90, 120, 151, 181, 212, 243, 273, 304, 334, 365>>

LeapDays(year) == (year - 1) \div 4 - (Epoch - 1) \div 4

FirstOf(month, year) ==
    365 * (year - Epoch) + LeapDays(year) + DaysBeforeMonth[month]
        + (IF IsLeap(year) /\ month > 2 THEN 1 ELSE 0)

(* time.Date: a day beyond the end of the month is one of the next month. *)
DayNumber(d) == FirstOf(d.month, d.year) + d.day - 1

DaysInMonth(month, year) == FirstOf(month + 1, year) - FirstOf(month, year)

DateOf(n) ==
    LET year  == CHOOSE y \in Epoch .. Epoch + 3 :
                     FirstOf(1, y) <= n /\ n < FirstOf(1, y + 1)
        month == CHOOSE m \in 1 .. 12 :
                     FirstOf(m, year) <= n /\ n < FirstOf(m + 1, year)
    IN  [day |-> n - FirstOf(month, year) + 1, month |-> month, year |-> year]

(* Sunday is 0; the first day of 2015 is a Thursday. *)
Weekday(n) == (n + 4) % 7
Sunday   == 0
Monday   == 1
Saturday == 6

IsWeekend(weekday) == weekday \in {Saturday, Sunday}

DayOf(t) == t \div Day
MinuteOf(t) == (t % Day) \div Minute
At(n, minute) == n * Day + minute * Minute

-----------------------------------------------------------------------------
(* date arithmetic of window.go *)

(* In December it is the year that grows by the number of days. *)
AddDays(d, addition) ==
    LET over == d.day + addition - DaysInMonth(d.month, d.year) IN
    IF over <= 0
    THEN [d EXCEPT !.day = @ + addition]
    ELSE IF d.month = 12
         THEN [day |-> over, month |-> 1, year |-> d.year + addition]
         ELSE [d EXCEPT !.day = over, !.month = @ + 1]

AddMonth(d) ==
    IF d.month = 12 THEN [d EXCEPT !.month = 1, !.year = @ + 1]
    ELSE [d EXCEPT !.month = @ + 1]

AddYear(d) == [d EXCEPT !.year = @ + 1]

TimeStamp(d, minute) == At(DayNumber(d), minute)

Between(w, startdate, enddate) ==
    [start |-> TimeStamp(startdate, w.start), end |-> TimeStamp(enddate, w.end)]

(***************************************************************************)
(* deriveWindowsForToday.  Nothing is derived in the minute in which the   *)
(* window ends.                                                            *)
(***************************************************************************)
DeriveForToday(w, now, cached, startdate, enddate) ==
    LET minute == MinuteOf(now) IN
    CASE w.start <= minute /\ minute < w.end ->
           [start |-> now, end |-> TimeStamp(enddate, w.end)]
      [] w.start > minute ->
           Between(w, startdate, enddate)
      [] w.start <= minute /\ w.end < minute ->
           Between(w, AddDays(startdate, 1), AddDays(enddate, 1))
      [] OTHER -> cached

(* deriveWindowsForYear *)
DeriveForYear(w, now, cached, startdate, enddate) ==
    LET today == DateOf(DayOf(now)) IN
    CASE startdate.month < today.month
         \/ (startdate.month = today.month /\ startdate.day < today.day) ->
           Between(w, AddYear(startdate), AddYear(enddate))
      [] startdate.month > today.month
         \/ (startdate.month = today.month /\ startdate.day > today.day) ->
           Between(w, startdate, enddate)
      [] OTHER -> DeriveForToday(w, now, cached, startdate, enddate)

(***************************************************************************)
(* The branches of generateRecurringWindow.  A window that ends earlier in *)
(* the day than it starts ends the day after.                              *)
(***************************************************************************)
EndDate(w, startdate) == IF w.end < w.start THEN AddDays(startdate, 1) ELSE startdate

DaysAhead(w, today, days) ==
    Between(w, AddDays(today, days), AddDays(EndDate(w, today), days))

EveryDay(w, now, cached) ==
    LET today == DateOf(DayOf(now)) IN
    DeriveForToday(w, now, cached, today, EndDate(w, today))

(* Mutant: once the window of today is over, tomorrow is counted from. *)
EveryDayOfWeekLate(w, now, cached) ==
    LET today   == DateOf(DayOf(now))
        weekday == Weekday(DayOf(now))
        asked   == w.recurrence.weekday
    IN  IF weekday = asked /\ MinuteOf(now) < w.end
        THEN DeriveForToday(w, now, cached, today, EndDate(w, today))
        ELSE DaysAhead(w, today, IF weekday < asked THEN asked - weekday
                                 ELSE (7 - weekday) + asked + 1)

EveryDayOfWeek(w, now, cached) ==
    LET today   == DateOf(DayOf(now))
        weekday == Weekday(DayOf(now))
        asked   == w.recurrence.weekday
    IN  CASE weekday = asked /\ w.end < MinuteOf(now) /\ EndDate(w, today).day = today.day ->
               DaysAhead(w, today, 7)
          [] weekday = asked /\ ~(w.end < MinuteOf(now) /\ EndDate(w, today).day = today.day) ->
               DeriveForToday(w, now, cached, today, EndDate(w, today))
          [] weekday < asked -> DaysAhead(w, today, asked - weekday)
          [] weekday > asked -> DaysAhead(w, today, (6 - weekday) + asked + 1)

EveryWeekday(w, now, cached) ==
    LET today   == DateOf(DayOf(now))
        weekday == Weekday(DayOf(now))
    IN  IF IsWeekend(weekday)
        THEN DaysAhead(w, today, IF weekday = Sunday THEN 1 ELSE 2)
        ELSE DeriveForToday(w, now, cached, today, EndDate(w, today))

EveryWeekend(w, now, cached) ==
    LET today   == DateOf(DayOf(now))
        weekday == Weekday(DayOf(now))
    IN  IF IsWeekend(weekday)
        THEN DeriveForToday(w, now, cached, today, EndDate(w, today))
        ELSE DaysAhead(w, today, Saturday - weekday)

EveryMonth(w, now, cached) ==
    LET today     == DateOf(DayOf(now))
        startdate == [today EXCEPT !.day = w.recurrence.day]
        enddate   == EndDate(w, startdate)
    IN  CASE startdate.day < today.day -> Between(w, AddMonth(startdate), AddMonth(enddate))
          [] startdate.day > today.day -> Between(w, startdate, enddate)
          [] OTHER -> DeriveForToday(w, now, cached, startdate, enddate)

(* "every 01/01 yearly", "every 1st jan". *)
EveryYear(w, now, cached) ==
    LET startdate == [day |-> w.recurrence.day, month |-> w.recurrence.month,
                      year |-> DateOf(DayOf(now)).year]
    IN  DeriveForYear(w, now, cached, startdate, EndDate(w, startdate))

(* Of a window on one day that has only a start, the end is now. *)
OnDate(w, now) ==
    [start |-> TimeStamp(w.date, w.start),
     end |-> IF w.end = Zero THEN now ELSE TimeStamp(w.date, w.end)]

(* generateRecurringWindow *)
Generate(w, now, cached) ==
    CASE w.kind = "always" -> [start |-> now, end |-> FarFuture]
      [] w.kind = "on" -> OnDate(w, now)
      [] w.kind = "nothing" -> cached
      [] w.kind \in {"every", "always_except"} ->
           CASE w.recurrence.every = "day"         -> EveryDay(w, now, cached)
             [] w.recurrence.every = "day_of_week" -> EveryDayOfWeek(w, now, cached)
             [] w.recurrence.every = "weekday"     -> EveryWeekday(w, now, cached)
             [] w.recurrence.every = "weekend"     -> EveryWeekend(w, now, cached)
             [] w.recurrence.every = "month"       -> EveryMonth(w, now, cached)
             [] w.recurrence.every = "year"        -> EveryYear(w, now, cached)

(* Mutant: an answer once found is kept. *)
RefreshOnce(w, now, cached) ==
    IF cached.start = Zero \/ cached.end = Zero THEN Generate(w, now, cached) ELSE cached

(***************************************************************************)
(* returnTime.  It first brings the cached answer up to date.              *)
(***************************************************************************)
Refresh(w, now, cached) ==
    IF cached.start = Zero \/ cached.end = Zero \/ now >= cached.start
    THEN Generate(w, now, cached)
    ELSE cached

(* Mutant: now is not moved on by a second. *)
InsideNow(now, cached) == now > cached.start /\ now < cached.end

Inside(now, cached) == now + 1 >= cached.start /\ now + 1 < cached.end

GetNextStartTime(w, now, cached) ==
    IF w.kind = "always_except"
    THEN IF Inside(now, cached) THEN cached.end ELSE now
    ELSE cached.start

(* While an exception lasts, the next end is not known. *)
GetNextEndTime(w, now, cached) ==
    IF w.kind = "always_except"
    THEN IF Inside(now, cached) THEN Zero ELSE cached.start
    ELSE cached.end
=============================================================================
