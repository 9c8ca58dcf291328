------------------------ MODULE WindowTimers_proofs ------------------------
(***************************************************************************)
(* The managers of queues close in time, for any queues, paths, nodes,     *)
(* faults and instants before FarFuture:                                   *)
(*   - StrayCloses: within 30 seconds of losing the queue,                 *)
(*   - UncontainedCloses: within a minute of a queue above closing,        *)
(*   - ClosesAtEnd: within a minute of the end of a daily window,          *)
(* and they open in time:                                                  *)
(*   - OwnerOpens: within a minute of an owner's queue being contained and *)
(*     in its daily window.                                                *)
(*                                                                         *)
(* None of the four is inductive: each is about the time since something   *)
(* happened, and a step that lets time pass keeps it only because a timer  *)
(* is due by then.  TimerInv says which timers a manager has in each of    *)
(* its states; StrayInv, AloneInv and CloseInv say of the timer that will  *)
(* close the queue that it is not set again by anything else meanwhile.    *)
(* PlanInv says what the timer of each state is set for, by what the       *)
(* manager knows of its window, and IdleInv that it opens the queue.       *)
(*                                                                         *)
(* The first sections are about what the timers are set by: the arithmetic *)
(* of instants, the calendar, and the answers of a window.                 *)
(*                                                                         *)
(* The last sections are about the answers themselves, for any words of a  *)
(* window that recurs and ends on the day it starts (WindowClock):         *)
(*   - OpeningNotSkipped, KnowsClosing and ExceptionHolds.                 *)
(* NotSkipped is what each way to find the next opening keeps, whatever    *)
(* was answered before.  Parts and Hearing say of the parser that what it  *)
(* holds is what the words so far mean.                                    *)
(***************************************************************************)
EXTENDS WindowTimers, WindowClock, SequenceTheorems, WellFoundedInduction, TLAPS

-----------------------------------------------------------------------------
(* Time of day. *)
LEMMA DivDay ==
  ASSUME NEW t \in Nat
  PROVE  /\ t \div 86400 \in Nat
         /\ 86400 * (t \div 86400) <= t /\ t < 86400 * (t \div 86400) + 86400
         /\ t % 86400 = t - 86400 * (t \div 86400)
<1>1. t \div 86400 \in Nat
  OBVIOUS
<1>2. 86400 * (t \div 86400) <= t
  OBVIOUS
<1>3. t < 86400 * (t \div 86400) + 86400
  OBVIOUS
<1>4. t % 86400 = t - 86400 * (t \div 86400)
  OBVIOUS
<1> QED  BY <1>1, <1>2, <1>3, <1>4

LEMMA DivMinute ==
  ASSUME NEW r \in Nat
  PROVE  r \div 60 \in Nat /\ 60 * (r \div 60) <= r /\ r < 60 * (r \div 60) + 60
<1>1. r \div 60 \in Nat
  OBVIOUS
<1>2. 60 * (r \div 60) <= r
  OBVIOUS
<1>3. r < 60 * (r \div 60) + 60
  OBVIOUS
<1> QED  BY <1>1, <1>2, <1>3

LEMMA AtIs ==
  ASSUME NEW n \in Int, NEW minute \in Int
  PROVE  At(n, minute) = 86400 * n + 60 * minute /\ At(n, minute) \in Int
<1>1. Day = 86400 /\ Minute = 60
  BY DEF Day, MinutesPerDay, Minute
<1>2. At(n, minute) = n * 86400 + minute * 60
  BY <1>1 DEF At
<1> QED  BY <1>2

LEMMA TimeParts ==
  ASSUME NEW t \in Nat
  PROVE  /\ DayOf(t) \in Nat /\ MinuteOf(t) \in TimesOfDay
         /\ At(DayOf(t), MinuteOf(t)) <= t /\ t < At(DayOf(t), MinuteOf(t)) + Minute
<1> DEFINE d == t \div 86400
           r == t % 86400
           minute == r \div 60
<1>1. Day = 86400 /\ Minute = 60 /\ TimesOfDay = 0 .. 1439
  BY DEF Day, MinutesPerDay, Minute, TimesOfDay
<1>2. MinuteOf(t) = minute /\ DayOf(t) = d
  BY <1>1 DEF MinuteOf, DayOf
<1>3. d \in Nat /\ 86400 * d <= t /\ t < 86400 * d + 86400 /\ r = t - 86400 * d
  BY DivDay
<1> HIDE DEF d, r
<1>4. r \in Nat /\ r < 86400
  BY <1>3
<1>5. minute \in Nat /\ 60 * minute <= r /\ r < 60 * minute + 60
  BY <1>4, DivMinute
<1> HIDE DEF minute
<1>6. minute <= 1439
  BY <1>4, <1>5
<1>7. At(d, minute) = 86400 * d + 60 * minute
  BY <1>3, <1>5, AtIs
<1> QED  BY <1>1, <1>2, <1>3, <1>4, <1>5, <1>6, <1>7

-----------------------------------------------------------------------------
(* The calendar. *)
Dates == [day : Int, month : 1 .. 12, year : Int]

LEMMA DateFields ==
  ASSUME NEW d \in Dates
  PROVE  d.day \in Int /\ d.month \in 1 .. 12 /\ d.month + 1 \in 1 .. 13 /\ d.year \in Int
BY DEF Dates

LEMMA FirstOfIsInt ==
  ASSUME NEW month \in 1 .. 13, NEW year \in Int
  PROVE  FirstOf(month, year) \in Int
<1>1. DaysBeforeMonth[month] \in Int
  BY DEF DaysBeforeMonth
<1>2. LeapDays(year) \in Int
  BY DEF LeapDays, Epoch
<1> QED  BY <1>1, <1>2 DEF FirstOf, Epoch

LEMMA DateArithmetic ==
  ASSUME NEW d \in Dates
  PROVE  /\ DayNumber(d) \in Int
         /\ DaysInMonth(d.month, d.year) \in Int
         /\ \A k \in Int : AddDays(d, k) \in Dates
         /\ AddMonth(d) \in Dates /\ AddYear(d) \in Dates
<1>0. d.day \in Int /\ d.month \in 1 .. 12 /\ d.month + 1 \in 1 .. 13 /\ d.year \in Int
  BY DateFields
<1>1. FirstOf(d.month, d.year) \in Int /\ FirstOf(d.month + 1, d.year) \in Int
  <2>1. d.month \in 1 .. 13
    BY <1>0
  <2> QED  BY <1>0, <2>1, FirstOfIsInt
<1>2. DayNumber(d) \in Int /\ DaysInMonth(d.month, d.year) \in Int
  BY <1>0, <1>1 DEF DayNumber, DaysInMonth
<1>3. ASSUME NEW k \in Int PROVE AddDays(d, k) \in Dates
  <2> DEFINE over == d.day + k - DaysInMonth(d.month, d.year)
  <2>1. over \in Int /\ d.day + k \in Int /\ d.year + k \in Int
    BY <1>0, <1>2
  <2>2. AddDays(d, k) = IF over <= 0 THEN [d EXCEPT !.day = d.day + k]
                        ELSE IF d.month = 12
                        THEN [day |-> over, month |-> 1, year |-> d.year + k]
                        ELSE [d EXCEPT !.day = over, !.month = d.month + 1]
    BY DEF AddDays
  <2> HIDE DEF over
  <2>3. [d EXCEPT !.day = d.day + k] \in Dates
    BY <2>1 DEF Dates
  <2>4. [day |-> over, month |-> 1, year |-> d.year + k] \in Dates
    BY <2>1 DEF Dates
  <2>5. d.month # 12 => [d EXCEPT !.day = over, !.month = d.month + 1] \in Dates
    <3>1. d.month # 12 => d.month + 1 \in 1 .. 12
      BY <1>0
    <3> QED  BY <2>1, <3>1 DEF Dates
  <2> QED  BY <2>2, <2>3, <2>4, <2>5
<1>4. AddMonth(d) \in Dates
  <2>1. AddMonth(d) = IF d.month = 12 THEN [d EXCEPT !.month = 1, !.year = d.year + 1]
                      ELSE [d EXCEPT !.month = d.month + 1]
    BY DEF AddMonth
  <2>2. [d EXCEPT !.month = 1, !.year = d.year + 1] \in Dates
    <3>1. d.year + 1 \in Int /\ 1 \in 1 .. 12
      BY <1>0
    <3> QED  BY <3>1 DEF Dates
  <2>3. d.month # 12 => [d EXCEPT !.month = d.month + 1] \in Dates
    <3>1. d.month # 12 => d.month + 1 \in 1 .. 12
      BY <1>0
    <3> QED  BY <3>1 DEF Dates
  <2> QED  BY <2>1, <2>2, <2>3
<1>5. AddYear(d) \in Dates
  <2>1. d.year + 1 \in Int
    BY <1>0
  <2> QED  BY <2>1 DEF AddYear, Dates
<1> QED  BY <1>2, <1>3, <1>4, <1>5

(* The first of January of the year after is the day after the 31st of December. *)
LEMMA YearsFollow ==
  ASSUME NEW year \in Epoch .. Epoch + 3
  PROVE  FirstOf(13, year) = FirstOf(1, year + 1)
<1> USE DEF FirstOf, LeapDays, IsLeap, DaysBeforeMonth, Epoch
<1>1. CASE year = 2015
  BY <1>1
<1>2. CASE year = 2016
  BY <1>2
<1>3. CASE year = 2017
  BY <1>3
<1>4. CASE year = 2018
  BY <1>4
<1> QED  BY <1>1, <1>2, <1>3, <1>4

LEMMA DateOfDay ==
  ASSUME NEW n \in Nat, n <= 1460
  PROVE  /\ DateOf(n) \in Dates /\ DateOf(n).year \in Epoch .. Epoch + 3
         /\ DayNumber(DateOf(n)) = n
         /\ 1 <= DateOf(n).day /\ DateOf(n).day <= DaysInMonth(DateOf(n).month, DateOf(n).year)
<1> DEFINE year == CHOOSE y \in Epoch .. Epoch + 3 : FirstOf(1, y) <= n /\ n < FirstOf(1, y + 1)
           month == CHOOSE m \in 1 .. 12 : FirstOf(m, year) <= n /\ n < FirstOf(m + 1, year)
<1>1. year \in Epoch .. Epoch + 3 /\ FirstOf(1, year) <= n /\ n < FirstOf(1, year + 1)
  <2>1. \E y \in Epoch .. Epoch + 3 : FirstOf(1, y) <= n /\ n < FirstOf(1, y + 1)
    <3>1. /\ FirstOf(1, 2015) = 0 /\ FirstOf(1, 2016) = 365 /\ FirstOf(1, 2017) = 731
          /\ FirstOf(1, 2018) = 1096 /\ FirstOf(1, 2019) = 1461
      BY DEF FirstOf, LeapDays, IsLeap, DaysBeforeMonth, Epoch
    <3>2. /\ 2015 \in Epoch .. Epoch + 3 /\ 2016 \in Epoch .. Epoch + 3
          /\ 2017 \in Epoch .. Epoch + 3 /\ 2018 \in Epoch .. Epoch + 3
      BY DEF Epoch
    <3>3. \/ 0 <= n /\ n < 365
          \/ 365 <= n /\ n < 731
          \/ 731 <= n /\ n < 1096
          \/ 1096 <= n /\ n < 1461
      OBVIOUS
    <3>4. 2015 + 1 = 2016 /\ 2016 + 1 = 2017 /\ 2017 + 1 = 2018 /\ 2018 + 1 = 2019
      OBVIOUS
    <3> QED  BY <3>1, <3>2, <3>3, <3>4
  <2> QED  BY <2>1
<1> HIDE DEF year
<1>2. year \in Int
  BY <1>1 DEF Epoch
<1>3. \A m \in 1 .. 13 : FirstOf(m, year) \in Int
  BY <1>2, FirstOfIsInt
<1>4. month \in 1 .. 12 /\ FirstOf(month, year) <= n /\ n < FirstOf(month + 1, year)
  <2>1. \E m \in 1 .. 12 : FirstOf(m, year) <= n /\ n < FirstOf(m + 1, year)
    <3> SUFFICES ASSUME \A m \in 1 .. 12 : FirstOf(m, year) <= n => FirstOf(m + 1, year) <= n
                 PROVE  FALSE
      BY <1>3
    <3>1. FirstOf(1, year) <= n
      BY <1>1
    <3>2. FirstOf(2, year) <= n
      BY <3>1
    <3>3. FirstOf(3, year) <= n
      BY <3>2
    <3>4. FirstOf(4, year) <= n
      BY <3>3
    <3>5. FirstOf(5, year) <= n
      BY <3>4
    <3>6. FirstOf(6, year) <= n
      BY <3>5
    <3>7. FirstOf(7, year) <= n
      BY <3>6
    <3>8. FirstOf(8, year) <= n
      BY <3>7
    <3>9. FirstOf(9, year) <= n
      BY <3>8
    <3>10. FirstOf(10, year) <= n
      BY <3>9
    <3>11. FirstOf(11, year) <= n
      BY <3>10
    <3>12. FirstOf(12, year) <= n
      BY <3>11
    <3>13. FirstOf(13, year) <= n
      BY <3>12
    <3> QED  BY <1>1, <1>3, <3>13, YearsFollow
  <2> QED  BY <2>1
<1> HIDE DEF month
<1>5. DateOf(n) = [day |-> n - FirstOf(month, year) + 1, month |-> month, year |-> year]
  BY DEF DateOf, month, year
<1>6. FirstOf(month, year) \in Int /\ FirstOf(month + 1, year) \in Int
  BY <1>3, <1>4
<1> QED  BY <1>1, <1>2, <1>4, <1>5, <1>6 DEF Dates, DayNumber, DaysInMonth

LEMMA Tomorrow ==
  ASSUME NEW n \in Nat, n <= 1460
  PROVE  DayNumber(AddDays(DateOf(n), 1)) = n + 1
<1> DEFINE d == DateOf(n)
<1>1. /\ d \in Dates /\ d.year \in Epoch .. Epoch + 3
      /\ DayNumber(d) = n
      /\ 1 <= d.day /\ d.day <= DaysInMonth(d.month, d.year)
  BY DateOfDay
<1> HIDE DEF d
<1> DEFINE first == FirstOf(d.month, d.year)
           next == FirstOf(d.month + 1, d.year)
           over == d.day + 1 - DaysInMonth(d.month, d.year)
<1>2. d.day \in Int /\ d.month \in 1 .. 12 /\ d.month + 1 \in 1 .. 13 /\ d.year \in Int
  BY <1>1, DateFields
<1>3. first \in Int /\ next \in Int
  <2>1. d.month \in 1 .. 13
    BY <1>2
  <2> QED  BY <1>2, <2>1, FirstOfIsInt
<1>4. DaysInMonth(d.month, d.year) = next - first /\ n = first + d.day - 1
  BY <1>1 DEF DaysInMonth, DayNumber
<1>5. over = d.day + 1 - (next - first)
  BY <1>4
<1>6. AddDays(d, 1) = IF over <= 0 THEN [d EXCEPT !.day = d.day + 1]
                      ELSE IF d.month = 12
                      THEN [day |-> over, month |-> 1, year |-> d.year + 1]
                      ELSE [d EXCEPT !.day = over, !.month = d.month + 1]
  BY DEF AddDays
<1> HIDE DEF over
<1>7. CASE over <= 0
  <2>1. AddDays(d, 1) = [d EXCEPT !.day = d.day + 1]
    BY <1>6, <1>7
  <2>2. DayNumber(AddDays(d, 1)) = first + (d.day + 1) - 1
    BY <1>1, <2>1 DEF DayNumber, Dates
  <2> QED  BY <1>2, <1>3, <1>4, <2>2 DEF d
<1>8. CASE ~ (over <= 0)
  <2>1. over = 1 /\ next = n + 1
    BY <1>1, <1>2, <1>3, <1>4, <1>5, <1>8
  <2>2. CASE d.month = 12
    <3>1. AddDays(d, 1) = [day |-> 1, month |-> 1, year |-> d.year + 1]
      BY <1>6, <1>8, <2>1, <2>2
    <3>2. FirstOf(1, d.year + 1) = FirstOf(13, d.year)
      BY <1>1, YearsFollow
    <3>3. FirstOf(1, d.year + 1) = next
      BY <2>2, <3>2
    <3>4. DayNumber(AddDays(d, 1)) = next + 1 - 1
      BY <3>1, <3>3 DEF DayNumber
    <3> QED  BY <1>3, <2>1, <3>4 DEF d
  <2>3. CASE d.month # 12
    <3>1. AddDays(d, 1) = [d EXCEPT !.day = 1, !.month = d.month + 1]
      BY <1>6, <1>8, <2>1, <2>3
    <3>2. DayNumber(AddDays(d, 1)) = next + 1 - 1
      BY <1>1, <3>1 DEF DayNumber, Dates
    <3> QED  BY <1>3, <2>1, <3>2 DEF d
  <2> QED  BY <2>2, <2>3
<1> QED  BY <1>7, <1>8

-----------------------------------------------------------------------------
(* The answers of a window are instants. *)
Times == [start : Int, end : Int]

(* The years the calendar is unfolded for. *)
Soon(t) == t \in Nat /\ DayOf(t) <= 1460

LEMMA TimeOfDay ==
  ASSUME NEW minute \in TimesOfDay
  PROVE  minute \in Nat /\ minute < 1440
<1>1. MinutesPerDay - 1 = 1439
  BY DEF MinutesPerDay
<1> QED  BY <1>1 DEF TimesOfDay

LEMMA TimesAreNat == TimesOfDay \subseteq Nat
BY TimeOfDay

LEMMA TimeStampType ==
  ASSUME NEW d, DayNumber(d) \in Int, NEW minute \in Int
  PROVE  TimeStamp(d, minute) \in Int
BY AtIs DEF TimeStamp

LEMMA BetweenType ==
  ASSUME NEW w, w.start \in Int, w.end \in Int, NEW first \in Dates, NEW last \in Dates
  PROVE  Between(w, first, last) \in Times
<1>1. DayNumber(first) \in Int /\ DayNumber(last) \in Int
  BY DateArithmetic
<1>2. TimeStamp(first, w.start) \in Int /\ TimeStamp(last, w.end) \in Int
  BY <1>1, TimeStampType
<1> QED  BY <1>2 DEF Between, Times

LEMMA ForTodayType ==
  ASSUME NEW w, w.start \in Int, w.end \in Int, NEW t \in Nat, NEW cached \in Times,
         NEW first \in Dates, NEW last \in Dates
  PROVE  DeriveForToday(w, t, cached, first, last) \in Times
<1>1. Between(w, first, last) \in Times
  BY BetweenType
<1>2. AddDays(first, 1) \in Dates /\ AddDays(last, 1) \in Dates
  BY DateArithmetic
<1>3. Between(w, AddDays(first, 1), AddDays(last, 1)) \in Times
  BY <1>2, BetweenType
<1>4. TimeStamp(last, w.end) \in Int
  BY DateArithmetic, TimeStampType
<1>5. [start |-> t, end |-> TimeStamp(last, w.end)] \in Times
  BY <1>4 DEF Times
<1> QED  BY <1>1, <1>3, <1>5 DEF DeriveForToday

LEMMA ForYearType ==
  ASSUME NEW w, w.start \in Int, w.end \in Int, NEW t \in Nat, NEW cached \in Times,
         NEW first \in Dates, NEW last \in Dates
  PROVE  DeriveForYear(w, t, cached, first, last) \in Times
<1>1. AddYear(first) \in Dates /\ AddYear(last) \in Dates
  BY DateArithmetic
<1>2. Between(w, AddYear(first), AddYear(last)) \in Times
  BY <1>1, BetweenType
<1> QED  BY <1>2, BetweenType, ForTodayType DEF DeriveForYear

LEMMA AheadType ==
  ASSUME NEW w, w.start \in Int, w.end \in Int, NEW today \in Dates, NEW days \in Int
  PROVE  EndDate(w, today) \in Dates /\ DaysAhead(w, today, days) \in Times
<1>1. EndDate(w, today) \in Dates
  BY DateArithmetic DEF EndDate
<1>2. AddDays(today, days) \in Dates /\ AddDays(EndDate(w, today), days) \in Dates
  BY <1>1, DateArithmetic
<1> QED  BY <1>1, <1>2, BetweenType DEF DaysAhead

LEMMA WeekdayType ==
  ASSUME NEW n \in Nat
  PROVE  Weekday(n) \in Nat
BY DEF Weekday

(* What a window of each kind has. *)
LEMMA HoursOfWindow ==
  ASSUME NEW w, IsWindow(w), w.kind \in {"every", "always_except"}
  PROVE  /\ w.start \in TimesOfDay /\ w.end \in TimesOfDay
         /\ w.recurrence.every \in {"day", "weekday", "weekend", "day_of_week", "month", "year"}
         /\ w.recurrence.every = "day_of_week" => w.recurrence.weekday \in 0 .. 6
         /\ w.recurrence.every = "month" => w.recurrence.day \in DaysOfMonth
         /\ w.recurrence.every = "year" =>
              w.recurrence.day \in DaysOfMonth /\ w.recurrence.month \in Months
BY DEF IsWindow

LEMMA DateOfWindow ==
  ASSUME NEW w, IsWindow(w), w.kind = "on"
  PROVE  /\ w.start \in TimesOfDay /\ w.end \in TimesOfDay \cup {Zero}
         /\ w.date.day \in DaysOfMonth /\ w.date.month \in Months /\ w.date.year \in Nat
BY DEF IsWindow

LEMMA DaysAreInt == DaysOfMonth \subseteq Int /\ Months = 1 .. 12
BY DEF DaysOfMonth, Months

LEMMA GenerateType ==
  ASSUME NEW w, IsWindow(w), NEW t, Soon(t), NEW cached \in Times
  PROVE  Generate(w, t, cached) \in Times
<1> DEFINE today == DateOf(DayOf(t))
           weekday == Weekday(DayOf(t))
<1>1. t \in Nat /\ DayOf(t) \in Nat /\ DayOf(t) <= 1460
  BY TimeParts DEF Soon
<1>2. today \in Dates
  BY <1>1, DateOfDay
<1>3. weekday \in Nat
  BY <1>1, WeekdayType
<1> HIDE DEF today, weekday
<1>4. CASE w.kind = "always"
  <2>1. [start |-> t, end |-> FarFuture] \in Times
    BY <1>1 DEF Times, FarFuture, Day, Minute, MinutesPerDay
  <2> QED  BY <1>4, <2>1 DEF Generate
<1>5. CASE w.kind = "nothing"
  BY <1>5 DEF Generate
<1>6. CASE w.kind = "on"
  <2>1. w.start \in Int /\ w.end \in Int
    <3>1. w.start \in Nat /\ (w.end \in Nat \/ w.end = Zero)
      BY <1>6, DateOfWindow, TimesAreNat
    <3> QED  BY <3>1 DEF Zero
  <2>2. w.date.day \in Int /\ w.date.month \in 1 .. 12 /\ w.date.year \in Int
    <3>1. w.date.day \in Int /\ w.date.month \in 1 .. 12 /\ w.date.year \in Nat
      BY <1>6, DateOfWindow, DaysAreInt, Zenon
    <3> QED  BY <3>1
  <2>3. DayNumber(w.date) \in Int
    <3>1. FirstOf(w.date.month, w.date.year) \in Int
      BY <2>2, FirstOfIsInt
    <3> QED  BY <2>2, <3>1 DEF DayNumber
  <2>4. TimeStamp(w.date, w.start) \in Int /\ TimeStamp(w.date, w.end) \in Int
    BY <2>1, <2>3, TimeStampType
  <2>5. OnDate(w, t) \in Times
    BY <1>1, <2>4 DEF OnDate, Times
  <2> QED  BY <1>6, <2>5 DEF Generate
<1>7. CASE w.kind \in {"every", "always_except"}
  <2>1. w.start \in Int /\ w.end \in Int
    <3>1. w.start \in Nat /\ w.end \in Nat
      BY <1>7, HoursOfWindow, TimesAreNat
    <3> QED  BY <3>1
  <2>2. EndDate(w, today) \in Dates /\ \A k \in Int : DaysAhead(w, today, k) \in Times
    BY <1>2, <2>1, AheadType
  <2>3. DeriveForToday(w, t, cached, today, EndDate(w, today)) \in Times
    BY <1>1, <1>2, <2>1, <2>2, ForTodayType
  <2>4. CASE w.recurrence.every = "day"
    BY <1>7, <2>3, <2>4 DEF Generate, EveryDay, today
  <2>5. CASE w.recurrence.every = "weekday"
    <3>1. DaysAhead(w, today, IF weekday = Sunday THEN 1 ELSE 2) \in Times
      BY <2>2
    <3> QED  BY <1>7, <2>3, <2>5, <3>1 DEF Generate, EveryWeekday, today, weekday
  <2>6. CASE w.recurrence.every = "weekend"
    <3>1. Saturday - weekday \in Int
      BY <1>3 DEF Saturday
    <3>2. DaysAhead(w, today, Saturday - weekday) \in Times
      BY <2>2, <3>1
    <3> QED  BY <1>7, <2>3, <2>6, <3>2 DEF Generate, EveryWeekend, today, weekday
  <2>7. CASE w.recurrence.every = "day_of_week"
    <3> DEFINE meant == w.recurrence.weekday
    <3>1. meant \in Int
      <4>1. meant \in 0 .. 6
        BY <1>7, <2>7, HoursOfWindow
      <4> HIDE DEF meant
      <4> QED  BY <4>1
    <3> HIDE DEF meant
    <3>2. meant - weekday \in Int /\ (6 - weekday) + meant + 1 \in Int
      BY <1>3, <3>1
    <3>3. /\ DaysAhead(w, today, 7) \in Times /\ DaysAhead(w, today, meant - weekday) \in Times
          /\ DaysAhead(w, today, (6 - weekday) + meant + 1) \in Times
      BY <2>2, <3>2
    <3>4. weekday = meant \/ weekday < meant \/ weekday > meant
      BY <1>3, <3>1
    <3>5. EveryDayOfWeek(w, t, cached) \in Times
      BY <2>3, <3>3, <3>4 DEF EveryDayOfWeek, today, weekday, meant
    <3> QED  BY <1>7, <2>7, <3>5 DEF Generate
  <2>8. CASE w.recurrence.every = "month"
    <3> DEFINE first == [today EXCEPT !.day = w.recurrence.day]
    <3>1. w.recurrence.day \in Int
      BY <1>7, <2>8, HoursOfWindow, DaysAreInt
    <3>2. first \in Dates
      BY <1>2, <3>1 DEF Dates
    <3> HIDE DEF first
    <3>3. EndDate(w, first) \in Dates
      BY <2>1, <3>2, AheadType
    <3>4. AddMonth(first) \in Dates /\ AddMonth(EndDate(w, first)) \in Dates
      BY <3>2, <3>3, DateArithmetic
    <3>5. /\ Between(w, first, EndDate(w, first)) \in Times
          /\ Between(w, AddMonth(first), AddMonth(EndDate(w, first))) \in Times
          /\ DeriveForToday(w, t, cached, first, EndDate(w, first)) \in Times
      BY <1>1, <2>1, <3>2, <3>3, <3>4, BetweenType, ForTodayType
    <3>6. EveryMonth(w, t, cached) \in Times
      BY <3>5 DEF EveryMonth, first, today
    <3> QED  BY <1>7, <2>8, <3>6 DEF Generate
  <2>9. CASE w.recurrence.every = "year"
    <3> DEFINE first == [day |-> w.recurrence.day, month |-> w.recurrence.month, year |-> today.year]
    <3>1. w.recurrence.day \in Int /\ w.recurrence.month \in 1 .. 12 /\ today.year \in Int
      BY <1>2, <1>7, <2>9, DateFields, HoursOfWindow, DaysAreInt
    <3>2. first \in Dates
      BY <3>1 DEF Dates
    <3> HIDE DEF first
    <3>3. EndDate(w, first) \in Dates
      BY <2>1, <3>2, AheadType
    <3>4. DeriveForYear(w, t, cached, first, EndDate(w, first)) \in Times
      BY <1>1, <2>1, <3>2, <3>3, ForYearType
    <3> QED  BY <1>7, <2>9, <3>4 DEF Generate, EveryYear, first, today
  <2> QED  BY <1>7, <2>4, <2>5, <2>6, <2>7, <2>8, <2>9, HoursOfWindow
<1> QED  BY <1>4, <1>5, <1>6, <1>7 DEF IsWindow

LEMMA AnswersType ==
  ASSUME NEW w, IsWindow(w), NEW t, Soon(t), NEW cached \in Times
  PROVE  /\ Refresh(w, t, cached) \in Times
         /\ GetNextStartTime(w, t, cached) \in Int
         /\ GetNextEndTime(w, t, cached) \in Int
<1>1. Generate(w, t, cached) \in Times
  BY GenerateType
<1>2. cached.start \in Int /\ cached.end \in Int /\ t \in Int /\ Zero \in Int
  BY DEF Times, Soon, Zero
<1> QED  BY <1>1, <1>2 DEF Refresh, GetNextStartTime, GetNextEndTime

-----------------------------------------------------------------------------
(* The windows that are open, or closed, for some hours of every day. *)
IsDaily(w) ==
  /\ w.kind \in {"every", "always_except"} /\ w.recurrence.every = "day"
  /\ w.start \in TimesOfDay /\ w.end \in TimesOfDay /\ w.start < w.end

LEMMA DailyDerived ==
  ASSUME NEW w, IsDaily(w), NEW t, Soon(t), NEW cached
  PROVE  LET d == DayOf(t) minute == MinuteOf(t) IN
         Generate(w, t, cached) =
           IF w.start <= minute /\ minute < w.end
           THEN [start |-> t, end |-> At(d, w.end)]
           ELSE IF w.start > minute
           THEN [start |-> At(d, w.start), end |-> At(d, w.end)]
           ELSE IF w.end < minute
           THEN [start |-> At(d + 1, w.start), end |-> At(d + 1, w.end)]
           ELSE cached
<1> DEFINE d == DayOf(t)
           minute == MinuteOf(t)
           today == DateOf(d)
<1>1. t \in Nat /\ d \in Nat /\ d <= 1460 /\ minute \in Nat
  BY TimeParts, TimeOfDay DEF Soon
<1>2. w.start \in Nat /\ w.end \in Nat /\ w.start < w.end
  BY TimesAreNat DEF IsDaily
<1>3. DayNumber(today) = d /\ DayNumber(AddDays(today, 1)) = d + 1
  BY <1>1, DateOfDay, Tomorrow
<1>4. EndDate(w, today) = today
  BY <1>2 DEF EndDate
<1>5. Generate(w, t, cached) = DeriveForToday(w, t, cached, today, today)
  BY <1>4 DEF Generate, EveryDay, IsDaily
<1>6. /\ TimeStamp(today, w.end) = At(d, w.end) /\ TimeStamp(today, w.start) = At(d, w.start)
      /\ TimeStamp(AddDays(today, 1), w.end) = At(d + 1, w.end)
      /\ TimeStamp(AddDays(today, 1), w.start) = At(d + 1, w.start)
  BY <1>3 DEF TimeStamp
<1> HIDE DEF d, today
<1>7. DeriveForToday(w, t, cached, today, today) =
        IF w.start <= minute /\ minute < w.end
        THEN [start |-> t, end |-> At(d, w.end)]
        ELSE IF w.start > minute
        THEN [start |-> At(d, w.start), end |-> At(d, w.end)]
        ELSE IF w.end < minute
        THEN [start |-> At(d + 1, w.start), end |-> At(d + 1, w.end)]
        ELSE cached
  <2> HIDE DEF minute
  <2>1. CASE w.start <= minute /\ minute < w.end
    BY <1>1, <1>2, <1>6, <2>1 DEF DeriveForToday, minute
  <2>2. CASE w.start > minute
    BY <1>1, <1>2, <1>6, <2>2 DEF DeriveForToday, minute, Between
  <2>3. CASE w.start <= minute /\ w.end < minute
    BY <1>1, <1>2, <1>6, <2>3 DEF DeriveForToday, minute, Between
  <2>4. CASE w.start <= minute /\ w.end = minute
    BY <1>1, <1>2, <1>6, <2>4 DEF DeriveForToday, minute
  <2> QED  BY <1>1, <1>2, <2>1, <2>2, <2>3, <2>4
<1> QED  BY <1>5, <1>7 DEF d

-----------------------------------------------------------------------------
(* The next closing of a window that is open daily, and the next beginning  *)
(* of the exception of one that is closed daily, which is t while it lasts: *)
(* no end and no start a window answers lies beyond them.                   *)
NextClose(w, t) == At(IF MinuteOf(t) <= w.end THEN DayOf(t) ELSE DayOf(t) + 1, w.end)

NextExcept(w, t) ==
  IF MinuteOf(t) < w.start THEN At(DayOf(t), w.start)
  ELSE IF MinuteOf(t) < w.end THEN t
  ELSE At(DayOf(t) + 1, w.start)

Bounded(w, t, times) == times.end <= NextClose(w, t) /\ times.start <= NextExcept(w, t)

(* An instant is a day, a minute of the day, and some seconds. *)
LEMMA Instant ==
  ASSUME NEW t \in Nat
  PROVE  /\ DayOf(t) \in Nat /\ MinuteOf(t) \in Nat /\ MinuteOf(t) < 1440
         /\ 86400 * DayOf(t) + 60 * MinuteOf(t) <= t
         /\ t < 86400 * DayOf(t) + 60 * MinuteOf(t) + 60
<1> DEFINE d == DayOf(t)
           m == MinuteOf(t)
           a == At(d, m)
<1>1. d \in Nat /\ m \in TimesOfDay /\ a <= t /\ t < a + Minute
  BY TimeParts
<1>2. m \in Nat /\ m < 1440 /\ Minute = 60
  BY <1>1, TimeOfDay DEF Minute
<1> HIDE DEF d, m
<1>3. a = 86400 * d + 60 * m
  <2>1. d \in Int /\ m \in Int
    BY <1>1, <1>2
  <2> QED  BY <2>1, AtIs
<1> HIDE DEF a
<1>4. 86400 * d + 60 * m <= t /\ t < 86400 * d + 60 * m + 60
  BY <1>1, <1>2, <1>3
<1> QED  BY <1>1, <1>2, <1>4 DEF d, m

(* Hours of every day. *)
LEMMA DailyHours ==
  ASSUME NEW w, IsDaily(w)
  PROVE  w.start \in Nat /\ w.end \in Nat /\ w.start < w.end /\ w.end < 1440
<1>1. w.start \in Nat /\ w.end \in Nat
  BY TimesAreNat DEF IsDaily
<1>2. w.end < 1440
  <2> DEFINE e == w.end
  <2>1. e \in TimesOfDay
    BY DEF IsDaily
  <2> HIDE DEF e
  <2>2. e < 1440
    BY <2>1, TimeOfDay
  <2> QED  BY <2>2 DEF e
<1> QED  BY <1>1, <1>2 DEF IsDaily

LEMMA LaterInstant ==
  ASSUME NEW t \in Nat, NEW u \in Nat, t <= u,
         NEW d1 \in Nat, NEW m1 \in Nat, NEW d2 \in Nat, NEW m2 \in Nat,
         m1 < 1440, m2 < 1440,
         86400 * d1 + 60 * m1 <= t, u < 86400 * d2 + 60 * m2 + 60
  PROVE  d1 <= d2 /\ (d1 = d2 => m1 <= m2)
<1>1. d1 <= d2
  <2>1. d1 > d2 => 86400 * d1 >= 86400 * d2 + 86400
    OBVIOUS
  <2> QED  BY <2>1
<1>2. d1 = d2 => m1 <= m2
  OBVIOUS
<1> QED  BY <1>1, <1>2

(* The bounds, by the day and the minute of now. *)
LEMMA BoundsAre ==
  ASSUME NEW w, IsDaily(w), NEW t \in Nat
  PROVE  /\ NextClose(w, t) = IF MinuteOf(t) <= w.end THEN 86400 * DayOf(t) + 60 * w.end
                              ELSE 86400 * DayOf(t) + 86400 + 60 * w.end
         /\ NextExcept(w, t) = IF MinuteOf(t) < w.start THEN 86400 * DayOf(t) + 60 * w.start
                               ELSE IF MinuteOf(t) < w.end THEN t
                               ELSE 86400 * DayOf(t) + 86400 + 60 * w.start
<1> DEFINE d == DayOf(t)
           b == w.start
           e == w.end
<1>1. d \in Nat /\ MinuteOf(t) \in Nat
  BY Instant
<1>2. b \in Nat /\ e \in Nat
  BY DailyHours
<1> HIDE DEF d, b, e
<1>3. d \in Int /\ d + 1 \in Int /\ b \in Int /\ e \in Int
  BY <1>1, <1>2
<1>4. /\ At(d, e) = 86400 * d + 60 * e /\ At(d, b) = 86400 * d + 60 * b
      /\ At(d + 1, e) = 86400 * (d + 1) + 60 * e /\ At(d + 1, b) = 86400 * (d + 1) + 60 * b
  BY <1>3, AtIs
<1>5. 86400 * (d + 1) = 86400 * d + 86400
  BY <1>1
<1>6. /\ At(d + 1, e) = 86400 * d + 86400 + 60 * e
      /\ At(d + 1, b) = 86400 * d + 86400 + 60 * b
  BY <1>4, <1>5
<1> QED  BY <1>4, <1>6 DEF NextClose, NextExcept, d, b, e

LEMMA BoundsGrow ==
  ASSUME NEW w, IsDaily(w), NEW t \in Nat, NEW u \in Nat, t <= u
  PROVE  /\ NextClose(w, t) \in Nat /\ NextExcept(w, t) \in Nat
         /\ NextClose(w, t) <= NextClose(w, u) /\ NextExcept(w, t) <= NextExcept(w, u)
<1> DEFINE d1 == DayOf(t)
           m1 == MinuteOf(t)
           d2 == DayOf(u)
           m2 == MinuteOf(u)
           b == w.start
           e == w.end
           c1 == NextClose(w, t)
           c2 == NextClose(w, u)
           x1 == NextExcept(w, t)
           x2 == NextExcept(w, u)
<1>1. d1 \in Nat /\ m1 \in Nat /\ m1 < 1440 /\ 86400 * d1 + 60 * m1 <= t /\ t < 86400 * d1 + 60 * m1 + 60
  BY Instant
<1>2. d2 \in Nat /\ m2 \in Nat /\ m2 < 1440 /\ 86400 * d2 + 60 * m2 <= u /\ u < 86400 * d2 + 60 * m2 + 60
  BY Instant
<1>3. b \in Nat /\ e \in Nat /\ b < e /\ e < 1440
  BY DailyHours
<1>4. /\ c1 = IF m1 <= e THEN 86400 * d1 + 60 * e ELSE 86400 * d1 + 86400 + 60 * e
      /\ x1 = IF m1 < b THEN 86400 * d1 + 60 * b ELSE IF m1 < e THEN t
              ELSE 86400 * d1 + 86400 + 60 * b
  BY BoundsAre
<1>5. /\ c2 = IF m2 <= e THEN 86400 * d2 + 60 * e ELSE 86400 * d2 + 86400 + 60 * e
      /\ x2 = IF m2 < b THEN 86400 * d2 + 60 * b ELSE IF m2 < e THEN u
              ELSE 86400 * d2 + 86400 + 60 * b
  BY BoundsAre
<1> HIDE DEF d1, m1, d2, m2, b, e, c1, c2, x1, x2
<1>6. d1 <= d2 /\ (d1 = d2 => m1 <= m2)
  BY <1>1, <1>2, LaterInstant
<1>7. c1 \in Nat /\ x1 \in Nat
  BY <1>1, <1>3, <1>4
<1>8. d1 = d2 \/ d1 + 1 <= d2
  BY <1>1, <1>2, <1>6
<1>9. CASE d1 = d2
  <2>0. 86400 * d1 = 86400 * d2 /\ m1 <= m2 /\ 86400 * d1 \in Nat
    BY <1>1, <1>6, <1>9
  <2>1. c1 <= c2
    BY <1>1, <1>2, <1>3, <1>4, <1>5, <2>0
  <2>2. x1 <= x2
    BY <1>1, <1>2, <1>3, <1>4, <1>5, <1>6, <1>9
  <2> QED  BY <1>7, <2>1, <2>2 DEF c1, c2, x1, x2
<1>10. CASE d1 + 1 <= d2
  <2>1. 86400 * d1 + 86400 <= 86400 * d2
    BY <1>1, <1>2, <1>10
  <2>2. c1 <= c2
    BY <1>1, <1>2, <1>3, <1>4, <1>5, <2>1
  <2>3. x1 <= x2
    BY <1>1, <1>2, <1>3, <1>4, <1>5, <2>1
  <2> QED  BY <1>7, <2>2, <2>3 DEF c1, c2, x1, x2
<1> QED  BY <1>8, <1>9, <1>10

LEMMA StaysBounded ==
  ASSUME NEW w, IsDaily(w), NEW t \in Nat, NEW u \in Nat, t <= u,
         NEW times \in Times, Bounded(w, t, times)
  PROVE  Bounded(w, u, times)
<1>1. /\ NextClose(w, t) \in Nat /\ NextExcept(w, t) \in Nat
      /\ NextClose(w, u) \in Nat /\ NextExcept(w, u) \in Nat
      /\ NextClose(w, t) <= NextClose(w, u) /\ NextExcept(w, t) <= NextExcept(w, u)
  BY BoundsGrow
<1>2. times.start \in Int /\ times.end \in Int
  BY DEF Times
<1> QED  BY <1>1, <1>2 DEF Bounded

LEMMA NoTimesBounded ==
  ASSUME NEW w, IsDaily(w), NEW t \in Nat
  PROVE  Bounded(w, t, [start |-> Zero, end |-> Zero])
<1>1. NextClose(w, t) \in Nat /\ NextExcept(w, t) \in Nat
  BY BoundsGrow
<1> QED  BY <1>1 DEF Bounded, Zero

LEMMA AtDay ==
  ASSUME NEW d \in Nat, NEW b \in Nat
  PROVE  At(d, b) = 86400 * d + 60 * b /\ At(d + 1, b) = 86400 * d + 86400 + 60 * b
<1>1. d \in Int /\ d + 1 \in Int /\ b \in Int
  OBVIOUS
<1>2. At(d, b) = 86400 * d + 60 * b
  BY <1>1, AtIs
<1>3. At(d + 1, b) = 86400 * (d + 1) + 60 * b
  BY <1>1, AtIs
<1>4. 86400 * (d + 1) = 86400 * d + 86400
  OBVIOUS
<1> QED  BY <1>2, <1>3, <1>4

LEMMA GeneratedBounded ==
  ASSUME NEW w, IsDaily(w), NEW t, Soon(t), NEW cached \in Times, Bounded(w, t, cached)
  PROVE  Bounded(w, t, Generate(w, t, cached))
<1> DEFINE d == DayOf(t)
           m == MinuteOf(t)
           b == w.start
           e == w.end
           g == Generate(w, t, cached)
           close == NextClose(w, t)
           except == NextExcept(w, t)
<1>0. t \in Nat
  BY DEF Soon
<1>1. d \in Nat /\ m \in Nat /\ m < 1440 /\ 86400 * d + 60 * m <= t /\ t < 86400 * d + 60 * m + 60
  BY <1>0, Instant
<1>2. b \in Nat /\ e \in Nat /\ b < e /\ e < 1440
  BY DailyHours
<1>3. /\ close = IF m <= e THEN 86400 * d + 60 * e ELSE 86400 * d + 86400 + 60 * e
      /\ except = IF m < b THEN 86400 * d + 60 * b ELSE IF m < e THEN t
                  ELSE 86400 * d + 86400 + 60 * b
  BY <1>0, BoundsAre
<1>4. g = IF b <= m /\ m < e THEN [start |-> t, end |-> At(d, e)]
          ELSE IF b > m THEN [start |-> At(d, b), end |-> At(d, e)]
          ELSE IF e < m THEN [start |-> At(d + 1, b), end |-> At(d + 1, e)]
          ELSE cached
  BY DailyDerived
<1> HIDE DEF d, m, b, e, g, close, except
<1>5. /\ At(d, e) = 86400 * d + 60 * e /\ At(d, b) = 86400 * d + 60 * b
      /\ At(d + 1, e) = 86400 * d + 86400 + 60 * e /\ At(d + 1, b) = 86400 * d + 86400 + 60 * b
  <2>1. d \in Nat /\ e \in Nat /\ b \in Nat
    BY <1>1, <1>2
  <2>2. At(d, e) = 86400 * d + 60 * e /\ At(d + 1, e) = 86400 * d + 86400 + 60 * e
    BY <2>1, AtDay
  <2>3. At(d, b) = 86400 * d + 60 * b /\ At(d + 1, b) = 86400 * d + 86400 + 60 * b
    BY <2>1, AtDay
  <2> QED  BY <2>2, <2>3
<1>7. g.end <= close /\ g.start <= except
  <2>1. CASE b <= m /\ m < e
    <3>1. g.start = t /\ g.end = 86400 * d + 60 * e
      BY <1>4, <1>5, <2>1
    <3>2. close = 86400 * d + 60 * e /\ except = t
      BY <1>1, <1>2, <1>3, <2>1
    <3> QED  BY <1>0, <1>1, <1>2, <3>1, <3>2
  <2>2. CASE b > m
    <3>1. g.start = 86400 * d + 60 * b /\ g.end = 86400 * d + 60 * e
      BY <1>1, <1>2, <1>4, <1>5, <2>2
    <3>2. close = 86400 * d + 60 * e /\ except = 86400 * d + 60 * b
      BY <1>1, <1>2, <1>3, <2>2
    <3> QED  BY <1>1, <1>2, <3>1, <3>2
  <2>3. CASE b <= m /\ e < m
    <3>1. g.start = 86400 * d + 86400 + 60 * b /\ g.end = 86400 * d + 86400 + 60 * e
      <4>1. ~(b <= m /\ m < e) /\ ~(b > m)
        BY <1>1, <1>2, <2>3
      <4>2. g = [start |-> At(d + 1, b), end |-> At(d + 1, e)]
        BY <1>4, <2>3, <4>1
      <4> QED  BY <1>5, <4>2
    <3>2. close = 86400 * d + 86400 + 60 * e /\ except = 86400 * d + 86400 + 60 * b
      <4>1. ~(m <= e) /\ ~(m < b) /\ ~(m < e)
        BY <1>1, <1>2, <2>3
      <4> QED  BY <1>3, <4>1
    <3> QED  BY <1>1, <1>2, <3>1, <3>2
  <2>4. CASE b <= m /\ e = m
    <3>1. g = cached
      BY <1>1, <1>2, <1>4, <2>4
    <3> QED  BY <3>1 DEF Bounded, close, except
  <2> QED  BY <1>1, <1>2, <2>1, <2>2, <2>3, <2>4
<1> QED  BY <1>7 DEF Bounded, g, close, except

LEMMA RefreshBounded ==
  ASSUME NEW w, IsDaily(w), NEW t, Soon(t), NEW cached \in Times, Bounded(w, t, cached)
  PROVE  Bounded(w, t, Refresh(w, t, cached))
BY GeneratedBounded DEF Refresh

(* A window that is open at t0 closes later. *)
LEMMA OpenUntil ==
  ASSUME NEW w, IsDaily(w), NEW t0 \in Nat, InWindow(w, t0)
  PROVE  Closing(w, t0) \in Nat /\ t0 < Closing(w, t0)
<1> DEFINE C == Closing(w, t0)
           d == DayOf(t0)
           m == MinuteOf(t0)
           b == w.start
           e == w.end
<1>1. d \in Nat /\ m \in Nat /\ m < 1440 /\ 86400 * d + 60 * m <= t0 /\ t0 < 86400 * d + 60 * m + 60
  BY Instant
<1>2. b \in Nat /\ e \in Nat /\ b < e /\ e < 1440
  BY DailyHours
<1>3. \/ b <= m /\ m < e /\ C = At(d, e)
      \/ ~(b <= m /\ m < e) /\ m < b /\ C = At(d, b)
      \/ ~(b <= m /\ m < e) /\ ~(m < b) /\ C = At(d + 1, b)
  <2>1. w.kind = "every" \/ w.kind = "always_except"
    BY DEF IsDaily
  <2>2. CASE w.kind = "every"
    BY <2>2 DEF InWindow, InHours, Closing
  <2>3. CASE w.kind = "always_except"
    BY <2>3 DEF InWindow, InHours, Closing
  <2> QED  BY <2>1, <2>2, <2>3
<1> HIDE DEF C, d, m, b, e
<1>4. d \in Nat /\ b \in Nat /\ e \in Nat
  BY <1>1, <1>2
<1>5. At(d, e) = 86400 * d + 60 * e
  BY <1>4, AtDay
<1>6. At(d, b) = 86400 * d + 60 * b
  BY <1>4, AtDay
<1>7. At(d + 1, b) = 86400 * d + 86400 + 60 * b
  BY <1>4, AtDay
<1>8. CASE b <= m /\ m < e /\ C = At(d, e)
  BY <1>1, <1>2, <1>5, <1>8 DEF C
<1>9. CASE m < b /\ C = At(d, b)
  BY <1>1, <1>2, <1>6, <1>9 DEF C
<1>10. CASE C = At(d + 1, b)
  BY <1>1, <1>2, <1>7, <1>10 DEF C
<1> QED  BY <1>3, <1>8, <1>9, <1>10

(* A window that was open at t0: for a minute after it closes, the next end *)
(* it answers is no later than that, or than now.                           *)
LEMMA EndIsNear ==
  ASSUME NEW w, IsDaily(w), NEW t0 \in Nat, InWindow(w, t0), NEW t \in Nat, t0 <= t,
         t < Closing(w, t0) + Minute, NEW times \in Times, Bounded(w, t, times)
  PROVE  \/ GetNextEndTime(w, t, times) <= Closing(w, t0)
         \/ GetNextEndTime(w, t, times) <= t
<1> DEFINE C == Closing(w, t0)
           N == GetNextEndTime(w, t, times)
           d0 == DayOf(t0)
           m0 == MinuteOf(t0)
           d == DayOf(t)
           m == MinuteOf(t)
           b == w.start
           e == w.end
           close == NextClose(w, t)
           except == NextExcept(w, t)
<1>1. d0 \in Nat /\ m0 \in Nat /\ m0 < 1440 /\ 86400 * d0 + 60 * m0 <= t0 /\ t0 < 86400 * d0 + 60 * m0 + 60
  BY Instant
<1>2. d \in Nat /\ m \in Nat /\ m < 1440 /\ 86400 * d + 60 * m <= t /\ t < 86400 * d + 60 * m + 60
  BY Instant
<1>3. b \in Nat /\ e \in Nat /\ b < e /\ e < 1440
  BY DailyHours
<1>4. times.start \in Int /\ times.end \in Int /\ times.end <= close /\ times.start <= except
  BY DEF Times, Bounded
<1>5. /\ close = IF m <= e THEN 86400 * d + 60 * e ELSE 86400 * d + 86400 + 60 * e
      /\ except = IF m < b THEN 86400 * d + 60 * b ELSE IF m < e THEN t
                  ELSE 86400 * d + 86400 + 60 * b
  BY BoundsAre
<1>6. t < C + 60
  BY DEF Minute
<1>7. w.kind = "every" \/ w.kind = "always_except"
  BY DEF IsDaily
<1>0. C \in Nat
  BY OpenUntil
<1>8. w.kind = "every" => b <= m0 /\ m0 < e /\ C = At(d0, e) /\ N = times.end
  BY DEF InWindow, InHours, Closing, GetNextEndTime
<1>9. w.kind = "always_except" =>
        /\ ~(b <= m0 /\ m0 < e)
        /\ C = At(IF m0 < b THEN d0 ELSE d0 + 1, b)
        /\ N = Zero \/ N = times.start
  <2>1. w.kind = "always_except" => ~(b <= m0 /\ m0 < e)
    BY DEF InWindow, InHours
  <2>2. w.kind = "always_except" => C = At(IF m0 < b THEN d0 ELSE d0 + 1, b)
    BY DEF Closing
  <2>3. w.kind = "always_except" => N = Zero \/ N = times.start
    BY DEF GetNextEndTime
  <2> QED  BY <2>1, <2>2, <2>3
<1> HIDE DEF C, N, d0, m0, d, m, b, e, close, except
<1>10. /\ At(d0, e) = 86400 * d0 + 60 * e /\ At(d0, b) = 86400 * d0 + 60 * b
       /\ At(d0 + 1, b) = 86400 * d0 + 86400 + 60 * b
  <2>1. d0 \in Nat /\ e \in Nat /\ b \in Nat
    BY <1>1, <1>3
  <2>2. At(d0, e) = 86400 * d0 + 60 * e
    BY <2>1, AtDay
  <2>3. At(d0, b) = 86400 * d0 + 60 * b
    BY <2>1, AtDay
  <2>4. At(d0 + 1, b) = 86400 * d0 + 86400 + 60 * b
    BY <2>1, AtDay
  <2> QED  BY <2>2, <2>3, <2>4
<1>11. 86400 * (d0 + 1) = 86400 * d0 + 86400
  BY <1>1
<1>12. d0 <= d /\ (d0 = d => m0 <= m)
  BY <1>1, <1>2, LaterInstant
<1>13. CASE w.kind = "every"
  <2>1. b <= m0 /\ m0 < e /\ C = 86400 * d0 + 60 * e /\ N = times.end
    BY <1>8, <1>10, <1>13
  <2>2. d <= d0 /\ (d = d0 => m <= e)
    <3>1. t < 86400 * d0 + 60 * e + 60
      BY <1>6, <2>1
    <3> QED  BY <1>1, <1>2, <1>3, <3>1, LaterInstant
  <2>3. d = d0 /\ m <= e
    BY <1>1, <1>2, <1>12, <2>2
  <2>4. close = C
    BY <1>5, <2>1, <2>3
  <2>5. N <= C
    BY <1>4, <2>1, <2>4
  <2> QED  BY <2>5 DEF C, N
<1>14. CASE w.kind = "always_except"
  <2>1. m0 < b \/ e <= m0
    <3>1. ~(b <= m0 /\ m0 < e)
      BY <1>9, <1>14
    <3> QED  BY <1>1, <1>3, <3>1
  <2>2. C = IF m0 < b THEN 86400 * d0 + 60 * b ELSE 86400 * d0 + 86400 + 60 * b
    <3>1. C = At(IF m0 < b THEN d0 ELSE d0 + 1, b)
      BY <1>9, <1>14
    <3>2. CASE m0 < b
      BY <1>10, <3>1, <3>2
    <3>3. CASE ~(m0 < b)
      BY <1>10, <3>1, <3>3
    <3> QED  BY <3>2, <3>3
  <2>3. CASE m0 < b
    <3>1. C = 86400 * d0 + 60 * b
      BY <2>2, <2>3
    <3>3. d <= d0 /\ (d = d0 => m <= b)
      <4>1. t < 86400 * d0 + 60 * b + 60 /\ b < 1440
        BY <1>3, <1>6, <3>1
      <4> QED  BY <1>1, <1>2, <1>3, <4>1, LaterInstant
    <3>4. d = d0 /\ m <= b
      BY <1>1, <1>2, <1>12, <3>3
    <3>5. except = C \/ except = t
      BY <1>2, <1>3, <1>5, <3>1, <3>4
    <3>6. N <= C \/ N <= t
      <4>1. times.start <= C \/ times.start <= t
        BY <1>4, <3>5
      <4>2. N = Zero => N <= C
        BY <1>0 DEF Zero
      <4> QED  BY <1>9, <1>14, <4>1, <4>2
    <3> QED  BY <3>6 DEF C, N
  <2>4. CASE e <= m0
    <3>1. C = 86400 * d0 + 86400 + 60 * b /\ ~(m0 < b)
      BY <1>1, <1>3, <2>2, <2>4
    <3>3. d <= d0 + 1 /\ (d = d0 + 1 => m <= b)
      <4>1. t < 86400 * (d0 + 1) + 60 * b + 60 /\ b < 1440 /\ d0 + 1 \in Nat
        BY <1>1, <1>3, <1>6, <1>11, <3>1
      <4> QED  BY <1>1, <1>2, <1>3, <4>1, LaterInstant
    <3>4. \/ d = d0 /\ m0 <= m
          \/ d = d0 + 1 /\ m <= b
      BY <1>1, <1>2, <1>12, <3>3
    <3>5. except = C \/ except = t
      <4>1. CASE d = d0 /\ m0 <= m
        <5>1. ~(m < b) /\ ~(m < e)
          BY <1>1, <1>2, <1>3, <2>4, <4>1
        <5> QED  BY <1>5, <3>1, <4>1, <5>1
      <4>2. CASE d = d0 + 1 /\ m <= b
        <5>1. except = IF m < b THEN 86400 * d + 60 * b ELSE t
          BY <1>2, <1>3, <1>5, <4>2
        <5> QED  BY <1>11, <3>1, <4>2, <5>1
      <4> QED  BY <3>4, <4>1, <4>2
    <3>6. N <= C \/ N <= t
      <4>1. times.start <= C \/ times.start <= t
        BY <1>4, <3>5
      <4>2. N = Zero => N <= C
        BY <1>0 DEF Zero
      <4> QED  BY <1>9, <1>14, <4>1, <4>2
    <3> QED  BY <3>6 DEF C, N
  <2> QED  BY <2>1, <2>3, <2>4
<1> QED  BY <1>7, <1>13, <1>14

-----------------------------------------------------------------------------
(* Types. *)
States == {"begin", "pre", "start", "running", "end", "returned"}
Mgr == [state : States, master : BOOLEAN, running : BOOLEAN, due : Int, times : Times]
Since == [opened : Int, alone : Int, stray : Int, idle : Int]

Typed ==
  /\ now \in Nat /\ now <= Horizon
  /\ window \in [Queue -> Windows]
  /\ mgr \in [Manager -> Mgr] /\ check \in [Manager -> Int]
  /\ since \in [Manager -> Since]

Timely == \A m \in Manager : mgr[m].due >= now /\ check[m] >= now

LEMMA Horizons == Horizon \in Nat /\ Horizon < Never /\ Never = 86400000
<1>1. Never = 86400000
  BY DEF Never, FarFuture, Day, MinutesPerDay, Minute
<1> QED  BY <1>1, TimeAssumption DEF Never

LEMMA NowIsSoon ==
  ASSUME Typed
  PROVE  Soon(now) /\ now < Never
<1> DEFINE d == DayOf(now)
<1>1. now \in Nat /\ now < 86400000
  BY Horizons DEF Typed
<1>2. d \in Nat /\ 86400 * d <= now
  <2>1. MinuteOf(now) \in Nat /\ DayOf(now) \in Nat /\ 86400 * DayOf(now) + 60 * MinuteOf(now) <= now
    BY <1>1, Instant
  <2> DEFINE minute == MinuteOf(now)
  <2> HIDE DEF minute, d
  <2>2. d \in Nat /\ minute \in Nat /\ 86400 * d + 60 * minute <= now
    BY <2>1 DEF d, minute
  <2> QED  BY <1>1, <2>2
<1> HIDE DEF d
<1>3. d <= 1460
  BY <1>1, <1>2
<1>4. now < Never
  BY <1>1, Horizons
<1> QED  BY <1>1, <1>3, <1>4 DEF Soon, d

LEMMA ManagerParts ==
  ASSUME NEW m \in Manager
  PROVE  m[1] \in Node /\ m[2] \in Queue
BY DEF Manager

LEMMA WindowIs ==
  ASSUME Typed, NEW m \in Manager
  PROVE  window[m[2]] \in Windows /\ IsWindow(window[m[2]])
BY ManagerParts, WindowsAssumption DEF Typed

LEMMA MgrFields ==
  ASSUME Typed, NEW m \in Manager
  PROVE  /\ mgr[m] \in Mgr /\ mgr[m].state \in States /\ mgr[m].master \in BOOLEAN
         /\ mgr[m].running \in BOOLEAN /\ mgr[m].due \in Int /\ mgr[m].times \in Times
         /\ check[m] \in Int /\ since[m] \in Since
BY DEF Typed, Mgr

(* The answers of a window, and the timers set for them. *)
LEMMA TimersAhead ==
  ASSUME Typed, NEW m \in Manager
  PROVE  /\ Asked(m) \in Times /\ NextEnd(m) \in Int
         /\ PreTime(m) \in Int /\ PreTime(m) >= now
         /\ StartTime(m) \in Int /\ StartTime(m) >= now
         /\ StopTime(m) \in Int /\ StopTime(m) >= now
         /\ EndsWithinMinute(m) => StopTime(m) <= now + 60
<1>1. Asked(m) \in Times
  BY NowIsSoon, WindowIs, MgrFields, AnswersType DEF Asked
<1>2. NextStart(m) \in Int /\ NextEnd(m) \in Int
  BY <1>1, NowIsSoon, WindowIs, AnswersType DEF NextStart, NextEnd
<1>3. now \in Int
  BY DEF Typed
<1>4. PreTime(m) \in Int /\ PreTime(m) >= now
  BY <1>2, <1>3 DEF PreTime, Later
<1>5. StartTime(m) \in Int /\ StartTime(m) >= now
  BY <1>2, <1>3 DEF StartTime, Later
<1>6. StopTime(m) \in Int /\ StopTime(m) >= now
  BY <1>2, <1>3 DEF StopTime, Later
<1>7. EndsWithinMinute(m) => StopTime(m) <= now + 60
  BY <1>2, <1>3 DEF StopTime, Later, EndsWithinMinute, Minute
<1> QED  BY <1>1, <1>2, <1>4, <1>5, <1>6, <1>7

LEMMA SetTimerIs ==
  ASSUME Typed, NEW m \in Manager, NEW r \in Mgr, NEW due \in Int, SetTimer(m, r, due)
  PROVE  /\ mgr' \in [Manager -> Mgr] /\ \A k \in Manager : k # m => mgr'[k] = mgr[k]
         /\ mgr'[m].state = r.state /\ mgr'[m].master = r.master /\ mgr'[m].running = r.running
         /\ mgr'[m].due = due /\ mgr'[m].times = Asked(m)
<1> DEFINE s == [r EXCEPT !.due = due, !.times = Asked(m)]
<1>1. Asked(m) \in Times
  BY TimersAhead
<1>2. s \in Mgr /\ s.state = r.state /\ s.master = r.master /\ s.running = r.running
      /\ s.due = due /\ s.times = Asked(m)
  BY <1>1 DEF Mgr
<1>3. mgr' = [mgr EXCEPT ![m] = s]
  BY DEF SetTimer
<1> HIDE DEF s
<1> QED  BY <1>2, <1>3 DEF Typed

LEMMA SetMinuteIs ==
  ASSUME Typed, NEW m \in Manager, NEW r \in Mgr, SetMinute(m, r)
  PROVE  /\ mgr' \in [Manager -> Mgr] /\ \A k \in Manager : k # m => mgr'[k] = mgr[k]
         /\ mgr'[m].state = r.state /\ mgr'[m].master = r.master /\ mgr'[m].running = r.running
         /\ mgr'[m].due = now + 60 /\ mgr'[m].times = r.times
<1> DEFINE s == [r EXCEPT !.due = now + Minute]
<1>1. now + Minute \in Int /\ now + Minute = now + 60
  BY DEF Typed, Minute
<1>2. s \in Mgr /\ s.state = r.state /\ s.master = r.master /\ s.running = r.running
      /\ s.due = now + 60 /\ s.times = r.times
  BY <1>1 DEF Mgr
<1>3. mgr' = [mgr EXCEPT ![m] = s]
  BY DEF SetMinute
<1> HIDE DEF s
<1> QED  BY <1>2, <1>3 DEF Typed

-----------------------------------------------------------------------------
(* What a step does to its manager, field by field. *)
Keeps(m) == mgr'[m].master = mgr[m].master /\ mgr'[m].running = mgr[m].running
Closes(m) == mgr'[m].master = mgr[m].master /\ mgr'[m].running = FALSE

Moves(m) ==
  LET r == mgr[m]
      s == mgr'[m]
  IN
  \/ (* Begin *)
     /\ r.state = "begin" /\ s.state = "pre" /\ Keeps(m)
     /\ s.due = PreTime(m) /\ s.times = Asked(m) /\ check'[m] = check[m]
  \/ (* PreTimer *)
     /\ r.state = "pre" /\ s.state = "start" /\ Keeps(m)
     /\ s.due = StartTime(m) /\ s.times = Asked(m) /\ check'[m] = now + 2
  \/ (* StartTimer *)
     /\ r.state = "start" /\ s.state = "running" /\ s.master = r.master
     /\ \/ ~r.master /\ s.running = r.running
        \/ r.master /\ s.running /\ MayRun(m)
     /\ s.due = now + 60 /\ s.times = r.times /\ check'[m] = check[m]
  \/ /\ r.state = "start" /\ s.state = "end" /\ Keeps(m)
     /\ r.master /\ ~MayRun(m) /\ EndsWithinMinute(m)
     /\ s.due = StopTime(m) /\ s.times = Asked(m) /\ check'[m] = check[m]
  \/ /\ r.state = "start" /\ s.state = "start" /\ Keeps(m) /\ r.master /\ ~MayRun(m)
     /\ s.due = now + 60 /\ s.times = Asked(m) /\ check'[m] = check[m]
  \/ (* RunningTimer *)
     /\ r.state = "running" /\ s.state = "start" /\ Closes(m)
     /\ s.due = now + 60 /\ s.times = r.times /\ check'[m] = check[m]
  \/ /\ r.state = "running" /\ s.state = "end" /\ Keeps(m) /\ MayRun(m) /\ EndsWithinMinute(m)
     /\ r.due <= now /\ s.due = StopTime(m) /\ s.times = Asked(m) /\ check'[m] = check[m]
  \/ /\ r.state = "running" /\ s.state = "running" /\ Keeps(m) /\ MayRun(m) /\ ~EndsWithinMinute(m)
     /\ r.due <= now /\ s.due = now + 60 /\ s.times = Asked(m) /\ check'[m] = check[m]
  \/ (* EndTimer *)
     /\ r.state = "end" /\ r.due <= now /\ s.state = "pre" /\ Closes(m)
     /\ s.due = PreTime(m) /\ s.times = Asked(m) /\ check'[m] = Never
  \/ (* CheckOwner *)
     /\ check[m] <= now /\ check'[m] = now + 30
     /\ r.state = "returned" \/ Owns(m) = r.master
     /\ s = r
  \/ /\ check[m] <= now /\ check'[m] = now + 30
     /\ r.state # "returned" /\ Owns(m) /\ ~r.master
     /\ s.state = "start" /\ s.master /\ s.running = r.running
     /\ s.due = StartTime(m) /\ s.times = Asked(m)
  \/ /\ check[m] <= now /\ check'[m] = now + 30
     /\ r.state # "returned" /\ ~Owns(m) /\ r.master
     /\ s.state = r.state /\ ~s.master /\ ~s.running /\ s.due = r.due /\ s.times = r.times
  \/ (* DeletedAtOnce *)
     /\ s.state = "returned" /\ Keeps(m) /\ s.due = Never /\ s.times = r.times
     /\ check'[m] = check[m]
  \/ (* LeaseLost, Forgotten *)
     s = r /\ check'[m] = check[m]

StepShape(m) ==
  /\ now' = now /\ window' = window
  /\ mgr' \in [Manager -> Mgr] /\ check' \in [Manager -> Int]
  /\ \A k \in Manager : k # m => mgr'[k] = mgr[k] /\ check'[k] = check[k]
  /\ Moves(m)

LEMMA StateNames ==
  /\ "begin" \in States /\ "pre" \in States /\ "start" \in States
  /\ "running" \in States /\ "end" \in States /\ "returned" \in States
BY DEF States

LEMMA CheckAt ==
  ASSUME Typed, NEW m \in Manager, NEW n \in Int, check' = [check EXCEPT ![m] = n]
  PROVE  /\ check' \in [Manager -> Int] /\ check'[m] = n
         /\ \A k \in Manager : k # m => check'[k] = check[k]
BY DEF Typed

LEMMA BeginMoves ==
  ASSUME Typed, NEW m \in Manager, Begin(m)
  PROVE  StepShape(m)
<1> DEFINE r == [mgr[m] EXCEPT !.state = "pre"]
<1>1. /\ r \in Mgr /\ r.state = "pre" /\ r.master = mgr[m].master /\ r.running = mgr[m].running
      /\ SetTimer(m, r, PreTime(m)) /\ PreTime(m) \in Int
  <2>1. r \in Mgr /\ r.state = "pre" /\ r.master = mgr[m].master /\ r.running = mgr[m].running
    <3>1. mgr[m] \in Mgr
      BY MgrFields
    <3> QED  BY <3>1, StateNames DEF Mgr
  <2>2. SetTimer(m, r, PreTime(m))
    BY DEF Begin
  <2> HIDE DEF r
  <2> QED  BY <2>1, <2>2, TimersAhead
<1> HIDE DEF r
<1>2. /\ mgr' \in [Manager -> Mgr] /\ \A k \in Manager : k # m => mgr'[k] = mgr[k]
      /\ mgr'[m].state = r.state /\ mgr'[m].master = r.master /\ mgr'[m].running = r.running
      /\ mgr'[m].due = PreTime(m) /\ mgr'[m].times = Asked(m)
  BY <1>1, SetTimerIs
<1>3. mgr[m].state = "begin" /\ now' = now /\ window' = window /\ check' = check
  BY DEF Begin, Fires
<1> QED  BY <1>1, <1>2, <1>3 DEF StepShape, Moves, Keeps, Typed

LEMMA PreTimerMoves ==
  ASSUME Typed, NEW m \in Manager, PreTimer(m)
  PROVE  StepShape(m)
<1> DEFINE r == [mgr[m] EXCEPT !.state = "start"]
<1>1. /\ r \in Mgr /\ r.state = "start" /\ r.master = mgr[m].master /\ r.running = mgr[m].running
      /\ SetTimer(m, r, StartTime(m)) /\ StartTime(m) \in Int
  <2>1. r \in Mgr /\ r.state = "start" /\ r.master = mgr[m].master /\ r.running = mgr[m].running
    <3>1. mgr[m] \in Mgr
      BY MgrFields
    <3> QED  BY <3>1, StateNames DEF Mgr
  <2>2. SetTimer(m, r, StartTime(m))
    BY DEF PreTimer
  <2> HIDE DEF r
  <2> QED  BY <2>1, <2>2, TimersAhead
<1> HIDE DEF r
<1>2. /\ mgr' \in [Manager -> Mgr] /\ \A k \in Manager : k # m => mgr'[k] = mgr[k]
      /\ mgr'[m].state = r.state /\ mgr'[m].master = r.master /\ mgr'[m].running = r.running
      /\ mgr'[m].due = StartTime(m) /\ mgr'[m].times = Asked(m)
  BY <1>1, SetTimerIs
<1>3. mgr[m].state = "pre" /\ now' = now /\ window' = window /\ check' = [check EXCEPT ![m] = now + 2]
  BY DEF PreTimer, Fires
<1>4. /\ check' \in [Manager -> Int] /\ check'[m] = now + 2
      /\ \A k \in Manager : k # m => check'[k] = check[k]
  <2>1. now + 2 \in Int
    BY DEF Typed
  <2> QED  BY <1>3, <2>1, CheckAt
<1> QED  BY <1>1, <1>2, <1>3, <1>4 DEF StepShape, Moves, Keeps

LEMMA StartTimerMoves ==
  ASSUME Typed, NEW m \in Manager, StartTimer(m)
  PROVE  StepShape(m)
<1>1. mgr[m].state = "start" /\ now' = now /\ window' = window /\ check' = check
  BY DEF StartTimer, Fires
<1>2. check' \in [Manager -> Int]
  BY <1>1 DEF Typed
<1>3. mgr[m] \in Mgr /\ mgr[m].master \in BOOLEAN
  BY MgrFields
<1>4. CASE ~mgr[m].master
  <2> DEFINE r == [mgr[m] EXCEPT !.state = "running"]
  <2>1. /\ r \in Mgr /\ r.state = "running" /\ r.master = mgr[m].master /\ r.running = mgr[m].running
        /\ r.times = mgr[m].times
    BY <1>3, StateNames DEF Mgr
  <2>2. SetMinute(m, r)
    BY <1>4 DEF StartTimer
  <2> HIDE DEF r
  <2>3. /\ mgr' \in [Manager -> Mgr] /\ \A k \in Manager : k # m => mgr'[k] = mgr[k]
        /\ mgr'[m].state = r.state /\ mgr'[m].master = r.master /\ mgr'[m].running = r.running
        /\ mgr'[m].due = now + 60 /\ mgr'[m].times = r.times
    BY <2>1, <2>2, SetMinuteIs
  <2> QED  BY <1>1, <1>2, <1>4, <2>1, <2>3 DEF StepShape, Moves
<1>5. CASE mgr[m].master /\ MayRun(m)
  <2> DEFINE r == [mgr[m] EXCEPT !.state = "running", !.running = TRUE]
  <2>1. /\ r \in Mgr /\ r.state = "running" /\ r.master = mgr[m].master /\ r.running = TRUE
        /\ r.times = mgr[m].times
    BY <1>3, StateNames DEF Mgr
  <2>2. SetMinute(m, r)
    BY <1>5 DEF StartTimer
  <2> HIDE DEF r
  <2>3. /\ mgr' \in [Manager -> Mgr] /\ \A k \in Manager : k # m => mgr'[k] = mgr[k]
        /\ mgr'[m].state = r.state /\ mgr'[m].master = r.master /\ mgr'[m].running = r.running
        /\ mgr'[m].due = now + 60 /\ mgr'[m].times = r.times
    BY <2>1, <2>2, SetMinuteIs
  <2> QED  BY <1>1, <1>2, <1>5, <2>1, <2>3 DEF StepShape, Moves
<1>6. CASE mgr[m].master /\ ~MayRun(m) /\ EndsWithinMinute(m)
  <2> DEFINE r == [mgr[m] EXCEPT !.state = "end"]
  <2>1. /\ r \in Mgr /\ r.state = "end" /\ r.master = mgr[m].master /\ r.running = mgr[m].running
        /\ StopTime(m) \in Int
    <3>1. r \in Mgr /\ r.state = "end" /\ r.master = mgr[m].master /\ r.running = mgr[m].running
      BY <1>3, StateNames DEF Mgr
    <3> HIDE DEF r
    <3> QED  BY <3>1, TimersAhead
  <2>2. SetTimer(m, r, StopTime(m))
    BY <1>6 DEF StartTimer
  <2> HIDE DEF r
  <2>3. /\ mgr' \in [Manager -> Mgr] /\ \A k \in Manager : k # m => mgr'[k] = mgr[k]
        /\ mgr'[m].state = r.state /\ mgr'[m].master = r.master /\ mgr'[m].running = r.running
        /\ mgr'[m].due = StopTime(m) /\ mgr'[m].times = Asked(m)
    BY <2>1, <2>2, SetTimerIs
  <2> QED  BY <1>1, <1>2, <1>6, <2>1, <2>3 DEF StepShape, Moves, Keeps
<1>7. CASE mgr[m].master /\ ~MayRun(m) /\ ~EndsWithinMinute(m)
  <2>1. SetTimer(m, mgr[m], now + Minute)
    BY <1>7 DEF StartTimer
  <2>2. now + Minute \in Int /\ now + Minute = now + 60
    BY DEF Typed, Minute
  <2>3. /\ mgr' \in [Manager -> Mgr] /\ \A k \in Manager : k # m => mgr'[k] = mgr[k]
        /\ mgr'[m].state = mgr[m].state /\ mgr'[m].master = mgr[m].master
        /\ mgr'[m].running = mgr[m].running
        /\ mgr'[m].due = now + 60 /\ mgr'[m].times = Asked(m)
    BY <1>3, <2>1, <2>2, SetTimerIs
  <2> QED  BY <1>1, <1>2, <1>7, <2>3 DEF StepShape, Moves, Keeps
<1> QED  BY <1>3, <1>4, <1>5, <1>6, <1>7

LEMMA RunningTimerMoves ==
  ASSUME Typed, NEW m \in Manager, RunningTimer(m)
  PROVE  StepShape(m)
<1>1. mgr[m].state = "running" /\ mgr[m].due <= now /\ now' = now /\ window' = window /\ check' = check
  BY DEF RunningTimer, Fires
<1>2. check' \in [Manager -> Int]
  BY <1>1 DEF Typed
<1>3. mgr[m] \in Mgr
  BY MgrFields
<1>4. CASE ~MayRun(m)
  <2> DEFINE r == [mgr[m] EXCEPT !.state = "start", !.running = FALSE]
  <2>1. /\ r \in Mgr /\ r.state = "start" /\ r.master = mgr[m].master /\ r.running = FALSE
        /\ r.times = mgr[m].times
    BY <1>3, StateNames DEF Mgr
  <2>2. SetMinute(m, r)
    BY <1>4 DEF RunningTimer
  <2> HIDE DEF r
  <2>3. /\ mgr' \in [Manager -> Mgr] /\ \A k \in Manager : k # m => mgr'[k] = mgr[k]
        /\ mgr'[m].state = r.state /\ mgr'[m].master = r.master /\ mgr'[m].running = r.running
        /\ mgr'[m].due = now + 60 /\ mgr'[m].times = r.times
    BY <2>1, <2>2, SetMinuteIs
  <2> QED  BY <1>1, <1>2, <2>1, <2>3 DEF StepShape, Moves, Closes
<1>5. CASE MayRun(m) /\ EndsWithinMinute(m)
  <2> DEFINE r == [mgr[m] EXCEPT !.state = "end"]
  <2>1. /\ r \in Mgr /\ r.state = "end" /\ r.master = mgr[m].master /\ r.running = mgr[m].running
        /\ StopTime(m) \in Int
    <3>1. r \in Mgr /\ r.state = "end" /\ r.master = mgr[m].master /\ r.running = mgr[m].running
      BY <1>3, StateNames DEF Mgr
    <3> HIDE DEF r
    <3> QED  BY <3>1, TimersAhead
  <2>2. SetTimer(m, r, StopTime(m))
    BY <1>5 DEF RunningTimer
  <2> HIDE DEF r
  <2>3. /\ mgr' \in [Manager -> Mgr] /\ \A k \in Manager : k # m => mgr'[k] = mgr[k]
        /\ mgr'[m].state = r.state /\ mgr'[m].master = r.master /\ mgr'[m].running = r.running
        /\ mgr'[m].due = StopTime(m) /\ mgr'[m].times = Asked(m)
    BY <2>1, <2>2, SetTimerIs
  <2> QED  BY <1>1, <1>2, <1>5, <2>1, <2>3 DEF StepShape, Moves, Keeps
<1>6. CASE MayRun(m) /\ ~EndsWithinMinute(m)
  <2>1. SetTimer(m, mgr[m], now + Minute)
    BY <1>6 DEF RunningTimer
  <2>2. now + Minute \in Int /\ now + Minute = now + 60
    BY DEF Typed, Minute
  <2>3. /\ mgr' \in [Manager -> Mgr] /\ \A k \in Manager : k # m => mgr'[k] = mgr[k]
        /\ mgr'[m].state = mgr[m].state /\ mgr'[m].master = mgr[m].master
        /\ mgr'[m].running = mgr[m].running
        /\ mgr'[m].due = now + 60 /\ mgr'[m].times = Asked(m)
    BY <1>3, <2>1, <2>2, SetTimerIs
  <2> QED  BY <1>1, <1>2, <1>6, <2>3 DEF StepShape, Moves, Keeps
<1> QED  BY <1>4, <1>5, <1>6

LEMMA EndTimerMoves ==
  ASSUME Typed, NEW m \in Manager, EndTimer(m)
  PROVE  StepShape(m)
<1> DEFINE r == [mgr[m] EXCEPT !.state = "pre", !.running = FALSE]
<1>1. /\ r \in Mgr /\ r.state = "pre" /\ r.master = mgr[m].master /\ r.running = FALSE
      /\ SetTimer(m, r, PreTime(m)) /\ PreTime(m) \in Int
  <2>1. r \in Mgr /\ r.state = "pre" /\ r.master = mgr[m].master /\ r.running = FALSE
    <3>1. mgr[m] \in Mgr
      BY MgrFields
    <3> QED  BY <3>1, StateNames DEF Mgr
  <2>2. SetTimer(m, r, PreTime(m))
    BY DEF EndTimer
  <2> HIDE DEF r
  <2> QED  BY <2>1, <2>2, TimersAhead
<1> HIDE DEF r
<1>2. /\ mgr' \in [Manager -> Mgr] /\ \A k \in Manager : k # m => mgr'[k] = mgr[k]
      /\ mgr'[m].state = r.state /\ mgr'[m].master = r.master /\ mgr'[m].running = r.running
      /\ mgr'[m].due = PreTime(m) /\ mgr'[m].times = Asked(m)
  BY <1>1, SetTimerIs
<1>3. /\ mgr[m].state = "end" /\ mgr[m].due <= now
      /\ now' = now /\ window' = window /\ check' = [check EXCEPT ![m] = Never]
  BY DEF EndTimer, Fires
<1>4. /\ check' \in [Manager -> Int] /\ check'[m] = Never
      /\ \A k \in Manager : k # m => check'[k] = check[k]
  <2>1. Never \in Int
    BY Horizons
  <2> QED  BY <1>3, <2>1, CheckAt
<1> QED  BY <1>1, <1>2, <1>3, <1>4 DEF StepShape, Moves, Closes

LEMMA CheckOwnerMoves ==
  ASSUME Typed, NEW m \in Manager, CheckOwner(m)
  PROVE  StepShape(m)
<1>1. check[m] <= now /\ now' = now /\ window' = window /\ check' = [check EXCEPT ![m] = now + 30]
  BY DEF CheckOwner
<1>2. /\ check' \in [Manager -> Int] /\ check'[m] = now + 30
      /\ \A k \in Manager : k # m => check'[k] = check[k]
  <2>1. now + 30 \in Int
    BY DEF Typed
  <2> QED  BY <1>1, <2>1, CheckAt
<1>3. mgr[m] \in Mgr /\ mgr[m].master \in BOOLEAN /\ Owns(m) \in BOOLEAN
  BY MgrFields DEF Owns
<1>4. CASE mgr[m].state = "returned" \/ Owns(m) = mgr[m].master
  <2>1. mgr' = mgr
    BY <1>3, <1>4 DEF CheckOwner, Owns
  <2> QED  BY <1>1, <1>2, <1>4, <2>1 DEF StepShape, Moves, Typed
<1>5. CASE mgr[m].state # "returned" /\ Owns(m) /\ ~mgr[m].master
  <2> DEFINE r == [mgr[m] EXCEPT !.master = TRUE, !.state = "start"]
  <2>1. r \in Mgr /\ r.state = "start" /\ r.master = TRUE /\ r.running = mgr[m].running
    BY <1>3, StateNames DEF Mgr
  <2>2. SetTimer(m, r, StartTime(m))
    BY <1>5 DEF CheckOwner, Owns
  <2> HIDE DEF r
  <2>3. /\ mgr' \in [Manager -> Mgr] /\ \A k \in Manager : k # m => mgr'[k] = mgr[k]
        /\ mgr'[m].state = r.state /\ mgr'[m].master = r.master /\ mgr'[m].running = r.running
        /\ mgr'[m].due = StartTime(m) /\ mgr'[m].times = Asked(m)
    BY <2>1, <2>2, TimersAhead, SetTimerIs
  <2> QED  BY <1>1, <1>2, <1>5, <2>1, <2>3 DEF StepShape, Moves
<1>6. CASE mgr[m].state # "returned" /\ ~Owns(m) /\ mgr[m].master
  <2> DEFINE s == [mgr[m] EXCEPT !.master = FALSE, !.running = FALSE]
  <2>1. /\ s \in Mgr /\ s.state = mgr[m].state /\ s.master = FALSE /\ s.running = FALSE
        /\ s.due = mgr[m].due /\ s.times = mgr[m].times
    BY <1>3 DEF Mgr
  <2>2. mgr' = [mgr EXCEPT ![m] = s]
    BY <1>6 DEF CheckOwner, Owns
  <2> HIDE DEF s
  <2>3. mgr' \in [Manager -> Mgr] /\ mgr'[m] = s /\ \A k \in Manager : k # m => mgr'[k] = mgr[k]
    BY <2>1, <2>2 DEF Typed
  <2> QED  BY <1>1, <1>2, <1>6, <2>1, <2>3 DEF StepShape, Moves
<1> QED  BY <1>3, <1>4, <1>5, <1>6

LEMMA FaultMoves ==
  ASSUME Typed, NEW m \in Manager, LeaseLost(m) \/ DeletedAtOnce(m) \/ Forgotten(m)
  PROVE  StepShape(m)
<1>1. CASE LeaseLost(m) \/ Forgotten(m)
  <2>1. now' = now /\ window' = window /\ check' = check /\ mgr' = mgr
    BY <1>1 DEF LeaseLost, Forgotten
  <2> QED  BY <2>1 DEF StepShape, Moves, Typed
<1>2. CASE DeletedAtOnce(m)
  <2> DEFINE s == [mgr[m] EXCEPT !.state = "returned", !.due = Never]
  <2>1. /\ s \in Mgr /\ s.state = "returned" /\ s.master = mgr[m].master
        /\ s.running = mgr[m].running /\ s.due = Never /\ s.times = mgr[m].times
    <3>1. mgr[m] \in Mgr
      BY MgrFields
    <3>2. Never \in Int
      BY Horizons
    <3> QED  BY <3>1, <3>2, StateNames DEF Mgr
  <2>2. mgr' = [mgr EXCEPT ![m] = s] /\ now' = now /\ window' = window /\ check' = check
    BY <1>2 DEF DeletedAtOnce
  <2> HIDE DEF s
  <2>3. mgr' \in [Manager -> Mgr] /\ mgr'[m] = s /\ \A k \in Manager : k # m => mgr'[k] = mgr[k]
    BY <2>1, <2>2 DEF Typed
  <2> QED  BY <2>1, <2>2, <2>3 DEF StepShape, Moves, Keeps, Typed
<1> QED  BY <1>1, <1>2

LEMMA StepMoves ==
  ASSUME Typed, NEW m \in Manager, Step(m)
  PROVE  StepShape(m)
BY BeginMoves, PreTimerMoves, StartTimerMoves, RunningTimerMoves, EndTimerMoves,
   CheckOwnerMoves, FaultMoves DEF Step

-----------------------------------------------------------------------------
(* Time goes on to the next timer. *)
LEMMA TickIs ==
  ASSUME Typed, Timely, Tick
  PROVE  /\ now' \in Nat /\ now < now' /\ now' <= Horizon
         /\ \A m \in Manager : now' <= mgr[m].due /\ now' <= check[m]
         /\ window' = window /\ mgr' = mgr /\ check' = check
<1>1. Dues # {}
  <2>1. PICK n \in Node, q \in Queue : TRUE
    BY ManagerAssumption
  <2>2. <<n, q>> \in Manager
    BY DEF Manager
  <2> QED  BY <2>2 DEF Dues
<1>2. Dues \subseteq Nat
  <2>1. now \in Nat
    BY DEF Typed
  <2>2. \A m \in Manager : mgr[m].due \in Nat /\ check[m] \in Nat
    <3>1. SUFFICES ASSUME NEW m \in Manager PROVE mgr[m].due \in Nat /\ check[m] \in Nat
      OBVIOUS
    <3>2. mgr[m].due \in Int /\ check[m] \in Int /\ mgr[m].due >= now /\ check[m] >= now
      BY MgrFields DEF Timely
    <3> DEFINE a == mgr[m].due
               b == check[m]
    <3> HIDE DEF a, b
    <3>3. a \in Nat /\ b \in Nat
      BY <2>1, <3>2 DEF a, b
    <3> QED  BY <3>3 DEF a, b
  <2> QED  BY <2>2 DEF Dues
<1>3. PICK d \in Dues : \A e \in Dues : d <= e
  <2>1. PICK d \in Dues : \A e \in Dues : ~(<<e, d>> \in OpToRel(<, Nat))
    BY <1>1, <1>2, NatLessThanWellFounded, WFMin
  <2>2. \A e \in Dues : ~(e < d)
    BY <1>2, <2>1 DEF OpToRel
  <2> QED  BY <1>2, <2>2
<1>4. now' \in Dues /\ \A e \in Dues : now' <= e
  BY <1>3 DEF Tick
<1>5. now < now' /\ now' <= Horizon /\ window' = window /\ mgr' = mgr /\ check' = check
  BY <1>4 DEF Tick
<1>6. \A m \in Manager : mgr[m].due \in Dues /\ check[m] \in Dues
  BY DEF Dues
<1> QED  BY <1>2, <1>4, <1>5, <1>6

-----------------------------------------------------------------------------
(* Types, and that no timer is overdue. *)
LEMMA HistoryType ==
  ASSUME Typed, now' \in Nat, History
  PROVE  since' \in [Manager -> Since]
<1>1. ASSUME NEW m \in Manager PROVE since'[m] \in Since
  <2>1. since[m] \in Since
    BY MgrFields
  <2>2. since[m].opened \in Int /\ since[m].alone \in Int /\ since[m].stray \in Int /\ since[m].idle \in Int
    BY <2>1 DEF Since
  <2>3. now \in Int /\ now' \in Int /\ Never \in Int
    BY Horizons DEF Typed
  <2> DEFINE opened == IF Open(m)' /\ ~Open(m) THEN now ELSE since[m].opened
             alone == Begun(Open(m)' /\ ~Contained(m)', since[m].alone)
             stray == Begun(Open(m)' /\ ~Owns(m)', since[m].stray)
             idle == Begun(Idle(m)', since[m].idle)
  <2>5. opened \in Int
    BY <2>2, <2>3
  <2>6. alone \in Int
    BY <2>2, <2>3 DEF Begun
  <2>7. stray \in Int
    BY <2>2, <2>3 DEF Begun
  <2>8. idle \in Int
    BY <2>2, <2>3 DEF Begun
  <2>9. since'[m] = [opened |-> opened, alone |-> alone, stray |-> stray, idle |-> idle]
    BY DEF History
  <2> HIDE DEF opened, alone, stray, idle
  <2> QED  BY <2>5, <2>6, <2>7, <2>8, <2>9 DEF Since
<1>2. since' = [m \in Manager |-> since'[m]]
  BY DEF History
<1> QED  BY <1>1, <1>2

(* What the states of a manager mean: it does not run the queue before the  *)
(* window is there; its monitor is off until it has registered, and looks   *)
(* every half minute from then on; only an owner runs a queue; and a        *)
(* manager that may be running one looks again within a minute.             *)
StateInv(m) ==
  /\ mgr[m].state \in {"begin", "pre", "start"} => ~mgr[m].running
  /\ mgr[m].state \in {"begin", "pre"} => check[m] = Never
  /\ mgr[m].state \in {"start", "running", "end"} => check[m] <= now + 30
  /\ mgr[m].running /\ mgr[m].state # "returned" => mgr[m].master
  /\ mgr[m].state \in {"running", "end"} => mgr[m].due <= now + 60

LEMMA StepTyped ==
  ASSUME Typed, NEW m \in Manager, StepShape(m), History
  PROVE  Typed'
<1>1. now' = now /\ now \in Nat /\ now <= Horizon /\ window' = window
  BY DEF StepShape, Typed
<1>2. since' \in [Manager -> Since]
  BY <1>1, HistoryType
<1> QED  BY <1>1, <1>2 DEF StepShape, Typed

LEMMA StepTimely ==
  ASSUME Typed, Timely, NEW m \in Manager, StepShape(m), StateInv(m)
  PROVE  Timely' /\ StateInv(m)'
<1>1. /\ mgr[m].state \in States /\ mgr[m].master \in BOOLEAN /\ mgr[m].running \in BOOLEAN
      /\ mgr[m].due \in Int /\ check[m] \in Int /\ mgr[m].due >= now /\ check[m] >= now
  BY MgrFields DEF Timely
<1>2. /\ PreTime(m) \in Int /\ PreTime(m) >= now /\ StartTime(m) \in Int /\ StartTime(m) >= now
      /\ StopTime(m) \in Int /\ StopTime(m) >= now /\ (EndsWithinMinute(m) => StopTime(m) <= now + 60)
  BY TimersAhead
<1>3. now \in Nat /\ Never \in Nat /\ now < Never /\ now' = now
  BY NowIsSoon, Horizons DEF Typed, StepShape
<1>4. Moves(m)
  BY DEF StepShape
<1>5. mgr'[m].due >= now /\ check'[m] >= now
  BY <1>1, <1>2, <1>3, <1>4 DEF Moves
<1>6. Timely'
  <2>1. ASSUME NEW k \in Manager, k # m PROVE mgr'[k].due >= now /\ check'[k] >= now
    BY <2>1 DEF StepShape, Timely
  <2> QED  BY <1>3, <1>5, <2>1 DEF Timely
<1>7. mgr'[m].state \in {"begin", "pre", "start"} => ~mgr'[m].running
  BY <1>1, <1>3, <1>4 DEF Moves, Keeps, Closes, StateInv, States
<1>8. mgr'[m].state \in {"begin", "pre"} => check'[m] = Never
  BY <1>1, <1>3, <1>4 DEF Moves, StateInv, States
<1>9. mgr'[m].state \in {"start", "running", "end"} => check'[m] <= now + 30
  BY <1>1, <1>3, <1>4 DEF Moves, StateInv, States
<1>10. mgr'[m].running /\ mgr'[m].state # "returned" => mgr'[m].master
  BY <1>1, <1>3, <1>4 DEF Moves, Keeps, Closes, StateInv, States
<1>11. mgr'[m].state \in {"running", "end"} => mgr'[m].due <= now + 60
  BY <1>1, <1>2, <1>3, <1>4 DEF Moves, StateInv, States
<1>12. StateInv(m)'
  BY <1>3, <1>7, <1>8, <1>9, <1>10, <1>11 DEF StateInv
<1> QED  BY <1>6, <1>12

LEMMA TickTimely ==
  ASSUME Typed, Timely, \A m \in Manager : StateInv(m), Tick, History
  PROVE  Typed' /\ Timely' /\ \A m \in Manager : StateInv(m)'
<1>1. /\ now' \in Nat /\ now < now' /\ now' <= Horizon
      /\ \A m \in Manager : now' <= mgr[m].due /\ now' <= check[m]
      /\ window' = window /\ mgr' = mgr /\ check' = check
  BY TickIs
<1>2. Typed'
  BY <1>1, HistoryType DEF Typed
<1>3. Timely'
  <2>1. SUFFICES ASSUME NEW m \in Manager PROVE mgr'[m].due >= now' /\ check'[m] >= now'
    BY DEF Timely
  <2>2. mgr[m].due \in Int /\ check[m] \in Int /\ now' <= mgr[m].due /\ now' <= check[m]
    BY <1>1, MgrFields
  <2> QED  BY <1>1, <2>2
<1>4. ASSUME NEW m \in Manager PROVE StateInv(m)'
  <2>1. mgr[m].due \in Int /\ check[m] \in Int /\ now \in Nat
    BY MgrFields DEF Typed
  <2> QED  BY <1>1, <2>1 DEF StateInv
<1> QED  BY <1>2, <1>3, <1>4

LEMMA OthersStateKept ==
  ASSUME Typed, NEW m \in Manager, StepShape(m), NEW k \in Manager, k # m, StateInv(k)
  PROVE  StateInv(k)'
<1>1. mgr'[k] = mgr[k] /\ check'[k] = check[k] /\ now' = now
  BY DEF StepShape
<1> QED  BY <1>1 DEF StateInv

(* The invariant of the timers. *)
TimerInv == Typed /\ Timely /\ \A m \in Manager : StateInv(m)

LEMMA TimerInvInit == Init => TimerInv
<1> SUFFICES ASSUME Init PROVE TimerInv
  OBVIOUS
<1>1. now \in Nat /\ now <= Horizon /\ Never \in Nat /\ now < Never
  <2>1. now \in 0 .. Horizon
    BY TimeAssumption DEF Init
  <2> QED  BY <2>1, Horizons
<1>2. ASSUME NEW m \in Manager
      PROVE  /\ mgr[m] \in Mgr /\ mgr[m].state = "begin" /\ mgr[m].running = FALSE /\ mgr[m].due = now
             /\ check[m] = Never /\ check[m] \in Int /\ since[m] \in Since
  <2> DEFINE r == [NewManager EXCEPT !.due = now]
  <2>1. Zero \in Int
    BY DEF Zero
  <2>2. r \in Mgr /\ r.state = "begin" /\ r.running = FALSE /\ r.due = now
    <3> DEFINE none == [start |-> Zero, end |-> Zero]
    <3>1. none \in Times
      BY <2>1 DEF Times
    <3>2. NewManager \in Mgr /\ NewManager.state = "begin" /\ NewManager.running = FALSE
      BY <1>1, <3>1, StateNames DEF NewManager, Mgr
    <3> QED  BY <1>1, <3>2 DEF Mgr
  <2>3. mgr[m] = r /\ check[m] = Never
    BY DEF Init
  <2> HIDE DEF r
  <2>4. since[m] \in Since
    BY <1>1 DEF Init, Since
  <2> QED  BY <1>1, <2>2, <2>3, <2>4
<1>3. Typed
  <2>1. /\ window \in [Queue -> Windows] /\ mgr = [m \in Manager |-> mgr[m]]
        /\ check = [m \in Manager |-> check[m]] /\ since = [m \in Manager |-> since[m]]
    BY DEF Init
  <2>2. mgr \in [Manager -> Mgr]
    BY <1>2, <2>1
  <2>3. check \in [Manager -> Int]
    BY <1>2, <2>1
  <2>4. since \in [Manager -> Since]
    BY <1>2, <2>1
  <2>5. window \in [Queue -> Windows]
    BY DEF Init
  <2>6. now \in Nat /\ now <= Horizon
    BY <1>1
  <2> QED  BY <2>2, <2>3, <2>4, <2>5, <2>6 DEF Typed
<1>4. Timely
  <2>1. SUFFICES ASSUME NEW m \in Manager PROVE mgr[m].due >= now /\ check[m] >= now
    BY DEF Timely
  <2>2. mgr[m].due = now /\ check[m] = Never
    BY <1>2
  <2> QED  BY <1>1, <2>2
<1>5. \A m \in Manager : StateInv(m)
  BY <1>2 DEF StateInv
<1> QED  BY <1>3, <1>4, <1>5 DEF TimerInv

LEMMA TimerInvNext ==
  ASSUME TimerInv, [Next]_vars
  PROVE  TimerInv'
<1>1. CASE Tick /\ History
  BY <1>1, TickTimely DEF TimerInv
<1>2. ASSUME NEW m \in Manager, Step(m), History
      PROVE  TimerInv'
  <2>1. StepShape(m)
    BY <1>2, StepMoves DEF TimerInv
  <2>2. Typed' /\ Timely' /\ StateInv(m)'
    BY <1>2, <2>1, StepTyped, StepTimely DEF TimerInv
  <2>3. ASSUME NEW k \in Manager, k # m PROVE StateInv(k)'
    BY <1>2, <2>1, <2>3, OthersStateKept DEF TimerInv
  <2> QED  BY <2>2, <2>3 DEF TimerInv
<1>3. CASE UNCHANGED vars
  <2>1. now' = now /\ window' = window /\ mgr' = mgr /\ check' = check /\ since' = since
    BY <1>3 DEF vars, mechanism
  <2> QED  BY <2>1 DEF TimerInv, Typed, Timely, StateInv
<1> QED  BY <1>1, <1>2, <1>3 DEF Next

(* No timer of a manager is overdue, whatever the windows answer, and each   *)
(* state of a manager has the timers that the cases of its select rely on    *)
(* (queue_manager.go, the resets of the timers and of the monitor).          *)
THEOREM Timers == Spec => []TimerInv
<1>1. Init => TimerInv
  BY TimerInvInit
<1>2. TimerInv /\ [Next]_vars => TimerInv'
  BY TimerInvNext
<1> QED  BY <1>1, <1>2, PTL DEF Spec

(* What the history records of a manager. *)
LEMMA HistoryIs ==
  ASSUME History, NEW k \in Manager
  PROVE  /\ since'[k].opened = (IF Open(k)' /\ ~Open(k) THEN now ELSE since[k].opened)
         /\ since'[k].alone = (IF ~(Open(k)' /\ ~Contained(k)') THEN Never
                               ELSE IF since[k].alone = Never THEN now' ELSE since[k].alone)
         /\ since'[k].stray = (IF ~(Open(k)' /\ ~Owns(k)') THEN Never
                               ELSE IF since[k].stray = Never THEN now' ELSE since[k].stray)
BY DEF History, Begun

LEMMA SinceFields ==
  ASSUME Typed, NEW k \in Manager
  PROVE  since[k].opened \in Int /\ since[k].alone \in Int /\ since[k].stray \in Int
BY DEF Typed, Since

LEMMA OpenStates ==
  ASSUME Typed, NEW k \in Manager, StateInv(k), Open(k)
  PROVE  mgr[k].state \in {"running", "end"} /\ mgr[k].master /\ mgr[k].running
BY MgrFields DEF StateInv, Open, States

-----------------------------------------------------------------------------
(* A queue that a manager runs without owning it. *)
StrayInv(k) ==
  since[k].stray # Never =>
    Open(k) /\ ~Owns(k) /\ check[k] <= since[k].stray + 30

(* As long as it stays open, nothing puts off the next look of its monitor, *)
(* which closes it.                                                         *)
LEMMA CheckKept ==
  ASSUME Typed, NEW m \in Manager, StepShape(m), NEW k \in Manager, StateInv(k),
         Open(k), ~Owns(k), Open(k)'
  PROVE  check'[k] = check[k]
<1>1. CASE k # m
  BY <1>1 DEF StepShape
<1>2. CASE k = m
  <2>1. mgr[k].state \in {"running", "end"} /\ mgr[k].master /\ mgr[k].running
    BY OpenStates
  <2>2. mgr'[k].running /\ mgr'[k].state # "returned"
    BY DEF Open
  <2>3. Moves(k)
    BY <1>2 DEF StepShape
  <2>4. mgr[k].master \in BOOLEAN /\ Owns(k) = FALSE
    BY MgrFields DEF Owns
  <2> QED  BY <2>1, <2>2, <2>3, <2>4 DEF Moves, Keeps, Closes
<1> QED  BY <1>1, <1>2

LEMMA StrayStep ==
  ASSUME TimerInv, TimerInv', History, NEW k \in Manager, StrayInv(k), now <= now',
         Open(k) /\ ~Owns(k) /\ Open(k)' => check'[k] = check[k]
  PROVE  StrayInv(k)'
<1>1. SUFFICES ASSUME since'[k].stray # Never
               PROVE  Open(k)' /\ ~Owns(k)' /\ check'[k] <= since'[k].stray + 30
  BY DEF StrayInv
<1>2. Open(k)' /\ ~Owns(k)'
  BY <1>1, HistoryIs
<1>3. CASE since[k].stray = Never
  <2>1. since'[k].stray = now'
    BY <1>2, <1>3, HistoryIs
  <2>2. check'[k] <= now' + 30
    <3>1. Typed' /\ StateInv(k)'
      BY DEF TimerInv
    <3>2. mgr'[k].state \in {"running", "end"}
      <4>1. mgr'[k].state \in States /\ mgr'[k].running /\ mgr'[k].state # "returned"
        BY <1>2, <3>1 DEF Typed, Mgr, Open
      <4> QED  BY <3>1, <4>1 DEF StateInv, States
    <3> QED  BY <3>1, <3>2 DEF StateInv
  <2> QED  BY <1>2, <2>1, <2>2
<1>4. CASE since[k].stray # Never
  <2>1. since'[k].stray = since[k].stray
    BY <1>2, <1>4, HistoryIs
  <2>2. Open(k) /\ ~Owns(k) /\ check[k] <= since[k].stray + 30
    BY <1>4 DEF StrayInv
  <2> QED  BY <1>2, <2>1, <2>2
<1> QED  BY <1>3, <1>4

LEMMA StrayInvNext ==
  ASSUME TimerInv, TimerInv', [Next]_vars, \A k \in Manager : StrayInv(k)
  PROVE  \A k \in Manager : StrayInv(k)'
<1>1. CASE Tick /\ History
  <2>1. now <= now' /\ check' = check
    BY <1>1, TickIs DEF TimerInv, Typed
  <2> QED  BY <1>1, <2>1, StrayStep
<1>2. ASSUME NEW m \in Manager, Step(m), History
      PROVE  \A k \in Manager : StrayInv(k)'
  <2>1. StepShape(m)
    BY <1>2, StepMoves DEF TimerInv
  <2>2. ASSUME NEW k \in Manager PROVE StrayInv(k)'
    <3>1. Open(k) /\ ~Owns(k) /\ Open(k)' => check'[k] = check[k]
      BY <2>1, CheckKept DEF TimerInv
    <3>2. now <= now'
      BY <2>1 DEF StepShape, TimerInv, Typed
    <3> QED  BY <1>2, <3>1, <3>2, StrayStep
  <2> QED  BY <2>2
<1>3. CASE UNCHANGED vars
  BY <1>3 DEF vars, mechanism, StrayInv, Open, Owns
<1> QED  BY <1>1, <1>2, <1>3 DEF Next

LEMMA StrayBound ==
  ASSUME TimerInv, \A k \in Manager : StrayInv(k)
  PROVE  StrayCloses
<1> SUFFICES ASSUME NEW m \in Manager PROVE now <= since[m].stray + 30
  BY DEF StrayCloses
<1>1. now \in Nat /\ now < Never /\ Never \in Nat /\ since[m].stray \in Int /\ check[m] \in Int
  BY NowIsSoon, Horizons, SinceFields, MgrFields DEF TimerInv, Typed
<1>2. check[m] >= now
  BY DEF TimerInv, Timely
<1> QED  BY <1>1, <1>2 DEF StrayInv

(* A node stops executing a queue within 30 seconds of losing it to another, *)
(* whatever becomes of the keys meanwhile (queue_manager.go, isMaster).      *)
THEOREM StraysClose == Spec => []StrayCloses
<1>1. Init => \A k \in Manager : StrayInv(k)
  BY DEF Init, StrayInv
<1>2. TimerInv /\ TimerInv' /\ [Next]_vars /\ (\A k \in Manager : StrayInv(k))
        => (\A k \in Manager : StrayInv(k))'
  BY StrayInvNext
<1>3. TimerInv /\ (\A k \in Manager : StrayInv(k)) => StrayCloses
  BY StrayBound
<1> QED  BY <1>1, <1>2, <1>3, Timers, PTL DEF Spec

-----------------------------------------------------------------------------
(* shouldRun goes up the path one name at a time: it finds what Contained    *)
(* says of all of them at once.                                              *)
OpenUpTo(n, p) ==
  \A i \in 1 .. Len(p) : KnownAt(n, SubSeq(p, 1, i)) = {} \/ OpenAt(n, SubSeq(p, 1, i))

LEMMA PathParts ==
  ASSUME NEW p \in Path, p # Root
  PROVE  /\ p \in Seq(ToSet(p)) /\ Len(p) \in Nat /\ Len(p) >= 1
         /\ Front(p) \in Path /\ Len(Front(p)) = Len(p) - 1
         /\ SubSeq(p, 1, Len(p)) = p
         /\ \A i \in 1 .. Len(p) - 1 : SubSeq(Front(p), 1, i) = SubSeq(p, 1, i)
<1> DEFINE S == ToSet(p)
<1>1. p \in Seq(S) /\ Front(p) \in Path
  BY PathAssumption
<1> HIDE DEF S
<1>2. Len(p) \in Nat /\ Len(p) >= 1
  BY <1>1 DEF Root
<1>3. Front(p) = SubSeq(p, 1, Len(p) - 1)
  BY DEF Front
<1>4. Len(Front(p)) = Len(p) - 1 /\ Front(p) \in Seq(S)
  <2>1. \A i \in 1 .. Len(p) - 1 : p[i] \in S
    BY <1>1, <1>2
  <2> DEFINE l == Len(p) - 1
  <2>2. l \in Nat
    BY <1>2
  <2> HIDE DEF l
  <2>3. SubSeq(p, 1, l) \in Seq(S) /\ Len(SubSeq(p, 1, l)) = IF 1 <= l THEN l - 1 + 1 ELSE 0
    <3>1. l \in Int /\ 1 \in Int /\ \A i \in 1 .. l : p[i] \in S
      BY <2>1, <2>2 DEF l
    <3> QED  BY <3>1, SubSeqProperties
  <2>4. Len(SubSeq(p, 1, l)) = l
    BY <2>2, <2>3
  <2>5. Front(p) = SubSeq(p, 1, l)
    BY <1>3 DEF l
  <2>6. Len(Front(p)) = l /\ Front(p) \in Seq(S)
    BY <2>3, <2>4, <2>5
  <2> QED  BY <2>6 DEF l
<1>5. SubSeq(p, 1, Len(p)) = p
  BY <1>1, <1>2
<1>6. ASSUME NEW i \in 1 .. Len(p) - 1
      PROVE  SubSeq(Front(p), 1, i) = SubSeq(p, 1, i)
  BY <1>1, <1>2, <1>3, <1>4
<1> QED  BY <1>1, <1>2, <1>4, <1>5, <1>6 DEF S

LEMMA UpOne ==
  ASSUME NEW n, NEW p \in Path
  PROVE  OpenUpTo(n, p) <=>
           (p = Root \/ ((KnownAt(n, p) = {} \/ OpenAt(n, p)) /\ OpenUpTo(n, Front(p))))
<1> DEFINE Ok(q) == KnownAt(n, q) = {} \/ OpenAt(n, q)
<1>0. OpenUpTo(n, p) <=> \A i \in 1 .. Len(p) : Ok(SubSeq(p, 1, i))
  BY DEF OpenUpTo
<1>00. OpenUpTo(n, Front(p)) <=> \A i \in 1 .. Len(Front(p)) : Ok(SubSeq(Front(p), 1, i))
  BY DEF OpenUpTo
<1> HIDE DEF Ok
<1>1. CASE p = Root
  <2>1. Len(p) = 0
    BY <1>1 DEF Root
  <2> QED  BY <1>0, <1>1, <2>1
<1>2. CASE p # Root
  <2>1. /\ Len(p) \in Nat /\ Len(p) >= 1 /\ Len(Front(p)) = Len(p) - 1
        /\ SubSeq(p, 1, Len(p)) = p
        /\ \A i \in 1 .. Len(p) - 1 : SubSeq(Front(p), 1, i) = SubSeq(p, 1, i)
    BY <1>2, PathParts
  <2>2. (\A i \in 1 .. Len(p) : Ok(SubSeq(p, 1, i)))
          <=> Ok(SubSeq(p, 1, Len(p))) /\ \A i \in 1 .. Len(p) - 1 : Ok(SubSeq(p, 1, i))
    BY <2>1
  <2>3. (\A i \in 1 .. Len(p) - 1 : Ok(SubSeq(p, 1, i)))
          <=> \A i \in 1 .. Len(Front(p)) : Ok(SubSeq(Front(p), 1, i))
    BY <2>1
  <2>4. OpenUpTo(n, p) <=> Ok(p) /\ OpenUpTo(n, Front(p))
    BY <1>0, <1>00, <2>1, <2>2, <2>3
  <2> QED  BY <1>2, <2>4 DEF Ok
<1> QED  BY <1>1, <1>2

LEMMA ShouldRunIs ==
  ASSUME NEW n, NEW path \in Path
  PROVE  shouldRun(n, path) <=> OpenUpTo(n, path)
<1> DEFINE Ok(q) == KnownAt(n, q) = {} \/ OpenAt(n, q)
           Rec(f) == f = [p \in Path |-> p = Root \/ (Ok(p) /\ f[Front(p)])]
           open == [p \in Path |-> OpenUpTo(n, p)]
           at == CHOOSE f : Rec(f)
<1>1. shouldRun(n, path) = at[path]
  BY DEF shouldRun
<1>2. Rec(open)
  <2>1. ASSUME NEW p \in Path
        PROVE  OpenUpTo(n, p) = (p = Root \/ (Ok(p) /\ open[Front(p)]))
    <3>1. CASE p = Root
      <4>1. OpenUpTo(n, p)
        BY <3>1, UpOne
      <4>2. OpenUpTo(n, p) \in BOOLEAN
        BY DEF OpenUpTo
      <4> QED  BY <3>1, <4>1, <4>2
    <3>2. CASE p # Root
      <4>1. Front(p) \in Path
        BY <3>2, PathParts
      <4>2. open[Front(p)] = OpenUpTo(n, Front(p))
        BY <4>1
      <4>3. OpenUpTo(n, p) <=> Ok(p) /\ OpenUpTo(n, Front(p))
        BY <3>2, UpOne
      <4>4. OpenUpTo(n, p) \in BOOLEAN
        BY DEF OpenUpTo
      <4> HIDE DEF open, Ok
      <4> QED  BY <3>2, <4>2, <4>3, <4>4
    <3> QED  BY <3>1, <3>2
  <2> QED  BY <2>1
<1>3. Rec(at)
  BY <1>2
<1> HIDE DEF at, Ok
<1>4. ASSUME NEW p \in Path
      PROVE  at[p] <=> OpenUpTo(n, p)
  <2> DEFINE Wrong == {q \in Path : ~(at[q] <=> OpenUpTo(n, q))}
             Lengths == {Len(q) : q \in Wrong}
  <2>1. Lengths \subseteq Nat
    <3>1. ASSUME NEW q \in Path PROVE Len(q) \in Nat
      <4>1. q \in Seq(ToSet(q))
        BY PathAssumption
      <4> QED  BY <4>1
    <3> QED  BY <3>1
  <2>2. SUFFICES ASSUME Wrong # {} PROVE FALSE
    OBVIOUS
  <2>3. PICK l \in Lengths : \A k \in Lengths : ~(<<k, l>> \in OpToRel(<, Nat))
    <3>1. Lengths # {}
      BY <2>2
    <3> HIDE DEF Lengths
    <3> QED  BY <2>1, <3>1, NatLessThanWellFounded, WFMin
  <2>4. PICK q \in Wrong : l = Len(q)
    BY <2>3
  <2>5. \A r \in Wrong : ~(Len(r) < Len(q))
    BY <2>1, <2>3, <2>4 DEF OpToRel
  <2>6. at[q] <=> (q = Root \/ (Ok(q) /\ at[Front(q)]))
    <3>1. q \in Path
      BY <2>4
    <3> HIDE DEF Wrong
    <3> QED  BY <1>3, <3>1
  <2>7. q # Root
    BY <2>4, <2>6, UpOne
  <2>8. Front(q) \in Path /\ Len(Front(q)) < Len(q)
    <3>1. q \in Path
      BY <2>4
    <3>2. Len(q) \in Nat /\ Front(q) \in Path /\ Len(Front(q)) = Len(q) - 1
      BY <2>7, <3>1, PathParts
    <3> QED  BY <3>2
  <2>9. at[Front(q)] <=> OpenUpTo(n, Front(q))
    BY <2>5, <2>8
  <2>10. OpenUpTo(n, q) <=> Ok(q) /\ OpenUpTo(n, Front(q))
    BY <2>4, <2>7, UpOne DEF Ok
  <2> QED  BY <2>4, <2>6, <2>7, <2>9, <2>10
<1> QED  BY <1>1, <1>4

LEMMA MayRunIsContained ==
  ASSUME NEW m \in Manager, MayRun(m)
  PROVE  Contained(m)
<1>1. SUFFICES ASSUME Paths(m[2]) # <<>>, NEW a \in Above(Last(Paths(m[2])))
               PROVE  KnownAt(m[1], a) = {} \/ OpenAt(m[1], a)
  BY DEF Contained
<1> DEFINE p == Last(Paths(m[2]))
<1>2. p \in Path
  <2>1. Paths(m[2]) \in Seq(Path)
    BY ManagerParts, PathsAssumption
  <2> QED  BY <1>1, <2>1 DEF Last
<1>3. PICK i \in 1 .. Len(p) - 1 : a = SubSeq(p, 1, i)
  BY <1>1 DEF Above
<1>4. shouldRun(m[1], Dir(p))
  BY <1>1 DEF MayRun
<1> HIDE DEF p
<1>5. p # Root
  <2>1. p = Root => Len(p) = 0
    BY DEF Root
  <2> QED  BY <1>3, <2>1
<1>6. /\ Front(p) \in Path /\ Len(Front(p)) = Len(p) - 1
      /\ SubSeq(Front(p), 1, i) = SubSeq(p, 1, i)
  BY <1>2, <1>3, <1>5, PathParts
<1>7. OpenUpTo(m[1], Front(p))
  BY <1>4, <1>5, <1>6, ShouldRunIs DEF Dir
<1> QED  BY <1>3, <1>6, <1>7 DEF OpenUpTo

-----------------------------------------------------------------------------
(* A queue that a manager runs uncontained. *)
AloneInv(k) ==
  since[k].alone # Never =>
    Open(k) /\ ~Contained(k) /\ mgr[k].due <= since[k].alone + 60

(* Only a look at the queues above keeps it open beyond its timer. *)
LEMMA DueKept ==
  ASSUME Typed, NEW m \in Manager, StepShape(m), NEW k \in Manager, StateInv(k),
         Open(k), ~Contained(k), Open(k)'
  PROVE  mgr'[k].due = mgr[k].due
<1>1. CASE k # m
  BY <1>1 DEF StepShape
<1>2. CASE k = m
  <2>1. mgr[k].state \in {"running", "end"} /\ mgr[k].master /\ mgr[k].running
    BY OpenStates
  <2>2. mgr'[k].running /\ mgr'[k].state # "returned"
    BY DEF Open
  <2>3. Moves(k)
    BY <1>2 DEF StepShape
  <2>4. ~MayRun(k)
    BY MayRunIsContained
  <2> QED  BY <2>1, <2>2, <2>3, <2>4 DEF Moves, Keeps, Closes
<1> QED  BY <1>1, <1>2

LEMMA AloneStep ==
  ASSUME TimerInv, TimerInv', History, NEW k \in Manager, AloneInv(k),
         Open(k) /\ ~Contained(k) /\ Open(k)' => mgr'[k].due = mgr[k].due
  PROVE  AloneInv(k)'
<1>1. SUFFICES ASSUME since'[k].alone # Never
               PROVE  Open(k)' /\ ~Contained(k)' /\ mgr'[k].due <= since'[k].alone + 60
  BY DEF AloneInv
<1>2. Open(k)' /\ ~Contained(k)'
  BY <1>1, HistoryIs
<1>3. CASE since[k].alone = Never
  <2>1. since'[k].alone = now'
    BY <1>2, <1>3, HistoryIs
  <2>2. mgr'[k].due <= now' + 60
    <3>1. Typed' /\ StateInv(k)'
      BY DEF TimerInv
    <3>2. mgr'[k].state \in {"running", "end"}
      <4>1. mgr'[k].state \in States /\ mgr'[k].running /\ mgr'[k].state # "returned"
        BY <1>2, <3>1 DEF Typed, Mgr, Open
      <4> QED  BY <3>1, <4>1 DEF StateInv, States
    <3> QED  BY <3>1, <3>2 DEF StateInv
  <2> QED  BY <1>2, <2>1, <2>2
<1>4. CASE since[k].alone # Never
  <2>1. since'[k].alone = since[k].alone
    BY <1>2, <1>4, HistoryIs
  <2>2. Open(k) /\ ~Contained(k) /\ mgr[k].due <= since[k].alone + 60
    BY <1>4 DEF AloneInv
  <2> QED  BY <1>2, <2>1, <2>2
<1> QED  BY <1>3, <1>4

LEMMA AloneInvNext ==
  ASSUME TimerInv, TimerInv', [Next]_vars, \A k \in Manager : AloneInv(k)
  PROVE  \A k \in Manager : AloneInv(k)'
<1>1. CASE Tick /\ History
  <2>1. mgr' = mgr
    BY <1>1, TickIs DEF TimerInv
  <2> QED  BY <1>1, <2>1, AloneStep
<1>2. ASSUME NEW m \in Manager, Step(m), History
      PROVE  \A k \in Manager : AloneInv(k)'
  <2>1. StepShape(m)
    BY <1>2, StepMoves DEF TimerInv
  <2>2. ASSUME NEW k \in Manager PROVE AloneInv(k)'
    <3>1. Open(k) /\ ~Contained(k) /\ Open(k)' => mgr'[k].due = mgr[k].due
      BY <2>1, DueKept DEF TimerInv
    <3> QED  BY <1>2, <3>1, AloneStep
  <2> QED  BY <2>2
<1>3. CASE UNCHANGED vars
  BY <1>3 DEF vars, mechanism, AloneInv, Open, Contained, KnownAt, OpenAt
<1> QED  BY <1>1, <1>2, <1>3 DEF Next

LEMMA AloneBound ==
  ASSUME TimerInv, \A k \in Manager : AloneInv(k)
  PROVE  UncontainedCloses
<1> SUFFICES ASSUME NEW m \in Manager PROVE now <= since[m].alone + 60
  BY DEF UncontainedCloses, Minute
<1>1. now \in Nat /\ now < Never /\ Never \in Nat /\ since[m].alone \in Int /\ mgr[m].due \in Int
  BY NowIsSoon, Horizons, SinceFields, MgrFields DEF TimerInv, Typed
<1>2. mgr[m].due >= now
  BY DEF TimerInv, Timely
<1> QED  BY <1>1, <1>2 DEF AloneInv

(* A queue is closed within a minute of a queue above it on one of the names *)
(* of its path closing, however far up (shouldRun in queue_manager.go).      *)
THEOREM UncontainedClose == Spec => []UncontainedCloses
<1>1. Init => \A k \in Manager : AloneInv(k)
  BY DEF Init, AloneInv
<1>2. TimerInv /\ TimerInv' /\ [Next]_vars /\ (\A k \in Manager : AloneInv(k))
        => (\A k \in Manager : AloneInv(k))'
  BY AloneInvNext
<1>3. TimerInv /\ (\A k \in Manager : AloneInv(k)) => UncontainedCloses
  BY AloneBound
<1> QED  BY <1>1, <1>2, <1>3, Timers, PTL DEF Spec

-----------------------------------------------------------------------------
(* The end of the window in which a queue was opened. *)
DailyWindows == \A w \in Windows : w.kind = "always" \/ IsDaily(w)

TimesInv(k) == IsDaily(window[k[2]]) => Bounded(window[k[2]], now, mgr[k].times)

LEMMA AskedBounded ==
  ASSUME Typed, NEW k \in Manager, TimesInv(k), IsDaily(window[k[2]])
  PROVE  Bounded(window[k[2]], now, Asked(k))
BY NowIsSoon, MgrFields, RefreshBounded DEF TimesInv, Asked

LEMMA TimesStep ==
  ASSUME Typed, Timely, NEW m \in Manager, StepShape(m), NEW k \in Manager, TimesInv(k)
  PROVE  TimesInv(k)'
<1>1. SUFFICES ASSUME IsDaily(window[k[2]]) PROVE Bounded(window[k[2]], now, mgr'[k].times)
  BY DEF TimesInv, StepShape
<1>2. mgr'[k].times \in {mgr[k].times, Asked(k)}
  <2>1. CASE k # m
    BY <2>1 DEF StepShape
  <2>2. CASE k = m
    <3>1. Moves(k)
      BY <2>2 DEF StepShape
    <3> QED  BY <3>1 DEF Moves
  <2> QED  BY <2>1, <2>2
<1> QED  BY <1>1, <1>2, AskedBounded DEF TimesInv

LEMMA TimesTick ==
  ASSUME Typed, Timely, Tick, NEW k \in Manager, TimesInv(k)
  PROVE  TimesInv(k)'
<1>1. now \in Nat /\ now' \in Nat /\ now <= now' /\ mgr' = mgr /\ window' = window
  BY TickIs DEF Typed
<1>2. SUFFICES ASSUME IsDaily(window[k[2]]) PROVE Bounded(window[k[2]], now', mgr[k].times)
  BY <1>1 DEF TimesInv
<1>3. mgr[k].times \in Times /\ Bounded(window[k[2]], now, mgr[k].times)
  BY <1>2, MgrFields DEF TimesInv
<1> QED  BY <1>1, <1>2, <1>3, StaysBounded

LEMMA TimesInit ==
  ASSUME Init, NEW k \in Manager
  PROVE  TimesInv(k)
<1>1. now \in Nat
  BY TimerInvInit DEF TimerInv, Typed
<1>2. mgr[k].times = [start |-> Zero, end |-> Zero]
  BY DEF Init, NewManager
<1> QED  BY <1>1, <1>2, NoTimesBounded DEF TimesInv

(* A queue opened in its window looks at its timer at most a minute after    *)
(* the window closes, and earlier while it does not know yet that it closes. *)
CloseInv(k) ==
  Open(k) =>
    /\ since[k].opened \in Nat /\ since[k].opened <= now
    /\ IsDaily(window[k[2]]) /\ InWindow(window[k[2]], since[k].opened) =>
         /\ mgr[k].state = "running" => mgr[k].due < Closing(window[k[2]], since[k].opened) + 60
         /\ mgr[k].state = "end" => mgr[k].due <= Closing(window[k[2]], since[k].opened) + 60

(* What can have happened to a queue that a manager runs after a step. *)
LEMMA OpenMoves ==
  ASSUME TimerInv, NEW m \in Manager, StepShape(m), Open(m)'
  PROVE  \/ ~Open(m) /\ mgr'[m].state = "running" /\ mgr'[m].due = now + 60
         \/ /\ Open(m) /\ mgr'[m].state = mgr[m].state /\ mgr'[m].due = mgr[m].due
         \/ /\ Open(m) /\ mgr[m].state = "running" /\ mgr[m].due <= now
            /\ mgr'[m].state = "end" /\ EndsWithinMinute(m) /\ mgr'[m].due = StopTime(m)
         \/ /\ Open(m) /\ mgr[m].state = "running" /\ mgr[m].due <= now
            /\ mgr'[m].state = "running" /\ ~EndsWithinMinute(m) /\ mgr'[m].due = now + 60
<1>1. mgr'[m].running /\ mgr'[m].state # "returned" /\ Moves(m) /\ StateInv(m)
  BY DEF Open, StepShape, TimerInv
<1>2. mgr[m].state \in States /\ mgr[m].master \in BOOLEAN /\ mgr[m].running \in BOOLEAN
  BY MgrFields DEF TimerInv
<1> QED  BY <1>1, <1>2 DEF Moves, Keeps, Closes, StateInv, Open, States

LEMMA CloseStep ==
  ASSUME TimerInv, NEW m \in Manager, StepShape(m), History, CloseInv(m), TimesInv(m)
  PROVE  CloseInv(m)'
<1>1. SUFFICES ASSUME Open(m)' PROVE CloseInv(m)'
  BY DEF CloseInv
<1>2. now \in Nat /\ now' = now /\ window' = window
  BY DEF StepShape, TimerInv, Typed
<1> DEFINE w == window[m[2]]
           t0 == since[m].opened
<1>3. CASE ~Open(m) /\ mgr'[m].state = "running" /\ mgr'[m].due = now + 60
  <2>1. since'[m].opened = now
    BY <1>1, <1>3, HistoryIs
  <2>2. IsDaily(w) /\ InWindow(w, now) => Closing(w, now) \in Nat /\ now < Closing(w, now)
    BY <1>2, OpenUntil
  <2> HIDE DEF w
  <2>3. IsDaily(w) /\ InWindow(w, now) => mgr'[m].due < Closing(w, now) + 60
    BY <1>2, <1>3, <2>2
  <2> QED  BY <1>2, <1>3, <2>1, <2>3 DEF CloseInv, w
<1>4. CASE Open(m)
  <2>1. since'[m].opened = t0
    BY <1>4, HistoryIs
  <2>2. t0 \in Nat /\ t0 <= now
    BY <1>4 DEF CloseInv
  <2>3. CASE mgr'[m].state = mgr[m].state /\ mgr'[m].due = mgr[m].due
    BY <1>2, <1>4, <2>1, <2>3 DEF CloseInv
  <2>4. CASE /\ mgr[m].state = "running" /\ mgr[m].due <= now
             /\ \/ mgr'[m].state = "end" /\ EndsWithinMinute(m) /\ mgr'[m].due = StopTime(m)
                \/ mgr'[m].state = "running" /\ ~EndsWithinMinute(m) /\ mgr'[m].due = now + 60
    <3>1. SUFFICES ASSUME IsDaily(w), InWindow(w, t0)
                   PROVE  /\ mgr'[m].state = "running" => mgr'[m].due < Closing(w, t0) + 60
                          /\ mgr'[m].state = "end" => mgr'[m].due <= Closing(w, t0) + 60
      BY <1>2, <2>1, <2>2 DEF CloseInv
    <3> DEFINE C == Closing(w, t0)
    <3>2. C \in Nat
      BY <2>2, <3>1, OpenUntil
    <3>3. now < C + 60
      <4>1. mgr[m].due < C + 60
        BY <1>4, <2>4, <3>1 DEF CloseInv
      <4>2. mgr[m].due >= now /\ mgr[m].due \in Int
        BY MgrFields DEF TimerInv, Timely
      <4> HIDE DEF C
      <4> QED  BY <1>2, <2>4, <3>2, <4>1, <4>2
    <3>4. NextEnd(m) <= C \/ NextEnd(m) <= now
      <4>1. Asked(m) \in Times /\ Bounded(w, now, Asked(m))
        BY <3>1, AskedBounded, TimersAhead DEF TimerInv
      <4>2. now < Closing(w, t0) + Minute
        BY <3>3 DEF Minute
      <4> QED  BY <1>2, <2>2, <3>1, <4>1, <4>2, EndIsNear DEF NextEnd
    <3>5. NextEnd(m) \in Int
      BY TimersAhead DEF TimerInv
    <3> HIDE DEF C
    <3>6. CASE mgr'[m].state = "end" /\ mgr'[m].due = StopTime(m)
      <4>1. StopTime(m) <= C + 60
        BY <1>2, <3>2, <3>3, <3>4, <3>5 DEF StopTime, Later
      <4> QED  BY <3>6, <4>1 DEF C
    <3>7. CASE mgr'[m].state = "running" /\ ~EndsWithinMinute(m) /\ mgr'[m].due = now + 60
      <4>1. now + 60 < C + 60
        BY <1>2, <3>2, <3>4, <3>5, <3>7 DEF EndsWithinMinute, Minute
      <4> QED  BY <3>7, <4>1 DEF C
    <3> QED  BY <2>4, <3>6, <3>7
  <2> QED  BY <1>1, <1>4, <2>3, <2>4, OpenMoves
<1> QED  BY <1>1, <1>3, <1>4, OpenMoves

LEMMA CloseInvNext ==
  ASSUME TimerInv, [Next]_vars, NEW k \in Manager, CloseInv(k), TimesInv(k)
  PROVE  CloseInv(k)' /\ TimesInv(k)'
<1>1. CASE Tick /\ History
  <2>1. now \in Nat /\ now' \in Nat /\ now <= now' /\ mgr' = mgr /\ window' = window
    BY <1>1, TickIs DEF TimerInv, Typed
  <2>2. TimesInv(k)'
    BY <1>1, TimesTick DEF TimerInv
  <2>3. Open(k)' <=> Open(k)
    BY <2>1 DEF Open
  <2>4. Open(k) => since'[k].opened = since[k].opened
    BY <1>1, HistoryIs
  <2>5. CloseInv(k)'
    <3>1. SUFFICES ASSUME Open(k)
                   PROVE  since[k].opened \in Nat /\ since[k].opened <= now'
      BY <2>1, <2>3, <2>4 DEF CloseInv
    <3> QED  BY <2>1, <3>1 DEF CloseInv
  <2> QED  BY <2>2, <2>5
<1>2. ASSUME NEW m \in Manager, Step(m), History
      PROVE  CloseInv(k)' /\ TimesInv(k)'
  <2>1. StepShape(m)
    BY <1>2, StepMoves DEF TimerInv
  <2>2. TimesInv(k)'
    BY <2>1, TimesStep DEF TimerInv
  <2>3. CASE k = m
    BY <1>2, <2>1, <2>2, <2>3, CloseStep
  <2>4. CASE k # m
    <3>1. mgr'[k] = mgr[k] /\ now' = now /\ window' = window
      BY <2>1, <2>4 DEF StepShape
    <3>2. Open(k)' <=> Open(k)
      BY <3>1 DEF Open
    <3>3. Open(k) => since'[k].opened = since[k].opened
      BY <1>2, HistoryIs
    <3> QED  BY <2>2, <3>1, <3>2, <3>3 DEF CloseInv
  <2> QED  BY <2>3, <2>4
<1>3. CASE UNCHANGED vars
  <2>1. now' = now /\ window' = window /\ mgr' = mgr /\ since' = since
    BY <1>3 DEF vars, mechanism
  <2> QED  BY <2>1 DEF CloseInv, TimesInv, Open
<1> QED  BY <1>1, <1>2, <1>3 DEF Next

LEMMA CloseBound ==
  ASSUME DailyWindows, TimerInv, \A k \in Manager : CloseInv(k)
  PROVE  ClosesAtEnd
<1> SUFFICES ASSUME NEW m \in Manager, Open(m), InWindow(window[m[2]], since[m].opened)
             PROVE  now <= Closing(window[m[2]], since[m].opened) + 60
  BY DEF ClosesAtEnd, Minute
<1> DEFINE w == window[m[2]]
           C == Closing(w, since[m].opened)
<1>1. now \in Nat /\ now < Never /\ Never \in Nat /\ mgr[m].due \in Int /\ mgr[m].due >= now
  BY NowIsSoon, Horizons, MgrFields DEF TimerInv, Typed, Timely
<1>2. w \in Windows
  BY WindowIs DEF TimerInv
<1>3. CASE w.kind = "always"
  <2>1. C = Never
    BY <1>3 DEF Closing
  <2> QED  BY <1>1, <2>1
<1>4. CASE IsDaily(w)
  <2>1. mgr[m].state \in {"running", "end"}
    BY OpenStates DEF TimerInv
  <2>2. since[m].opened \in Nat
    BY DEF CloseInv
  <2>3. C \in Nat
    BY <1>4, <2>2, OpenUntil
  <2>4. mgr[m].due <= C + 60
    <3>1. mgr[m].due < C + 60 \/ mgr[m].due <= C + 60
      BY <1>4, <2>1 DEF CloseInv
    <3> HIDE DEF C
    <3> QED  BY <1>1, <2>3, <3>1
  <2> HIDE DEF C
  <2>5. now <= C + 60
    BY <1>1, <2>3, <2>4
  <2> QED  BY <2>5 DEF C
<1> QED  BY <1>2, <1>3, <1>4 DEF DailyWindows

(* A queue opened in a window that is open, or closed, for some hours of     *)
(* every day is closed within a minute of the end of this window: the states *)
(* "running" and "end" of queue_manager.go, with the ends that window.go     *)
(* answers.                                                                  *)
THEOREM CloseAtEnd ==
  ASSUME DailyWindows
  PROVE  Spec => []ClosesAtEnd
<1>1. Init => \A k \in Manager : CloseInv(k) /\ TimesInv(k)
  BY TimesInit DEF Init, CloseInv, Open, NewManager
<1>2. TimerInv /\ [Next]_vars /\ (\A k \in Manager : CloseInv(k) /\ TimesInv(k))
        => (\A k \in Manager : CloseInv(k) /\ TimesInv(k))'
  BY CloseInvNext
<1>3. TimerInv /\ (\A k \in Manager : CloseInv(k) /\ TimesInv(k)) => ClosesAtEnd
  BY CloseBound
<1> QED  BY <1>1, <1>2, <1>3, Timers, PTL DEF Spec

-----------------------------------------------------------------------------
(* The opening of a queue that its owner may open.                          *)
LEMMA ContainedMayRun ==
  ASSUME NEW m \in Manager, Contained(m)
  PROVE  MayRun(m)
<1>1. SUFFICES ASSUME Paths(m[2]) # <<>>
               PROVE  shouldRun(m[1], Dir(Last(Paths(m[2]))))
  BY DEF MayRun
<1> DEFINE p == Last(Paths(m[2]))
<1>2. p \in Path
  <2>1. Paths(m[2]) \in Seq(Path)
    BY ManagerParts, PathsAssumption
  <2> QED  BY <1>1, <2>1 DEF Last
<1>3. \A a \in Above(p) : KnownAt(m[1], a) = {} \/ OpenAt(m[1], a)
  BY <1>1 DEF Contained
<1> HIDE DEF p
<1>4. CASE p = Root
  <2>1. Root \in Path /\ Dir(p) = Root
    BY <1>4, PathAssumption DEF Dir
  <2>2. OpenUpTo(m[1], Root)
    BY <2>1, UpOne
  <2> QED  BY <2>1, <2>2, ShouldRunIs DEF p
<1>5. CASE p # Root
  <2>1. /\ Front(p) \in Path /\ Len(p) \in Nat /\ Len(Front(p)) = Len(p) - 1
        /\ \A i \in 1 .. Len(p) - 1 : SubSeq(Front(p), 1, i) = SubSeq(p, 1, i)
    BY <1>2, <1>5, PathParts
  <2>2. OpenUpTo(m[1], Front(p))
    <3>1. SUFFICES ASSUME NEW i \in 1 .. Len(Front(p))
                   PROVE  \/ KnownAt(m[1], SubSeq(Front(p), 1, i)) = {}
                          \/ OpenAt(m[1], SubSeq(Front(p), 1, i))
      BY DEF OpenUpTo
    <3>2. SubSeq(Front(p), 1, i) = SubSeq(p, 1, i) /\ SubSeq(p, 1, i) \in Above(p)
      BY <2>1 DEF Above
    <3> QED  BY <1>3, <3>2
  <2>3. Dir(p) = Front(p)
    BY <1>5 DEF Dir
  <2> QED  BY <2>1, <2>2, <2>3, ShouldRunIs DEF p
<1> QED  BY <1>4, <1>5

(* When it is between the start and the end of a daily window. *)
LEMMA HoursAre ==
  ASSUME NEW w, IsDaily(w), NEW t \in Nat
  PROVE  InHours(w, t) <=> \E d \in Nat : At(d, w.start) <= t /\ t < At(d, w.end)
<1> DEFINE n == DayOf(t)
           m == MinuteOf(t)
           b == w.start
           e == w.end
<1>1. n \in Nat /\ m \in Nat /\ m < 1440 /\ 86400 * n + 60 * m <= t /\ t < 86400 * n + 60 * m + 60
  BY Instant
<1>2. b \in Nat /\ e \in Nat /\ b < e /\ e < 1440
  BY DailyHours
<1>3. InHours(w, t) <=> b <= m /\ m < e
  BY DEF InHours
<1> HIDE DEF n, m, b, e
<1>4. ASSUME b <= m, m < e
      PROVE  At(n, b) <= t /\ t < At(n, e)
  <2>1. At(n, b) = 86400 * n + 60 * b
    BY <1>1, <1>2, AtDay
  <2>2. At(n, e) = 86400 * n + 60 * e
    BY <1>1, <1>2, AtDay
  <2> QED  BY <1>1, <1>2, <1>4, <2>1, <2>2
<1>5. ASSUME NEW d \in Nat, At(d, b) <= t, t < At(d, e)
      PROVE  b <= m /\ m < e
  <2>1. At(d, b) = 86400 * d + 60 * b
    BY <1>2, AtDay
  <2>2. At(d, e) = 86400 * d + 60 * e
    BY <1>2, AtDay
  <2>3. 86400 * d + 60 * b <= t /\ t < 86400 * d + 60 * e
    BY <1>5, <2>1, <2>2
  <2>4. n = d
    <3>1. n < d => 86400 * n + 86400 <= 86400 * d
      BY <1>1
    <3>2. d < n => 86400 * d + 86400 <= 86400 * n
      BY <1>1
    <3> QED  BY <1>1, <1>2, <2>3, <3>1, <3>2
  <2>5. 86400 * d = 86400 * n
    BY <2>4
  <2> QED  BY <1>1, <1>2, <2>3, <2>5
<1>6. (b <= m /\ m < e) => \E d \in Nat : At(d, b) <= t /\ t < At(d, e)
  BY <1>1, <1>4
<1> QED  BY <1>3, <1>5, <1>6 DEF b, e

(* The hours of one day, as instants. *)
LEMMA HoursOfDay ==
  ASSUME NEW w, IsDaily(w), NEW d \in Nat
  PROVE  /\ At(d, w.start) = 86400 * d + 60 * w.start
         /\ At(d, w.end) = 86400 * d + 60 * w.end
         /\ At(d, w.start) \in Nat /\ At(d, w.end) \in Nat
         /\ At(d, w.start) + 60 <= At(d, w.end)
         /\ 60 * w.start \in Nat /\ 60 * w.start + 60 <= 60 * w.end /\ 60 * w.end < 86400
<1> DEFINE b == w.start
           e == w.end
<1>1. b \in Nat /\ e \in Nat /\ b < e /\ e < 1440
  BY DailyHours
<1> HIDE DEF b, e
<1>2. At(d, b) = 86400 * d + 60 * b
  BY <1>1, AtDay
<1>3. At(d, e) = 86400 * d + 60 * e
  BY <1>1, AtDay
<1>4. 60 * b \in Nat /\ 60 * b + 60 <= 60 * e /\ 60 * e < 86400 /\ 86400 * d \in Nat
  BY <1>1
<1>5. At(d, b) \in Nat /\ At(d, e) \in Nat /\ At(d, b) + 60 <= At(d, e)
  <2> DEFINE x == 86400 * d
             y == 60 * b
             z == 60 * e
  <2> HIDE DEF x, y, z
  <2>1. x \in Nat /\ y \in Nat /\ z \in Nat /\ y + 60 <= z
    <3>1. z \in Nat
      BY <1>1 DEF z
    <3> QED  BY <1>4, <3>1 DEF x, y, z
  <2>2. At(d, b) = x + y /\ At(d, e) = x + z
    BY <1>2, <1>3 DEF x, y, z
  <2> QED  BY <2>1, <2>2
<1> QED  BY <1>2, <1>3, <1>4, <1>5 DEF b, e

(* The hours of a day are over at their end, and not yet there before. *)
LEMMA HoursEnd ==
  ASSUME NEW w, IsDaily(w), NEW d \in Nat, NEW t \in Nat,
         At(d, w.end) <= t, t < At(d + 1, w.start)
  PROVE  ~InHours(w, t)
<1>1. SUFFICES ASSUME NEW n \in Nat, At(n, w.start) <= t, t < At(n, w.end)
               PROVE  FALSE
  BY HoursAre
<1> DEFINE sb == 60 * w.start
           se == 60 * w.end
           db == At(d, w.end)
           nb == At(n, w.start)
           ne == At(n, w.end)
           next == At(d + 1, w.start)
<1>2. nb = 86400 * n + sb /\ ne = 86400 * n + se /\ sb \in Nat /\ sb + 60 <= se /\ se < 86400
  BY HoursOfDay
<1>3. db = 86400 * d + se
  BY HoursOfDay
<1>4. next = 86400 * (d + 1) + sb
  <2>1. d + 1 \in Nat
    OBVIOUS
  <2> QED  BY <2>1, HoursOfDay
<1>5. se \in Nat
  BY DailyHours
<1>6. db <= t /\ t < next /\ nb <= t /\ t < ne
  BY <1>1
<1> HIDE DEF sb, se, db, nb, ne, next
<1>7. n <= d \/ d + 1 <= n
  OBVIOUS
<1>8. CASE n <= d
  <2>1. 86400 * n <= 86400 * d
    BY <1>8
  <2> QED  BY <1>2, <1>3, <1>5, <1>6, <2>1
<1>9. CASE d + 1 <= n
  <2>1. 86400 * (d + 1) <= 86400 * n
    BY <1>9
  <2> QED  BY <1>2, <1>4, <1>5, <1>6, <2>1
<1> QED  BY <1>7, <1>8, <1>9

(* What a manager keeps of the answers of its window: of a window that       *)
(* opens, no opening is skipped; of hours of every day, they are those of    *)
(* one day, or what is left of them.                                         *)
Shape(w, times) ==
  \/ times.start = Zero /\ times.end = Zero
  \/ \E d \in Nat : /\ times.end = At(d, w.end)
                    /\ At(d, w.start) <= times.start /\ times.start < times.end

Knows(w, t, times) ==
  /\ w.kind # "always_except" =>
       \A u \in Nat : t <= u /\ InWindow(w, u) => times.start <= u
  /\ IsDaily(w) => Shape(w, times)

LEMMA KnowsLater ==
  ASSUME NEW w, NEW t \in Nat, NEW u \in Nat, t <= u, NEW times, Knows(w, t, times)
  PROVE  Knows(w, u, times)
<1>1. ASSUME NEW v \in Nat, u <= v PROVE t <= v
  BY <1>1
<1> QED  BY <1>1 DEF Knows

LEMMA GeneratedShape ==
  ASSUME NEW w, IsDaily(w), NEW t, Soon(t), NEW cached \in Times, Shape(w, cached)
  PROVE  Shape(w, Generate(w, t, cached))
<1> DEFINE d == DayOf(t)
           m == MinuteOf(t)
           b == w.start
           e == w.end
           g == Generate(w, t, cached)
<1>1. t \in Nat /\ d \in Nat /\ d + 1 \in Nat
  <2>1. t \in Nat
    BY DEF Soon
  <2>2. d \in Nat
    BY <2>1, Instant
  <2> HIDE DEF d
  <2> QED  BY <2>1, <2>2
<1>2. g = IF b <= m /\ m < e THEN [start |-> t, end |-> At(d, e)]
          ELSE IF b > m THEN [start |-> At(d, b), end |-> At(d, e)]
          ELSE IF e < m THEN [start |-> At(d + 1, b), end |-> At(d + 1, e)]
          ELSE cached
  BY DailyDerived
<1>3. b <= m /\ m < e => At(d, b) <= t /\ t < At(d, e)
  <2>1. m \in Nat /\ 86400 * d + 60 * m <= t /\ t < 86400 * d + 60 * m + 60
    BY <1>1, Instant
  <2>2. At(d, b) = 86400 * d + 60 * b /\ At(d, e) = 86400 * d + 60 * e
    BY <1>1, HoursOfDay
  <2>3. b \in Nat /\ e \in Nat
    BY DailyHours
  <2> HIDE DEF d, m, b, e
  <2> QED  BY <1>1, <2>1, <2>2, <2>3
<1>4. At(d, b) \in Nat /\ At(d, e) \in Nat /\ At(d, b) < At(d, e)
  <2>1. At(d, b) \in Nat /\ At(d, e) \in Nat /\ At(d, b) + 60 <= At(d, e)
    BY <1>1, HoursOfDay
  <2> DEFINE x == At(d, b)
             y == At(d, e)
  <2> HIDE DEF x, y
  <2>2. x \in Nat /\ y \in Nat /\ x + 60 <= y
    BY <2>1 DEF x, y
  <2>3. x < y
    BY <2>2
  <2> QED  BY <2>1, <2>3 DEF x, y
<1>5. At(d + 1, b) \in Nat /\ At(d + 1, e) \in Nat /\ At(d + 1, b) < At(d + 1, e)
  <2> DEFINE x == At(d + 1, b)
             y == At(d + 1, e)
  <2>1. x \in Nat /\ y \in Nat /\ x + 60 <= y
    BY <1>1, HoursOfDay
  <2> HIDE DEF x, y
  <2>2. x < y
    BY <2>1
  <2> QED  BY <2>1, <2>2 DEF x, y
<1> HIDE DEF d, m, b, e, g
<1>6. CASE b <= m /\ m < e
  BY <1>1, <1>2, <1>3, <1>6 DEF Shape, b, e, g
<1>7. CASE ~(b <= m /\ m < e) /\ b > m
  <2>1. g.start = At(d, b) /\ g.end = At(d, e)
    BY <1>2, <1>7
  <2>2. At(d, b) <= At(d, b)
    BY <1>4
  <2> QED  BY <1>1, <1>4, <2>1, <2>2 DEF Shape, b, e, g
<1>8. CASE ~(b <= m /\ m < e) /\ ~(b > m) /\ e < m
  <2>1. g.start = At(d + 1, b) /\ g.end = At(d + 1, e)
    BY <1>2, <1>8
  <2>2. At(d + 1, b) <= At(d + 1, b)
    BY <1>5
  <2> QED  BY <1>1, <1>5, <2>1, <2>2 DEF Shape, b, e, g
<1>9. CASE ~(b <= m /\ m < e) /\ ~(b > m) /\ ~(e < m)
  <2>1. g = cached
    BY <1>2, <1>9
  <2> QED  BY <2>1 DEF g
<1> QED  BY <1>6, <1>7, <1>8, <1>9

(* The next opening of a window that is open for hours of every day is never *)
(* after one that is still to come.                                          *)
LEMMA GeneratedOpening ==
  ASSUME NEW w, IsDaily(w), NEW t, Soon(t), NEW cached \in Times,
         NEW u \in Nat, t <= u, InHours(w, u), cached.start <= u
  PROVE  Generate(w, t, cached).start <= u
<1> DEFINE d == DayOf(t)
           m == MinuteOf(t)
           b == w.start
           e == w.end
           g == Generate(w, t, cached)
           db == At(d, b)
           nb == At(d + 1, b)
           de == At(d, e)
<1>1. t \in Nat /\ d \in Nat /\ d + 1 \in Nat
  <2>1. t \in Nat
    BY DEF Soon
  <2>2. d \in Nat
    BY <2>1, Instant
  <2> HIDE DEF d
  <2> QED  BY <2>1, <2>2
<1>2. g = IF b <= m /\ m < e THEN [start |-> t, end |-> At(d, e)]
          ELSE IF b > m THEN [start |-> At(d, b), end |-> At(d, e)]
          ELSE IF e < m THEN [start |-> At(d + 1, b), end |-> At(d + 1, e)]
          ELSE cached
  BY DailyDerived
<1>3. CASE b <= m /\ m < e
  BY <1>2, <1>3
<1>4. CASE ~(b <= m /\ m < e) /\ b > m
  <2>1. g.start = db
    BY <1>2, <1>4
  <2>2. db <= u
    <3>1. PICK n \in Nat : At(n, b) <= u /\ u < At(n, e)
      BY HoursAre
    <3>2. m \in Nat /\ 86400 * d + 60 * m <= t
      BY <1>1, Instant
    <3> DEFINE x == 60 * b
               y == 60 * e
    <3>3. At(n, b) = 86400 * n + x /\ At(n, e) = 86400 * n + y /\ x \in Nat /\ y < 86400
      BY HoursOfDay
    <3>4. db = 86400 * d + x
      BY <1>1, HoursOfDay
    <3>5. y \in Nat
      BY DailyHours
    <3> HIDE DEF x, y, db, d, b, e, m
    <3>6. 86400 * n + x <= u /\ u < 86400 * n + y
      BY <3>1, <3>3
    <3>7. d <= n
      <4>1. n < d => 86400 * n + 86400 <= 86400 * d
        BY <1>1
      <4> QED  BY <1>1, <3>2, <3>3, <3>5, <3>6, <4>1
    <3>8. 86400 * d <= 86400 * n
      BY <1>1, <3>7
    <3> QED  BY <1>1, <3>3, <3>4, <3>6, <3>8
  <2> QED  BY <2>1, <2>2
<1>5. CASE ~(b <= m /\ m < e) /\ ~(b > m) /\ e < m
  <2>1. g.start = nb
    BY <1>2, <1>5
  <2>2. nb <= u
    <3>1. de <= u
      <4>1. m \in Nat /\ 86400 * d + 60 * m <= t
        BY <1>1, Instant
      <4>2. de = 86400 * d + 60 * e /\ e \in Nat
        BY <1>1, HoursOfDay, DailyHours
      <4> HIDE DEF d, e, m, de
      <4> QED  BY <1>1, <1>5, <4>1, <4>2
    <3>2. nb \in Nat
      BY <1>1, HoursOfDay
    <3>3. ~(u < nb)
      BY <1>1, <3>1, HoursEnd
    <3> HIDE DEF nb
    <3> QED  BY <3>2, <3>3
  <2> QED  BY <2>1, <2>2
<1>6. CASE ~(b <= m /\ m < e) /\ ~(b > m) /\ ~(e < m)
  BY <1>2, <1>6
<1> QED  BY <1>3, <1>4, <1>5, <1>6

LEMMA RefreshKnows ==
  ASSUME NEW w, w.kind = "always" \/ IsDaily(w), NEW t, Soon(t), NEW cached \in Times,
         Knows(w, t, cached)
  PROVE  Knows(w, t, Refresh(w, t, cached))
<1> DEFINE r == Refresh(w, t, cached)
           g == Generate(w, t, cached)
<1>1. r = g \/ r = cached
  BY DEF Refresh
<1>2. ASSUME r = g
      PROVE  Knows(w, t, g)
  <2>1. IsDaily(w) => Shape(w, g)
    BY GeneratedShape DEF Knows
  <2>2. ASSUME w.kind # "always_except", NEW u \in Nat, t <= u, InWindow(w, u)
        PROVE  g.start <= u
    <3>1. CASE w.kind = "always"
      <4>1. g.start = t
        BY <3>1 DEF Generate
      <4> QED  BY <2>2, <4>1
    <3>2. CASE IsDaily(w)
      <4>1. w.kind = "every"
        BY <2>2, <3>2 DEF IsDaily
      <4>2. InHours(w, u) /\ cached.start <= u
        BY <2>2, <4>1 DEF InWindow, Knows
      <4> QED  BY <2>2, <3>2, <4>2, GeneratedOpening
    <3> QED  BY <3>1, <3>2
  <2> HIDE DEF g
  <2> QED  BY <2>1, <2>2 DEF Knows
<1> HIDE DEF r, g
<1> QED  BY <1>1, <1>2 DEF r

(* The last second before an exception: of it GetNextStartTime already says  *)
(* that the exception has begun.                                             *)
Edge(w, t) == w.kind = "always_except" /\ InWindow(w, t) /\ ~InWindow(w, t + 1)

(* The start a window answers is not after an instant at which it is open.   *)
LEMMA StartKnown ==
  ASSUME NEW w, w.kind = "always" \/ IsDaily(w), NEW t \in Nat, NEW times \in Times,
         Knows(w, t, times), NEW u \in Nat, t <= u, InWindow(w, u), ~Edge(w, u)
  PROVE  GetNextStartTime(w, t, times) <= u
<1>1. CASE w.kind # "always_except"
  BY <1>1 DEF Knows, GetNextStartTime
<1>2. CASE w.kind = "always_except"
  <2>1. IsDaily(w) /\ Shape(w, times)
    BY <1>2 DEF Knows
  <2>2. times.start \in Int /\ times.end \in Int
    BY DEF Times
  <2>3. CASE ~Inside(t, times)
    BY <1>2, <2>3 DEF GetNextStartTime
  <2>4. CASE Inside(t, times)
    <3>1. t + 1 >= times.start /\ t + 1 < times.end
      BY <2>4 DEF Inside
    <3>2. PICK d \in Nat : /\ times.end = At(d, w.end)
                           /\ At(d, w.start) <= times.start /\ times.start < times.end
      <4>1. times.end # Zero
        BY <2>2, <3>1 DEF Zero
      <4> QED  BY <2>1, <4>1 DEF Shape
    <3> DEFINE b == At(d, w.start)
               e == At(d, w.end)
    <3>3. b \in Nat /\ e \in Nat /\ b + 60 <= e
      BY <2>1, HoursOfDay
    <3>4. ~InHours(w, u)
      BY <1>2 DEF InWindow
    <3>5. ~(b <= u /\ u < e)
      BY <2>1, <3>4, HoursAre
    <3>6. ~(b <= u + 1 /\ u + 1 < e)
      <4>1. ~InHours(w, u + 1)
        BY <1>2 DEF Edge, InWindow
      <4>2. u + 1 \in Nat
        OBVIOUS
      <4> QED  BY <2>1, <4>1, <4>2, HoursAre
    <3>7. b <= times.start /\ times.end = e
      BY <3>2
    <3> HIDE DEF b, e
    <3>8. times.end <= u
      BY <2>2, <3>1, <3>3, <3>5, <3>6, <3>7
    <3> QED  BY <1>2, <2>4, <3>8 DEF GetNextStartTime
  <2> QED  BY <2>3, <2>4
<1> QED  BY <1>1, <1>2

(* At the end a window answers it is closed, unless it is past already, or   *)
(* never.                                                                    *)
LEMMA EndKnown ==
  ASSUME NEW w, w.kind = "always" \/ IsDaily(w), NEW t, Soon(t), NEW cached \in Times,
         Knows(w, t, cached), NEW n, n = GetNextEndTime(w, t, Refresh(w, t, cached))
  PROVE  n <= t \/ n = FarFuture \/ (n \in Nat /\ ~InWindow(w, n))
<1> DEFINE r == Refresh(w, t, cached)
<1>0. t \in Nat /\ n = GetNextEndTime(w, t, r)
  BY DEF Soon
<1>1. CASE w.kind = "always"
  <2>1. cached.start <= t
    BY <1>0, <1>1 DEF Knows, InWindow
  <2>2. r = Generate(w, t, cached)
    BY <1>0, <2>1 DEF Refresh, Times
  <2>3. r.end = FarFuture
    BY <1>1, <2>2 DEF Generate
  <2>4. n = r.end
    BY <1>0, <1>1 DEF GetNextEndTime
  <2> QED  BY <2>3, <2>4
<1>2. CASE IsDaily(w)
  <2>1. Shape(w, r)
    BY <1>2, RefreshKnows DEF Knows
  <2>2. Zero <= t
    BY <1>0 DEF Zero
  <2> HIDE DEF r
  <2>3. CASE r.start = Zero /\ r.end = Zero
    BY <1>0, <2>2, <2>3 DEF GetNextEndTime, Inside, Zero
  <2>4. ASSUME NEW d \in Nat, r.end = At(d, w.end), At(d, w.start) <= r.start, r.start < r.end
        PROVE  n <= t \/ n = FarFuture \/ (n \in Nat /\ ~InWindow(w, n))
    <3> DEFINE b == At(d, w.start)
               e == At(d, w.end)
               nb == At(d + 1, w.start)
    <3>1. b \in Nat /\ e \in Nat /\ b + 60 <= e
      BY <1>2, HoursOfDay
    <3>2. e < nb
      <4> DEFINE x == 60 * w.start
                 y == 60 * w.end
      <4>1. e = 86400 * d + y /\ x \in Nat /\ y < 86400
        BY <1>2, HoursOfDay
      <4>2. d + 1 \in Nat
        OBVIOUS
      <4>3. nb = 86400 * (d + 1) + x
        BY <1>2, <4>2, HoursOfDay
      <4>4. y \in Nat
        BY <1>2, DailyHours
      <4> HIDE DEF x, y, e, nb
      <4> QED  BY <4>1, <4>3, <4>4
    <3>3. CASE w.kind = "every"
      <4>1. n = e
        BY <1>0, <2>4, <3>3 DEF GetNextEndTime
      <4>2. e <= e
        BY <3>1
      <4>3. ~InHours(w, e)
        BY <1>2, <3>1, <3>2, <4>2, HoursEnd
      <4>4. ~InWindow(w, e)
        BY <3>3, <4>3 DEF InWindow
      <4> HIDE DEF e
      <4> QED  BY <3>1, <4>1, <4>4 DEF e
    <3>4. CASE w.kind = "always_except"
      <4>1. CASE Inside(t, r)
        BY <1>0, <2>2, <3>4, <4>1 DEF GetNextEndTime
      <4>2. CASE ~Inside(t, r)
        <5>1. n = r.start
          BY <1>0, <3>4, <4>2 DEF GetNextEndTime
        <5>2. b <= n /\ n < e
          BY <2>4, <5>1
        <5>3. n \in Nat
          <6>1. r.start \in Int
            <7>1. IsWindow(w)
              BY <1>2 DEF IsDaily, IsWindow
            <7> QED  BY <7>1, AnswersType DEF r, Times
          <6> HIDE DEF b, e
          <6> QED  BY <3>1, <5>1, <5>2, <6>1
        <5>4. InHours(w, n)
          BY <1>2, <5>2, <5>3, HoursAre
        <5> QED  BY <3>4, <5>3, <5>4 DEF InWindow
      <4> QED  BY <4>1, <4>2
    <3> QED  BY <1>2, <3>3, <3>4 DEF IsDaily
  <2> QED  BY <2>1, <2>3, <2>4 DEF Shape
<1> QED  BY <1>1, <1>2

(* The exception lasts for a minute at least, and it is open after it.       *)
LEMMA AfterEdge ==
  ASSUME NEW w, IsDaily(w), NEW t \in Nat, Edge(w, t)
  PROVE  \E c \in Nat : /\ t + 61 <= c /\ InWindow(w, c) /\ ~Edge(w, c)
                        /\ \A u \in Nat : t < u /\ u < c => ~InWindow(w, u)
<1>1. w.kind = "always_except" /\ ~InHours(w, t) /\ InHours(w, t + 1)
  BY DEF Edge, InWindow
<1>2. PICK d \in Nat : At(d, w.start) <= t + 1 /\ t + 1 < At(d, w.end)
  <2>1. t + 1 \in Nat
    OBVIOUS
  <2> QED  BY <1>1, <2>1, HoursAre
<1> DEFINE b == At(d, w.start)
           e == At(d, w.end)
           nb == At(d + 1, w.start)
<1>3. b \in Nat /\ e \in Nat /\ b + 60 <= e
  BY HoursOfDay
<1>4. e + 1 < nb /\ e < nb
  <2> DEFINE x == 60 * w.start
             y == 60 * w.end
  <2>1. e = 86400 * d + y /\ x \in Nat
    BY HoursOfDay
  <2>2. d + 1 \in Nat
    OBVIOUS
  <2>3. nb = 86400 * (d + 1) + x
    BY <2>2, HoursOfDay
  <2>4. y \in Nat /\ y + 60 <= 86400
    <3>1. w.end \in Nat /\ w.end < 1440
      BY DailyHours
    <3> QED  BY <3>1
  <2> HIDE DEF x, y, e, nb
  <2> QED  BY <2>1, <2>3, <2>4
<1>5. t + 1 = b
  <2>1. ~(b <= t /\ t < e)
    BY <1>1, HoursAre
  <2>2. b <= t + 1 /\ t + 1 < e
    BY <1>2
  <2> HIDE DEF b, e
  <2> QED  BY <1>3, <2>1, <2>2
<1>6. e <= e /\ e <= e + 1 /\ e + 1 \in Nat
  BY <1>3
<1>7. InWindow(w, e) /\ InWindow(w, e + 1)
  <2>1. ~InHours(w, e)
    BY <1>3, <1>4, <1>6, HoursEnd
  <2>2. ~InHours(w, e + 1)
    BY <1>3, <1>4, <1>6, HoursEnd
  <2> QED  BY <1>1, <2>1, <2>2 DEF InWindow
<1>8. ASSUME NEW u \in Nat, t < u, u < e
      PROVE  ~InWindow(w, u)
  <2>1. b <= u /\ u < e
    <3> HIDE DEF b, e
    <3> QED  BY <1>3, <1>5, <1>8
  <2>2. InHours(w, u)
    BY <2>1, HoursAre
  <2> QED  BY <1>1, <2>2 DEF InWindow
<1>9. t + 61 <= e /\ e \in Nat
  <2> HIDE DEF b, e
  <2> QED  BY <1>3, <1>5
<1>10. ~Edge(w, e)
  BY <1>7 DEF Edge
<1> HIDE DEF e
<1> QED  BY <1>7, <1>8, <1>9, <1>10

-----------------------------------------------------------------------------
(* What the timer of a manager is set for, by its state.  Before its window   *)
(* opens it is due 20 seconds earlier, or at once; waiting to open, within a *)
(* minute of the opening; and a manager that gave up waits for an instant at *)
(* which its window is closed, if it waits at all.                           *)
Opens(w, t) == InWindow(w, t) /\ ~Edge(w, t)

PlanInv(k) ==
  LET w == window[k[2]]
      r == mgr[k]
  IN
  /\ Knows(w, now, r.times)
  /\ r.state = "begin" => ~r.master
  /\ r.state = "running" /\ r.master => r.running
  /\ r.state = "pre" =>
       \A u \in Nat : now <= u /\ Opens(w, u) => r.due = now \/ r.due + 20 <= u
  /\ r.state = "start" =>
       \A u \in Nat : now <= u /\ Opens(w, u) => r.due <= u + 60
  /\ r.state = "end" /\ r.master /\ ~r.running =>
       (InWindow(w, r.due) /\ r.due <= Horizon => r.due = now)

LEMMA TimersKnow ==
  ASSUME Typed, DailyWindows, NEW m \in Manager, Knows(window[m[2]], now, mgr[m].times)
  PROVE  /\ Knows(window[m[2]], now, Asked(m))
         /\ \A u \in Nat : now <= u /\ Opens(window[m[2]], u) =>
               /\ PreTime(m) = now \/ PreTime(m) + 20 <= u
               /\ StartTime(m) <= u + 60
         /\ InWindow(window[m[2]], StopTime(m)) /\ StopTime(m) <= Horizon => StopTime(m) = now
<1> DEFINE w == window[m[2]]
           a == Asked(m)
           ns == NextStart(m)
           ne == NextEnd(m)
<1>1. w.kind = "always" \/ IsDaily(w)
  BY WindowIs DEF DailyWindows
<1>2. now \in Nat /\ Soon(now) /\ mgr[m].times \in Times
  BY NowIsSoon, MgrFields DEF Typed
<1>3. Knows(w, now, a) /\ a \in Times
  BY <1>1, <1>2, RefreshKnows, TimersAhead DEF Asked
<1>4. ns \in Int /\ ne \in Int
  BY <1>2, <1>3, WindowIs, AnswersType DEF NextStart, NextEnd
<1>5. ASSUME NEW u \in Nat, now <= u, Opens(w, u)
      PROVE  (PreTime(m) = now \/ PreTime(m) + 20 <= u) /\ StartTime(m) <= u + 60
  <2>1. ns <= u
    BY <1>1, <1>2, <1>3, <1>5, StartKnown DEF NextStart, Opens
  <2> HIDE DEF w, a, ns
  <2>2. PreTime(m) = IF ns = now THEN now ELSE IF ns - 20 > now THEN ns - 20 ELSE now
    BY DEF PreTime, Later, ns
  <2>3. StartTime(m) = IF ns = now THEN now + 20 ELSE IF ns > now THEN ns ELSE now
    BY DEF StartTime, Later, ns
  <2> QED  BY <1>2, <1>4, <1>5, <2>1, <2>2, <2>3
<1>6. ASSUME InWindow(w, StopTime(m)), StopTime(m) <= Horizon
      PROVE  StopTime(m) = now
  <2>1. ne <= now \/ ne = FarFuture \/ (ne \in Nat /\ ~InWindow(w, ne))
    <3>1. ne = GetNextEndTime(w, now, Refresh(w, now, mgr[m].times))
      BY DEF NextEnd, Asked
    <3> HIDE DEF w, ne
    <3> QED  BY <1>1, <1>2, <3>1, EndKnown DEF w
  <2>2. StopTime(m) = IF ne > now THEN ne ELSE now
    BY DEF StopTime, Later
  <2>3. Horizon \in Nat /\ Horizon < FarFuture /\ FarFuture \in Int
    BY Horizons DEF Never
  <2> HIDE DEF w, ne
  <2>4. ne # FarFuture \/ StopTime(m) = now
    BY <1>2, <1>4, <1>6, <2>2, <2>3
  <2>5. ne > now => ne = StopTime(m)
    BY <2>2
  <2> QED  BY <1>2, <1>4, <1>6, <2>1, <2>2, <2>4, <2>5
<1> QED  BY <1>3, <1>5, <1>6

LEMMA PlanStep ==
  ASSUME DailyWindows, TimerInv, NEW m \in Manager, StepShape(m), PlanInv(m)
  PROVE  PlanInv(m)'
<1> DEFINE w == window[m[2]]
           r == mgr[m]
           s == mgr'[m]
<1>1. now' = now /\ window' = window /\ Moves(m) /\ now \in Nat
  BY DEF StepShape, TimerInv, Typed
<1>2. /\ r.state \in States /\ r.master \in BOOLEAN /\ r.running \in BOOLEAN /\ r.due \in Int
      /\ check[m] \in Int /\ r.due >= now
  BY MgrFields DEF TimerInv, Timely
<1>3. /\ r.state \in {"begin", "pre", "start"} => ~r.running
      /\ r.state \in {"begin", "pre"} => check[m] = Never
      /\ r.running /\ r.state # "returned" => r.master
  BY DEF TimerInv, StateInv
<1>4. now < Never /\ Never \in Nat
  BY NowIsSoon, Horizons DEF TimerInv
<1>5. /\ Knows(w, now, r.times)
      /\ r.state = "begin" => ~r.master
      /\ r.state = "running" /\ r.master => r.running
      /\ r.state = "pre" =>
           \A u \in Nat : now <= u /\ Opens(w, u) => r.due = now \/ r.due + 20 <= u
      /\ r.state = "start" =>
           \A u \in Nat : now <= u /\ Opens(w, u) => r.due <= u + 60
      /\ r.state = "end" /\ r.master /\ ~r.running =>
           (InWindow(w, r.due) /\ r.due <= Horizon => r.due = now)
  BY DEF PlanInv
<1>6. /\ Knows(w, now, Asked(m))
      /\ \A u \in Nat : now <= u /\ Opens(w, u) =>
            /\ PreTime(m) = now \/ PreTime(m) + 20 <= u
            /\ StartTime(m) <= u + 60
      /\ InWindow(w, StopTime(m)) /\ StopTime(m) <= Horizon => StopTime(m) = now
  BY <1>5, TimersKnow DEF TimerInv
<1>7. SUFFICES
      /\ Knows(w, now, s.times)
      /\ s.state = "begin" => ~s.master
      /\ s.state = "running" /\ s.master => s.running
      /\ s.state = "pre" =>
           \A u \in Nat : now <= u /\ Opens(w, u) => s.due = now \/ s.due + 20 <= u
      /\ s.state = "start" =>
           \A u \in Nat : now <= u /\ Opens(w, u) => s.due <= u + 60
      /\ s.state = "end" /\ s.master /\ ~s.running =>
           (InWindow(w, s.due) /\ s.due <= Horizon => s.due = now)
  BY <1>1 DEF PlanInv
<1> HIDE DEF w
<1>8. Knows(w, now, s.times)
  BY <1>1, <1>5, <1>6 DEF Moves
<1>9. s.state = "begin" => ~s.master
  BY <1>1, <1>2, <1>3, <1>4, <1>5 DEF Moves, Keeps, Closes, States
<1>10. s.state = "running" /\ s.master => s.running
  BY <1>1, <1>2, <1>3, <1>5 DEF Moves, Keeps, Closes, States
<1>11. ASSUME s.state = "pre", NEW u \in Nat, now <= u, Opens(w, u)
       PROVE  s.due = now \/ s.due + 20 <= u
  <2>1. s.due = PreTime(m) \/ (r.state = "pre" /\ s.due = r.due)
    BY <1>1, <1>2, <1>11 DEF Moves, States
  <2> QED  BY <1>5, <1>6, <1>11, <2>1
<1>12. ASSUME s.state = "start", NEW u \in Nat, now <= u, Opens(w, u)
       PROVE  s.due <= u + 60
  <2>1. \/ s.due = StartTime(m) \/ s.due = now + 60
        \/ (r.state = "start" /\ s.due = r.due)
    BY <1>1, <1>2, <1>12 DEF Moves, States
  <2> QED  BY <1>1, <1>5, <1>6, <1>12, <2>1
<1>13. ASSUME s.state = "end", s.master, ~s.running, InWindow(w, s.due), s.due <= Horizon
       PROVE  s.due = now
  <2>1. s.due = StopTime(m) \/ (r.state = "end" /\ r.master /\ ~r.running /\ s.due = r.due)
    BY <1>1, <1>2, <1>13 DEF Moves, States
  <2> QED  BY <1>5, <1>6, <1>13, <2>1
<1> QED  BY <1>8, <1>9, <1>10, <1>11, <1>12, <1>13

LEMMA PlanTick ==
  ASSUME TimerInv, Tick, NEW k \in Manager, PlanInv(k)
  PROVE  PlanInv(k)'
<1> DEFINE w == window[k[2]]
           r == mgr[k]
<1>1. /\ now \in Nat /\ now' \in Nat /\ now < now' /\ now <= now' /\ now' <= r.due
      /\ mgr' = mgr /\ window' = window /\ r.due \in Int
  BY TickIs, MgrFields DEF TimerInv, Typed
<1>2. Knows(w, now', r.times)
  BY <1>1, KnowsLater DEF PlanInv
<1>3. \A u \in Nat : now' <= u => now <= u
  BY <1>1
<1>4. r.due # now
  BY <1>1
<1>5. r.state = "pre" =>
        \A u \in Nat : now' <= u /\ Opens(w, u) => r.due + 20 <= u
  BY <1>3, <1>4 DEF PlanInv
<1>6. r.state = "start" =>
        \A u \in Nat : now' <= u /\ Opens(w, u) => r.due <= u + 60
  BY <1>3 DEF PlanInv
<1>7. r.state = "end" /\ r.master /\ ~r.running =>
        ~(InWindow(w, r.due) /\ r.due <= Horizon)
  BY <1>4 DEF PlanInv
<1> QED  BY <1>1, <1>2, <1>5, <1>6, <1>7 DEF PlanInv

LEMMA PlanNext ==
  ASSUME DailyWindows, TimerInv, [Next]_vars, \A k \in Manager : PlanInv(k)
  PROVE  \A k \in Manager : PlanInv(k)'
<1>1. CASE Tick
  BY <1>1, PlanTick
<1>2. ASSUME NEW m \in Manager, Step(m)
      PROVE  \A k \in Manager : PlanInv(k)'
  <2>1. StepShape(m)
    BY <1>2, StepMoves DEF TimerInv
  <2>2. ASSUME NEW k \in Manager, k # m PROVE PlanInv(k)'
    <3>1. mgr'[k] = mgr[k] /\ now' = now /\ window' = window
      BY <2>1, <2>2 DEF StepShape
    <3> QED  BY <3>1 DEF PlanInv
  <2> QED  BY <2>1, <2>2, PlanStep
<1>3. CASE UNCHANGED vars
  <2>1. now' = now /\ window' = window /\ mgr' = mgr
    BY <1>3 DEF vars, mechanism
  <2> QED  BY <2>1 DEF PlanInv
<1> QED  BY <1>1, <1>2, <1>3 DEF Next

LEMMA PlanInit ==
  ASSUME DailyWindows, Init, NEW k \in Manager
  PROVE  PlanInv(k)
<1>1. now \in Nat
  BY TimerInvInit DEF TimerInv, Typed
<1>2. /\ mgr[k].times = [start |-> Zero, end |-> Zero]
      /\ mgr[k].state = "begin" /\ mgr[k].master = FALSE
  BY DEF Init, NewManager
<1>3. Knows(window[k[2]], now, mgr[k].times)
  <2>1. mgr[k].times.start = Zero /\ mgr[k].times.end = Zero
    BY <1>2
  <2>2. \A u \in Nat : Zero <= u
    BY DEF Zero
  <2> QED  BY <2>1, <2>2 DEF Knows, Shape
<1> QED  BY <1>2, <1>3 DEF PlanInv

-----------------------------------------------------------------------------
(* An owner whose queue is contained, in its window and closed.  What is due  *)
(* opens it in time, or it has only just come to this.                        *)
IdleInv(k) ==
  LET w == window[k[2]]
      r == mgr[k]
      i == since[k].idle
  IN
  i # Never =>
    /\ Idle(k) /\ i <= now
    /\ r.state = "pre" => i = now
    /\ r.state = "start" => r.due <= i + 60 \/ (i = now /\ Edge(w, now))
    /\ r.state = "end" =>
         /\ r.due <= i + 60
         /\ InWindow(w, r.due) /\ r.due <= Horizon => i = now

LEMMA IdleHistory ==
  ASSUME History, NEW k \in Manager
  PROVE  since'[k].idle = IF ~Idle(k)' THEN Never
                          ELSE IF since[k].idle = Never THEN now' ELSE since[k].idle
BY DEF History, Begun

(* It becomes idle now. *)
LEMMA IdleBegins ==
  ASSUME TimerInv', NEW k \in Manager, PlanInv(k)', Idle(k)', since'[k].idle = now'
  PROVE  IdleInv(k)'
<1> DEFINE w == window'[k[2]]
           r == mgr'[k]
<1>1. now' \in Nat /\ now' <= now' /\ r.due \in Int
  BY DEF TimerInv, Typed, Mgr
<1>2. r.state = "start" => r.due <= now' + 60 \/ Edge(w, now')
  <2>1. InWindow(w, now')
    BY DEF Idle
  <2> QED  BY <1>1, <2>1 DEF PlanInv, Opens
<1>3. r.state = "end" => r.due <= now' + 60
  BY DEF TimerInv, StateInv
<1> QED  BY <1>1, <1>2, <1>3 DEF IdleInv

(* It stays idle as it was. *)
LEMMA IdleStays ==
  ASSUME NEW k \in Manager, IdleInv(k), Idle(k)', since'[k].idle = since[k].idle,
         mgr'[k] = mgr[k], now' = now, window' = window
  PROVE  IdleInv(k)'
BY DEF IdleInv

LEMMA IdleStep ==
  ASSUME TimerInv, TimerInv', NEW m \in Manager, StepShape(m), NEW k \in Manager,
         PlanInv(k), PlanInv(k)', IdleInv(k), History
  PROVE  IdleInv(k)'
<1> DEFINE w == window[k[2]]
           r == mgr[k]
           s == mgr'[k]
           i == since[k].idle
<1>1. now' = now /\ window' = window /\ now \in Nat /\ now < Never /\ now <= Horizon
  BY NowIsSoon DEF StepShape, TimerInv, Typed
<1>2. CASE ~Idle(k)'
  <2>1. since'[k].idle = Never
    BY <1>2, IdleHistory
  <2> QED  BY <2>1 DEF IdleInv
<1>3. CASE Idle(k)' /\ (i = Never \/ i = now)
  <2>1. since'[k].idle = now'
    BY <1>1, <1>3, IdleHistory
  <2> QED  BY <1>3, <2>1, IdleBegins
<1>4. CASE Idle(k)' /\ i # Never /\ i # now
  <2>1. since'[k].idle = i
    BY <1>4, IdleHistory
  <2>2. Idle(k) /\ r.master /\ ~r.running /\ InWindow(w, now) /\ MayRun(k)
    BY <1>4, ContainedMayRun DEF IdleInv, Idle
  <2>3. r.state \in States /\ r.state \notin {"begin", "pre", "running", "returned"}
    BY <1>4, <2>2, MgrFields DEF TimerInv, IdleInv, PlanInv, Idle
  <2>4. s.master /\ ~s.running /\ s.state # "returned"
    BY <1>4 DEF Idle
  <2>5. r.state = "end" => ~(r.due <= now)
    <3>1. SUFFICES ASSUME r.state = "end", r.due <= now PROVE FALSE
      OBVIOUS
    <3>2. r.due = now
      <4>1. r.due \in Int /\ r.due >= now
        BY MgrFields DEF TimerInv, Timely
      <4> QED  BY <1>1, <3>1, <4>1
    <3> QED  BY <1>1, <1>4, <2>2, <3>1, <3>2 DEF IdleInv
  <2>6. s = r
    <3>1. CASE k # m
      BY <3>1 DEF StepShape
    <3>2. CASE k = m
      <4>1. Moves(k)
        BY <3>2 DEF StepShape
      <4>2. r.master \in BOOLEAN /\ s.running \in BOOLEAN /\ r.running \in BOOLEAN
        BY MgrFields DEF TimerInv, Typed, Mgr
      <4> QED  BY <2>2, <2>3, <2>4, <2>5, <4>1, <4>2 DEF Moves, Keeps, Closes, States
    <3> QED  BY <3>1, <3>2
  <2> QED  BY <1>1, <1>4, <2>1, <2>6, IdleStays
<1> QED  BY <1>2, <1>3, <1>4

LEMMA IdleTick ==
  ASSUME DailyWindows, TimerInv, TimerInv', Tick, NEW k \in Manager,
         PlanInv(k), PlanInv(k)', IdleInv(k), History
  PROVE  IdleInv(k)'
<1> DEFINE w == window[k[2]]
           r == mgr[k]
           i == since[k].idle
<1>1. /\ now \in Nat /\ now' \in Nat /\ now < now' /\ now' <= r.due /\ now' <= check[k]
      /\ window' = window /\ mgr' = mgr /\ r.due \in Int /\ check[k] \in Int
  BY TickIs, MgrFields DEF TimerInv, Typed
<1>2. CASE ~Idle(k)'
  <2>1. since'[k].idle = Never
    BY <1>2, IdleHistory
  <2> QED  BY <2>1 DEF IdleInv
<1>3. CASE Idle(k)' /\ i = Never
  <2>1. since'[k].idle = now'
    BY <1>3, IdleHistory
  <2> QED  BY <1>3, <2>1, IdleBegins
<1>4. CASE Idle(k)' /\ i # Never
  <2>1. since'[k].idle = i
    BY <1>4, IdleHistory
  <2>2. Idle(k) /\ r.master /\ ~r.running /\ InWindow(w, now) /\ i <= now /\ InWindow(w, now')
    BY <1>1, <1>4 DEF IdleInv, Idle
  <2>3. r.state \in States /\ r.state \notin {"begin", "running", "returned"}
    BY <2>2, MgrFields DEF TimerInv, PlanInv, Idle
  <2>4. i \in Int /\ i <= now'
    <3>1. i \in Int
      BY MgrFields DEF TimerInv, Since
    <3> HIDE DEF i
    <3> QED  BY <1>1, <2>2, <3>1 DEF i
  <2>5. ASSUME Edge(w, now)
        PROVE  /\ r.state # "pre"
               /\ r.state # "start"
    <3>1. IsDaily(w)
      BY <2>5, WindowIs DEF Edge, DailyWindows, TimerInv
    <3>2. PICK c \in Nat : /\ now + 61 <= c /\ InWindow(w, c) /\ ~Edge(w, c)
                           /\ \A u \in Nat : now < u /\ u < c => ~InWindow(w, u)
      BY <1>1, <2>5, <3>1, AfterEdge
    <3>3. c <= now'
      BY <1>1, <2>2, <3>2
    <3>4. now <= c
      BY <1>1, <3>2
    <3>5. r.state = "pre" => r.due + 20 <= c
      <4>1. r.due # now
        BY <1>1
      <4> QED  BY <3>2, <3>4, <4>1 DEF PlanInv, Opens
    <3>6. r.state = "start" => check[k] <= now + 30
      BY DEF TimerInv, StateInv
    <3> HIDE DEF r, w
    <3> QED  BY <1>1, <3>2, <3>3, <3>5, <3>6 DEF r
  <2>6. ASSUME r.state = "pre"
        PROVE  FALSE
    <3>1. now <= now
      BY <1>1
    <3>2. ~Edge(w, now) => r.due = now \/ r.due + 20 <= now
      BY <1>1, <2>2, <2>6, <3>1 DEF PlanInv, Opens
    <3> QED  BY <1>1, <2>5, <2>6, <3>2
  <2>7. ASSUME r.state = "start"
        PROVE  r.due <= i + 60
    BY <1>4, <2>5, <2>7 DEF IdleInv
  <2>8. ASSUME r.state = "end"
        PROVE  r.due <= i + 60 /\ ~(InWindow(w, r.due) /\ r.due <= Horizon)
    <3>1. r.due <= i + 60
      BY <1>4, <2>8 DEF IdleInv
    <3>2. InWindow(w, r.due) /\ r.due <= Horizon => r.due = now
      BY <2>2, <2>8 DEF PlanInv
    <3> QED  BY <1>1, <3>1, <3>2
  <2> QED  BY <1>1, <1>4, <2>1, <2>4, <2>6, <2>7, <2>8 DEF IdleInv
<1> QED  BY <1>2, <1>3, <1>4

LEMMA IdleNext ==
  ASSUME DailyWindows, TimerInv, TimerInv', [Next]_vars,
         \A k \in Manager : PlanInv(k), \A k \in Manager : PlanInv(k)',
         \A k \in Manager : IdleInv(k)
  PROVE  \A k \in Manager : IdleInv(k)'
<1>1. CASE Tick /\ History
  BY <1>1, IdleTick
<1>2. ASSUME NEW m \in Manager, Step(m), History
      PROVE  \A k \in Manager : IdleInv(k)'
  <2>1. StepShape(m)
    BY <1>2, StepMoves DEF TimerInv
  <2> QED  BY <1>2, <2>1, IdleStep
<1>3. CASE UNCHANGED vars
  <2>1. /\ now' = now /\ window' = window /\ mgr' = mgr /\ since' = since
        /\ known' = known
    BY <1>3 DEF vars, mechanism
  <2>2. ASSUME NEW k \in Manager PROVE Idle(k)' <=> Idle(k)
    BY <2>1 DEF Idle, Contained, KnownAt, OpenAt
  <2> QED  BY <2>1, <2>2 DEF IdleInv
<1> QED  BY <1>1, <1>2, <1>3 DEF Next

LEMMA IdleBound ==
  ASSUME TimerInv, \A k \in Manager : PlanInv(k) /\ IdleInv(k)
  PROVE  OwnerOpens
<1> SUFFICES ASSUME NEW m \in Manager PROVE now <= since[m].idle + 60
  BY DEF OwnerOpens, Minute
<1> DEFINE r == mgr[m]
           i == since[m].idle
<1>1. /\ now \in Nat /\ now < Never /\ Never \in Nat /\ i \in Int /\ r.due \in Int /\ r.due >= now
      /\ r.state \in States
  BY NowIsSoon, Horizons, MgrFields DEF TimerInv, Typed, Timely, Since
<1>2. CASE i = Never
  BY <1>1, <1>2
<1>3. CASE i # Never
  <2>1. r.state \notin {"begin", "running", "returned"}
    BY <1>3 DEF PlanInv, IdleInv, Idle
  <2>2. i = now \/ r.due <= i + 60
    BY <1>1, <1>3, <2>1 DEF IdleInv, States
  <2> HIDE DEF i, r
  <2> QED  BY <1>1, <2>2 DEF i
<1> QED  BY <1>2, <1>3

(* Of a queue whose window is always open, or open or closed for some hours  *)
(* of every day, an owner whose queue is contained and in its window opens   *)
(* it within a minute, whatever closed it before and whatever becomes of the *)
(* other queues, nodes and keys (queue_manager.go, the resets of the timers; *)
(* window.go, the starts it answers).                                        *)
THEOREM OwnersOpen ==
  ASSUME DailyWindows
  PROVE  Spec => []OwnerOpens
<1>1. Init => \A k \in Manager : PlanInv(k) /\ IdleInv(k)
  BY PlanInit DEF Init, IdleInv
<1>2. TimerInv /\ TimerInv' /\ [Next]_vars /\ (\A k \in Manager : PlanInv(k) /\ IdleInv(k))
        => (\A k \in Manager : PlanInv(k) /\ IdleInv(k))'
  BY PlanNext, IdleNext
<1>3. TimerInv /\ (\A k \in Manager : PlanInv(k) /\ IdleInv(k)) => OwnerOpens
  BY IdleBound
<1> QED  BY <1>1, <1>2, <1>3, Timers, PTL DEF Spec

-----------------------------------------------------------------------------
(* The days on which a window recurs. *)
Rules == {"day", "weekday", "weekend", "day_of_week", "month", "year"}

IsRecurring(w) ==
  /\ w.kind \in {"every", "always_except"} /\ w.recurrence.every \in Rules
  /\ w.recurrence.every = "day_of_week" => w.recurrence.weekday \in 0 .. 6
  /\ w.start \in TimesOfDay /\ w.end \in TimesOfDay /\ w.start < w.end

Fits(r, n) ==
  /\ r.every = "day_of_week" => Weekday(n) = r.weekday
  /\ r.every = "weekday" => ~IsWeekend(Weekday(n))
  /\ r.every = "weekend" => IsWeekend(Weekday(n))
  /\ r.every = "month" => DateOf(n).day = r.day
  /\ r.every = "year" => DateOf(n).day = r.day /\ DateOf(n).month = r.month

(* No day beyond the next year is counted to from the last days of one: it   *)
(* is the year that grows by the number of days.                             *)
NotAtYearsEnd(t) == DateOf(DayOf(t)).month = 12 => DateOf(DayOf(t)).day <= 24

LEMMA FirstsGrow ==
  ASSUME NEW year \in Epoch .. Epoch + 3, NEW month \in 1 .. 12, NEW later \in 1 .. 13, month < later
  PROVE  FirstOf(month + 1, year) <= FirstOf(later, year) /\ FirstOf(month, year) < FirstOf(later, year)
<1>1. month + 1 \in 1 .. 13 /\ month \in 1 .. 13 /\ year \in Int
  BY DEF Epoch
<1>2. /\ DaysBeforeMonth[month + 1] <= DaysBeforeMonth[later]
      /\ DaysBeforeMonth[month] < DaysBeforeMonth[later]
      /\ DaysBeforeMonth[month] \in Int /\ DaysBeforeMonth[month + 1] \in Int
      /\ DaysBeforeMonth[later] \in Int
  BY DEF DaysBeforeMonth
<1>3. LeapDays(year) \in Int
  BY <1>1 DEF LeapDays, Epoch
<1>4. /\ IsLeap(year) /\ month + 1 > 2 => IsLeap(year) /\ later > 2
      /\ IsLeap(year) /\ month > 2 => IsLeap(year) /\ later > 2
  OBVIOUS
<1> QED  BY <1>1, <1>2, <1>3, <1>4 DEF FirstOf, Epoch

LEMMA NewYears ==
  /\ FirstOf(1, 2015) = 0 /\ FirstOf(1, 2016) = 365 /\ FirstOf(1, 2017) = 731
  /\ FirstOf(1, 2018) = 1096 /\ FirstOf(1, 2019) = 1461
BY DEF FirstOf, LeapDays, IsLeap, DaysBeforeMonth, Epoch

(* A month is over when a later one of another year begins. *)
LEMMA YearsGrow ==
  ASSUME NEW year \in Epoch .. Epoch + 3, NEW after \in Epoch .. Epoch + 3, year < after,
         NEW month \in 1 .. 12, NEW later \in 1 .. 12
  PROVE  FirstOf(month + 1, year) <= FirstOf(later, after) /\ FirstOf(month, year) < FirstOf(later, after)
<1>1. /\ year \in Int /\ after \in Int /\ month \in 1 .. 13 /\ month + 1 \in 1 .. 13
      /\ later \in 1 .. 13 /\ 1 \in 1 .. 13 /\ 13 \in 1 .. 13
  BY DEF Epoch
<1>2. /\ FirstOf(month, year) \in Int /\ FirstOf(month + 1, year) \in Int
      /\ FirstOf(13, year) \in Int /\ FirstOf(1, after) \in Int /\ FirstOf(later, after) \in Int
  BY <1>1, FirstOfIsInt
<1>3. FirstOf(13, year) <= FirstOf(1, after)
  <2>1. FirstOf(13, year) = FirstOf(1, year + 1)
    BY YearsFollow
  <2>2. \/ year = 2015 /\ after \in 2016 .. 2018
        \/ year = 2016 /\ after \in 2017 .. 2018
        \/ year = 2017 /\ after = 2018
    BY DEF Epoch
  <2>3. FirstOf(1, year + 1) <= FirstOf(1, after)
    BY <2>2, NewYears
  <2> QED  BY <2>1, <2>3
<1>4. FirstOf(month + 1, year) <= FirstOf(13, year) /\ FirstOf(month, year) < FirstOf(13, year)
  <2>1. 13 \in 1 .. 13 /\ month < 13
    OBVIOUS
  <2> QED  BY <2>1, FirstsGrow
<1>5. FirstOf(1, after) <= FirstOf(later, after)
  <2>1. later = 1 \/ 1 < later
    OBVIOUS
  <2>2. 1 \in 1 .. 12
    OBVIOUS
  <2>3. 1 < later => FirstOf(1, after) < FirstOf(later, after)
    BY <1>1, <2>2, FirstsGrow
  <2> QED  BY <1>2, <2>1, <2>3
<1> QED  BY <1>2, <1>3, <1>4, <1>5

(* A date by its fields. *)
LEMMA DateFacts ==
  ASSUME NEW n \in Nat, n <= 1460, NEW d, d = DateOf(n)
  PROVE  /\ d = [day |-> d.day, month |-> d.month, year |-> d.year]
         /\ d.day \in Int /\ 1 <= d.day /\ d.month \in 1 .. 12 /\ d.year \in Epoch .. Epoch + 3
         /\ FirstOf(d.month, d.year) \in Int /\ FirstOf(d.month + 1, d.year) \in Int
         /\ n = FirstOf(d.month, d.year) + d.day - 1
         /\ n < FirstOf(d.month + 1, d.year)
<1>1. /\ d \in Dates /\ d.year \in Epoch .. Epoch + 3 /\ DayNumber(d) = n
      /\ 1 <= d.day /\ d.day <= DaysInMonth(d.month, d.year)
  BY DateOfDay
<1>2. d.day \in Int /\ d.month \in 1 .. 12 /\ d.month + 1 \in 1 .. 13 /\ d.month \in 1 .. 13 /\ d.year \in Int
  BY <1>1, DateFields
<1>3. FirstOf(d.month, d.year) \in Int /\ FirstOf(d.month + 1, d.year) \in Int
  BY <1>2, FirstOfIsInt
<1>4. d = [day |-> d.day, month |-> d.month, year |-> d.year]
  BY <1>1 DEF Dates
<1> QED  BY <1>1, <1>2, <1>3, <1>4 DEF DayNumber, DaysInMonth

(* Later days have later dates. *)
LEMMA LaterDate ==
  ASSUME NEW n \in Nat, NEW k \in Nat, n <= k, k <= 1460,
         NEW d, d = DateOf(n), NEW e, e = DateOf(k)
  PROVE  \/ d.year < e.year
         \/ d.year = e.year /\ d.month < e.month
         \/ d.year = e.year /\ d.month = e.month /\ d.day <= e.day
<1>1. /\ d.day \in Int /\ 1 <= d.day /\ d.month \in 1 .. 12 /\ d.year \in Epoch .. Epoch + 3
      /\ FirstOf(d.month, d.year) \in Int /\ FirstOf(d.month + 1, d.year) \in Int
      /\ n = FirstOf(d.month, d.year) + d.day - 1
      /\ n < FirstOf(d.month + 1, d.year)
  <2>1. n <= 1460
    OBVIOUS
  <2> QED  BY <2>1, DateFacts
<1>2. /\ e.day \in Int /\ 1 <= e.day /\ e.month \in 1 .. 12 /\ e.year \in Epoch .. Epoch + 3
      /\ FirstOf(e.month, e.year) \in Int /\ FirstOf(e.month + 1, e.year) \in Int
      /\ k = FirstOf(e.month, e.year) + e.day - 1
      /\ k < FirstOf(e.month + 1, e.year)
  BY DateFacts
<1>3. d.year \in Int /\ e.year \in Int
  BY <1>1, <1>2 DEF Epoch
<1>4. ~(e.year < d.year)
  <2> SUFFICES ASSUME e.year < d.year PROVE FALSE
    OBVIOUS
  <2>1. FirstOf(e.month + 1, e.year) <= FirstOf(d.month, d.year)
    BY <1>1, <1>2, YearsGrow
  <2> QED  BY <1>1, <1>2, <2>1
<1>5. ~(e.year = d.year /\ e.month < d.month)
  <2> SUFFICES ASSUME e.year = d.year, e.month < d.month PROVE FALSE
    OBVIOUS
  <2>0. d.month \in 1 .. 13
    BY <1>1
  <2>1. FirstOf(e.month + 1, e.year) <= FirstOf(d.month, e.year)
    BY <1>1, <1>2, <2>0, FirstsGrow
  <2> QED  BY <1>1, <1>2, <2>1
<1>6. d.year = e.year /\ d.month = e.month => d.day <= e.day
  BY <1>1, <1>2
<1> QED  BY <1>1, <1>2, <1>3, <1>4, <1>5, <1>6

LEMMA DaysLater ==
  ASSUME NEW n \in Nat, n <= 1460, NEW j \in 1 .. 7,
         DateOf(n).month = 12 => DateOf(n).day <= 24
  PROVE  DayNumber(AddDays(DateOf(n), j)) = n + j
<1> DEFINE d == DateOf(n)
<1>1. /\ d = [day |-> d.day, month |-> d.month, year |-> d.year]
      /\ d.day \in Int /\ 1 <= d.day /\ d.month \in 1 .. 12 /\ d.year \in Epoch .. Epoch + 3
      /\ FirstOf(d.month, d.year) \in Int /\ FirstOf(d.month + 1, d.year) \in Int
      /\ n = FirstOf(d.month, d.year) + d.day - 1
      /\ n < FirstOf(d.month + 1, d.year)
  BY DateFacts
<1>2. d.month = 12 => d.day <= 24
  OBVIOUS
<1> HIDE DEF d
<1> DEFINE first == FirstOf(d.month, d.year)
           next == FirstOf(d.month + 1, d.year)
           over == d.day + j - (next - first)
<1>3. AddDays(d, j) = IF over <= 0 THEN [d EXCEPT !.day = d.day + j]
                      ELSE IF d.month = 12
                      THEN [day |-> over, month |-> 1, year |-> d.year + j]
                      ELSE [d EXCEPT !.day = over, !.month = d.month + 1]
  BY DEF AddDays, DaysInMonth
<1>4. d.month = 12 => over <= 0
  <2> SUFFICES ASSUME d.month = 12 PROVE over <= 0
    OBVIOUS
  <2>1. next - first = 31
    <3>1. d.year \in Int /\ LeapDays(d.year) \in Int
      BY <1>1 DEF LeapDays, Epoch
    <3>2. DaysBeforeMonth[13] = 365 /\ DaysBeforeMonth[12] = 334
      BY DEF DaysBeforeMonth
    <3>3. FirstOf(13, d.year) - FirstOf(12, d.year) = 31
      BY <3>1, <3>2 DEF FirstOf, Epoch
    <3> QED  BY <3>3
  <2> QED  BY <1>1, <1>2, <2>1
<1>5. first \in Int /\ next \in Int /\ over \in Int /\ n = first + d.day - 1
  BY <1>1
<1>6. over = d.day + j - (next - first)
  OBVIOUS
<1> HIDE DEF over
<1>7. CASE over <= 0
  <2>1. AddDays(d, j) = [d EXCEPT !.day = d.day + j]
    BY <1>3, <1>7
  <2>2. DayNumber(AddDays(d, j)) = first + (d.day + j) - 1
    BY <1>1, <2>1 DEF DayNumber
  <2> QED  BY <1>1, <1>5, <2>2 DEF d
<1>8. CASE ~(over <= 0)
  <2>1. AddDays(d, j) = [d EXCEPT !.day = over, !.month = d.month + 1]
    BY <1>3, <1>4, <1>8
  <2>2. DayNumber(AddDays(d, j)) = next + over - 1
    BY <1>1, <2>1 DEF DayNumber
  <2> HIDE DEF first, next
  <2>3. next + over - 1 = n + j
    BY <1>1, <1>5, <1>6
  <2> QED  BY <2>2, <2>3 DEF d
<1> QED  BY <1>7, <1>8

(* The days of the week follow each other. *)
LEMMA DaysOfWeek ==
  ASSUME NEW n \in Nat, NEW x \in 0 .. 6
  PROVE  /\ Weekday(n) \in 0 .. 6
         /\ Weekday(n + x) = IF Weekday(n) + x <= 6 THEN Weekday(n) + x ELSE Weekday(n) + x - 7
<1> DEFINE q == (n + 4) \div 7
           k == (n + 4) % 7
<1>1. q \in Nat /\ k \in 0 .. 6 /\ n + 4 = 7 * q + k
  OBVIOUS
<1>2. Weekday(n) = k /\ Weekday(n + x) = (n + x + 4) % 7
  BY DEF Weekday
<1> HIDE DEF q, k
<1>3. CASE k + x <= 6
  <2>1. n + x + 4 = 7 * q + (k + x) /\ k + x \in 0 .. 6
    BY <1>1, <1>3
  <2>2. (n + x + 4) % 7 = k + x
    BY <1>1, <2>1
  <2> QED  BY <1>1, <1>2, <1>3, <2>2
<1>4. CASE ~(k + x <= 6)
  <2>1. n + x + 4 = 7 * (q + 1) + (k + x - 7) /\ k + x - 7 \in 0 .. 6
    BY <1>1, <1>4
  <2>2. (n + x + 4) % 7 = k + x - 7
    BY <1>1, <2>1
  <2> QED  BY <1>1, <1>2, <1>4, <2>2
<1> QED  BY <1>3, <1>4

(* No opening is skipped: a window does not start after a day on which it    *)
(* recurs has begun to be open, or now.                                      *)
NotSkipped(w, t, times) ==
  \A n \in Nat :
     n <= 1460 /\ Fits(w.recurrence, n) /\ t < At(n, w.end) =>
        /\ times.start \in Int
        /\ times.start <= At(n, w.start) \/ times.start <= t

LEMMA RecurringHours ==
  ASSUME NEW w, IsRecurring(w)
  PROVE  w.start \in Nat /\ w.end \in Nat /\ w.start < w.end /\ w.end < 1440
<1>1. w.start \in Nat /\ w.end \in Nat
  BY TimesAreNat DEF IsRecurring
<1>2. w.end < 1440
  <2> DEFINE e == w.end
  <2>1. e \in TimesOfDay
    BY DEF IsRecurring
  <2> HIDE DEF e
  <2>2. e < 1440
    BY <2>1, TimeOfDay
  <2> QED  BY <2>2 DEF e
<1> QED  BY <1>1, <1>2 DEF IsRecurring

(* A window that is not over yet on a day: the day is not over. *)
LEMMA NotOver ==
  ASSUME NEW t \in Nat, NEW n \in Nat, NEW e \in Nat, e < 1440, t < At(n, e)
  PROVE  DayOf(t) <= n /\ (DayOf(t) = n => MinuteOf(t) < e)
<1> DEFINE d == DayOf(t)
           m == MinuteOf(t)
<1>1. d \in Nat /\ m \in Nat /\ m < 1440 /\ 86400 * d + 60 * m <= t
  BY Instant
<1>2. At(n, e) = 86400 * n + 60 * e
  BY AtDay
<1> HIDE DEF d, m
<1>3. 86400 * d + 60 * m < 86400 * n + 60 * e
  BY <1>1, <1>2
<1>4. d <= n
  <2>1. n < d => 86400 * n + 86400 <= 86400 * d
    BY <1>1
  <2> QED  BY <1>1, <1>3, <2>1
<1>5. d = n => m < e
  <2> SUFFICES ASSUME d = n PROVE m < e
    OBVIOUS
  <2>1. 86400 * d = 86400 * n
    OBVIOUS
  <2> QED  BY <1>1, <1>3, <2>1
<1> QED  BY <1>4, <1>5 DEF d, m

LEMMA AtGrows ==
  ASSUME NEW k \in Int, NEW n \in Int, k <= n, NEW minute \in Int
  PROVE  At(k, minute) \in Int /\ At(k, minute) <= At(n, minute)
<1>1. At(k, minute) = 86400 * k + 60 * minute /\ At(n, minute) = 86400 * n + 60 * minute
  BY AtIs
<1> QED  BY <1>1

(* An answer that starts on a day no later than those to come. *)
LEMMA StartsOn ==
  ASSUME NEW w, IsRecurring(w), NEW t \in Nat, NEW k, NEW times,
         times.start = At(k, w.start),
         \A n \in Nat : n <= 1460 /\ Fits(w.recurrence, n) /\ t < At(n, w.end) => k \in Int /\ k <= n
  PROVE  NotSkipped(w, t, times)
<1> SUFFICES ASSUME NEW n \in Nat, n <= 1460, Fits(w.recurrence, n), t < At(n, w.end)
             PROVE  times.start \in Int /\ times.start <= At(n, w.start)
  BY DEF NotSkipped
<1>1. k \in Int /\ k <= n
  OBVIOUS
<1>2. n \in Int /\ n \in Nat
  OBVIOUS
<1> DEFINE b == w.start
<1>3. b \in Int
  <2>1. b \in Nat
    BY RecurringHours
  <2> QED  BY <2>1
<1> HIDE DEF b
<1>4. At(k, b) \in Int /\ At(k, b) <= At(n, b)
  BY <1>1, <1>2, <1>3, AtGrows
<1> QED  BY <1>4 DEF b

LEMMA BetweenStarts ==
  ASSUME NEW w, IsRecurring(w), NEW t \in Nat, NEW first, NEW last,
         \A n \in Nat : n <= 1460 /\ Fits(w.recurrence, n) /\ t < At(n, w.end) =>
                            DayNumber(first) \in Int /\ DayNumber(first) <= n
  PROVE  NotSkipped(w, t, Between(w, first, last))
<1>1. Between(w, first, last).start = At(DayNumber(first), w.start)
  BY DEF Between, TimeStamp
<1> QED  BY <1>1, StartsOn

LEMMA ForTodayNotSkipped ==
  ASSUME NEW w, IsRecurring(w), NEW t, Soon(t), NEW cached, NotSkipped(w, t, cached), NEW last
  PROVE  NotSkipped(w, t, DeriveForToday(w, t, cached, DateOf(DayOf(t)), last))
<1> DEFINE d == DayOf(t)
           m == MinuteOf(t)
           today == DateOf(d)
           tomorrow == AddDays(today, 1)
<1>0. t \in Nat /\ d \in Nat /\ d <= 1460 /\ m \in Nat
  BY TimeParts, TimeOfDay DEF Soon
<1>1. w.start \in Nat /\ w.end \in Nat /\ w.start < w.end /\ w.end < 1440
  BY RecurringHours
<1>2. DayNumber(today) = d /\ DayNumber(tomorrow) = d + 1
  BY <1>0, DateOfDay, Tomorrow
<1>3. \A n \in Nat : t < At(n, w.end) => d <= n /\ (d = n => m < w.end)
  BY <1>0, <1>1, NotOver
<1>8. DeriveForToday(w, t, cached, today, last) =
        IF w.start <= m /\ m < w.end
        THEN [start |-> t, end |-> TimeStamp(last, w.end)]
        ELSE IF w.start > m THEN Between(w, today, last)
        ELSE IF w.start <= m /\ w.end < m THEN Between(w, tomorrow, AddDays(last, 1))
        ELSE cached
  <2>1. DeriveForToday(w, t, cached, today, last) =
          CASE w.start <= m /\ m < w.end -> [start |-> t, end |-> TimeStamp(last, w.end)]
            [] w.start > m -> Between(w, today, last)
            [] w.start <= m /\ w.end < m -> Between(w, tomorrow, AddDays(last, 1))
            [] OTHER -> cached
    BY DEF DeriveForToday
  <2> HIDE DEF m, today, tomorrow
  <2>2. (w.start > m => ~(w.start <= m)) /\ (w.end < m => ~(m < w.end))
    BY <1>0, <1>1
  <2> QED  BY <2>1, <2>2
<1> HIDE DEF today, tomorrow, d, m
<1>4. CASE w.start <= m /\ m < w.end
  <2>1. DeriveForToday(w, t, cached, today, last).start = t
    BY <1>4, <1>8
  <2> QED  BY <1>0, <2>1 DEF NotSkipped, today, d
<1>5. CASE w.start > m
  <2>1. DeriveForToday(w, t, cached, today, last) = Between(w, today, last)
    BY <1>0, <1>1, <1>5, <1>8
  <2>2. NotSkipped(w, t, Between(w, today, last))
    BY <1>0, <1>2, <1>3, BetweenStarts
  <2> QED  BY <2>1, <2>2 DEF today, d
<1>6. CASE w.start <= m /\ w.end < m
  <2>1. DeriveForToday(w, t, cached, today, last) = Between(w, tomorrow, AddDays(last, 1))
    BY <1>0, <1>1, <1>6, <1>8
  <2>2. \A n \in Nat : t < At(n, w.end) => d + 1 <= n
    BY <1>0, <1>1, <1>3, <1>6
  <2>3. NotSkipped(w, t, Between(w, tomorrow, AddDays(last, 1)))
    BY <1>0, <1>2, <2>2, BetweenStarts
  <2> QED  BY <2>1, <2>3 DEF today, d
<1>7. CASE w.start <= m /\ w.end = m
  <2>1. DeriveForToday(w, t, cached, today, last) = cached
    BY <1>0, <1>1, <1>7, <1>8
  <2> QED  BY <2>1 DEF today, d
<1> QED  BY <1>0, <1>1, <1>4, <1>5, <1>6, <1>7

LEMMA AheadNotSkipped ==
  ASSUME NEW w, IsRecurring(w), NEW t, Soon(t), NotAtYearsEnd(t), NEW j \in 1 .. 7,
         \A n \in Nat : n <= 1460 /\ Fits(w.recurrence, n) /\ t < At(n, w.end) => DayOf(t) + j <= n
  PROVE  NotSkipped(w, t, DaysAhead(w, DateOf(DayOf(t)), j))
<1> DEFINE d == DayOf(t)
           today == DateOf(d)
<1>0. t \in Nat /\ d \in Nat /\ d <= 1460
  BY TimeParts DEF Soon
<1>1. DayNumber(AddDays(today, j)) = d + j
  BY <1>0, DaysLater DEF NotAtYearsEnd
<1>2. DaysAhead(w, today, j) = Between(w, AddDays(today, j), AddDays(EndDate(w, today), j))
  BY DEF DaysAhead
<1>3. NotSkipped(w, t, Between(w, AddDays(today, j), AddDays(EndDate(w, today), j)))
  <2>1. d + j \in Int
    BY <1>0
  <2>2. \A n \in Nat : n <= 1460 /\ Fits(w.recurrence, n) /\ t < At(n, w.end) => d + j <= n
    OBVIOUS
  <2> HIDE DEF today, d
  <2> QED  BY <1>0, <1>1, <2>1, <2>2, BetweenStarts
<1> QED  BY <1>2, <1>3

(* What each rule generates. *)
LEMMA SameDayEnd ==
  ASSUME NEW w, IsRecurring(w), NEW d
  PROVE  EndDate(w, d) = d
<1>1. w.start \in Nat /\ w.end \in Nat /\ w.start < w.end
  BY RecurringHours
<1>2. ~(w.end < w.start)
  BY <1>1
<1> QED  BY <1>2 DEF EndDate

LEMMA NowParts ==
  ASSUME NEW t, Soon(t)
  PROVE  t \in Nat /\ DayOf(t) \in Nat /\ DayOf(t) <= 1460 /\ MinuteOf(t) \in Nat
<1>1. t \in Nat /\ DayOf(t) <= 1460
  BY DEF Soon
<1>2. DayOf(t) \in Nat /\ MinuteOf(t) \in TimesOfDay
  BY <1>1, TimeParts
<1> QED  BY <1>1, <1>2, TimesAreNat

LEMMA DaysToCome ==
  ASSUME NEW w, IsRecurring(w), NEW t \in Nat, NEW n \in Nat, t < At(n, w.end)
  PROVE  DayOf(t) \in Nat /\ DayOf(t) <= n /\ (DayOf(t) = n => MinuteOf(t) < w.end)
<1> DEFINE e == w.end
<1>1. e \in Nat /\ e < 1440
  BY RecurringHours
<1>2. t < At(n, e)
  OBVIOUS
<1> HIDE DEF e
<1>3. DayOf(t) <= n /\ (DayOf(t) = n => MinuteOf(t) < e)
  BY <1>1, <1>2, NotOver
<1>4. DayOf(t) \in Nat
  BY TimeParts
<1> QED  BY <1>3, <1>4 DEF e

LEMMA DaysOfThisWeek ==
  ASSUME NEW d \in Nat, NEW n \in Nat, d <= n, n < d + 7
  PROVE  /\ Weekday(d) \in 0 .. 6 /\ Weekday(n) \in 0 .. 6
         /\ Weekday(n) = IF Weekday(d) + (n - d) <= 6 THEN Weekday(d) + (n - d)
                         ELSE Weekday(d) + (n - d) - 7
<1> DEFINE x == n - d
<1>1. x \in 0 .. 6 /\ d + x = n
  OBVIOUS
<1> HIDE DEF x
<1>2. /\ Weekday(d) \in 0 .. 6
      /\ Weekday(d + x) = IF Weekday(d) + x <= 6 THEN Weekday(d) + x ELSE Weekday(d) + x - 7
  BY <1>1, DaysOfWeek
<1>3. Weekday(n) \in 0 .. 6
  <2>1. 0 \in 0 .. 6
    OBVIOUS
  <2> QED  BY <2>1, DaysOfWeek
<1> QED  BY <1>1, <1>2, <1>3 DEF x

LEMMA DaysUntil ==
  ASSUME NEW d \in Nat, NEW n \in Nat, d <= n, NEW k, k = Weekday(d), NEW meant, meant = Weekday(n)
  PROVE  /\ k \in 0 .. 6 /\ meant \in 0 .. 6
         /\ k = meant => n = d \/ d + 7 <= n
         /\ k < meant => d + (meant - k) <= n
         /\ k > meant => d + ((6 - k) + meant + 1) <= n
<1>1. k \in 0 .. 6 /\ meant \in 0 .. 6
  <2>1. 0 \in 0 .. 6
    OBVIOUS
  <2>2. Weekday(d) \in 0 .. 6
    BY <2>1, DaysOfWeek
  <2>3. Weekday(n) \in 0 .. 6
    BY <2>1, DaysOfWeek
  <2> QED  BY <2>2, <2>3
<1>2. n < d + 7 => meant = k + (n - d) \/ meant = k + (n - d) - 7
  <2>1. ASSUME n < d + 7
        PROVE  Weekday(n) = Weekday(d) + (n - d) \/ Weekday(n) = Weekday(d) + (n - d) - 7
    BY <2>1, DaysOfThisWeek
  <2> QED  BY <2>1
<1>3. k \in Int /\ meant \in Int /\ 0 <= k /\ k <= 6 /\ 0 <= meant /\ meant <= 6
  BY <1>1
<1>4. CASE ~(n < d + 7)
  BY <1>1, <1>4
<1>5. CASE n < d + 7 /\ meant = k + (n - d)
  <2>1. n = d + (meant - k) /\ ~(k > meant)
    BY <1>3, <1>5
  <2>2. k = meant => n = d
    BY <1>3, <2>1
  <2> QED  BY <1>1, <1>3, <2>1, <2>2
<1>6. CASE n < d + 7 /\ meant = k + (n - d) - 7
  BY <1>1, <1>3, <1>6
<1> QED  BY <1>2, <1>4, <1>5, <1>6

LEMMA DayKeeps ==
  ASSUME NEW w, IsRecurring(w), NEW t, Soon(t), NEW cached, NotSkipped(w, t, cached)
  PROVE  NotSkipped(w, t, EveryDay(w, t, cached))
BY ForTodayNotSkipped DEF EveryDay

LEMMA DayOfWeekKeeps ==
  ASSUME NEW w, IsRecurring(w), w.recurrence.every = "day_of_week",
         NEW t, Soon(t), NotAtYearsEnd(t), NEW cached, NotSkipped(w, t, cached)
  PROVE  NotSkipped(w, t, EveryDayOfWeek(w, t, cached))
<1>1. PICK d : d = DayOf(t)
  OBVIOUS
<1>2. PICK k : k = Weekday(d)
  OBVIOUS
<1>3. PICK meant : meant = w.recurrence.weekday
  OBVIOUS
<1>4. PICK m : m = MinuteOf(t)
  OBVIOUS
<1>5. PICK today : today = DateOf(d)
  OBVIOUS
<1>6. PICK g : g = EveryDayOfWeek(w, t, cached)
  OBVIOUS
<1>7. t \in Nat /\ d \in Nat /\ m \in Nat /\ w.end \in Nat
  BY <1>1, <1>4, NowParts, RecurringHours
<1>8. ASSUME NEW n \in Nat, n <= 1460, Fits(w.recurrence, n), t < At(n, w.end)
      PROVE  /\ k \in 0 .. 6 /\ meant \in 0 .. 6
             /\ d <= n /\ (d = n => m < w.end)
             /\ k = meant => n = d \/ d + 7 <= n
             /\ k < meant => d + (meant - k) <= n
             /\ k > meant => d + ((6 - k) + meant + 1) <= n
  <2>1. Weekday(n) = meant
    BY <1>3, <1>8 DEF Fits
  <2>2. d <= n /\ (d = n => m < w.end)
    BY <1>1, <1>4, <1>7, <1>8, DaysToCome
  <2> QED  BY <1>2, <1>7, <2>1, <2>2, DaysUntil
<1>9. ASSUME NEW j \in 1 .. 7,
             \A n \in Nat : n <= 1460 /\ Fits(w.recurrence, n) /\ t < At(n, w.end) => d + j <= n
      PROVE  NotSkipped(w, t, DaysAhead(w, today, j))
  BY <1>1, <1>5, <1>9, AheadNotSkipped
<1>10. CASE meant \notin 0 .. 6
  BY <1>8, <1>10 DEF NotSkipped
<1>11. CASE meant \in 0 .. 6
  <2>0. k \in 0 .. 6
    <3>1. 0 \in 0 .. 6
      OBVIOUS
    <3> QED  BY <1>2, <1>7, <3>1, DaysOfWeek
  <2>1. CASE k = meant /\ w.end < m /\ EndDate(w, today).day = today.day
    <3>1. ~(k < meant) /\ ~(k > meant)
      BY <1>11, <2>0, <2>1
    <3>2. g = DaysAhead(w, today, 7)
      BY <1>1, <1>2, <1>3, <1>4, <1>5, <1>6, <2>1, <3>1 DEF EveryDayOfWeek
    <3>3. \A n \in Nat : n <= 1460 /\ Fits(w.recurrence, n) /\ t < At(n, w.end) => d + 7 <= n
      <4>1. ~(m < w.end)
        BY <1>7, <2>1
      <4> QED  BY <1>8, <2>1, <4>1
    <3>4. 7 \in 1 .. 7
      OBVIOUS
    <3> QED  BY <1>6, <1>9, <3>2, <3>3, <3>4
  <2>2. CASE k = meant /\ ~(w.end < m /\ EndDate(w, today).day = today.day)
    <3>1. ~(k < meant) /\ ~(k > meant)
      BY <1>11, <2>0, <2>2
    <3>2. g = DeriveForToday(w, t, cached, today, EndDate(w, today))
      BY <1>1, <1>2, <1>3, <1>4, <1>5, <1>6, <2>2, <3>1 DEF EveryDayOfWeek
    <3> QED  BY <1>1, <1>5, <1>6, <3>2, ForTodayNotSkipped
  <2>3. CASE k < meant
    <3>1. k # meant /\ ~(k > meant)
      BY <1>11, <2>0, <2>3
    <3>2. g = DaysAhead(w, today, meant - k)
      BY <1>1, <1>2, <1>3, <1>4, <1>5, <1>6, <2>3, <3>1 DEF EveryDayOfWeek
    <3>3. meant - k \in 1 .. 7
      BY <1>11, <2>0, <2>3
    <3>4. NotSkipped(w, t, DaysAhead(w, today, meant - k))
      BY <1>8, <1>9, <2>3, <3>3
    <3> QED  BY <1>6, <3>2, <3>4
  <2>4. CASE k > meant
    <3>1. k # meant /\ ~(k < meant)
      BY <1>11, <2>0, <2>4
    <3>2. g = DaysAhead(w, today, (6 - k) + meant + 1)
      BY <1>1, <1>2, <1>3, <1>4, <1>5, <1>6, <2>4, <3>1 DEF EveryDayOfWeek
    <3>3. (6 - k) + meant + 1 \in 1 .. 7
      BY <1>11, <2>0, <2>4
    <3>4. NotSkipped(w, t, DaysAhead(w, today, (6 - k) + meant + 1))
      BY <1>8, <1>9, <2>4, <3>3
    <3> QED  BY <1>6, <3>2, <3>4
  <2>5. k = meant \/ k < meant \/ k > meant
    BY <1>11, <2>0
  <2> QED  BY <2>1, <2>2, <2>3, <2>4, <2>5
<1> QED  BY <1>10, <1>11

LEMMA WeekKeeps ==
  ASSUME NEW w, IsRecurring(w), NEW t, Soon(t), NotAtYearsEnd(t), NEW cached, NotSkipped(w, t, cached)
  PROVE  /\ w.recurrence.every = "weekday" => NotSkipped(w, t, EveryWeekday(w, t, cached))
         /\ w.recurrence.every = "weekend" => NotSkipped(w, t, EveryWeekend(w, t, cached))
<1> DEFINE d == DayOf(t)
           k == Weekday(d)
           today == DateOf(d)
<1>0. t \in Nat /\ d \in Nat
  BY TimeParts DEF Soon
<1>1. ASSUME NEW j \in 1 .. 7,
             \A n \in Nat : d <= n /\ n < d + j => ~Fits(w.recurrence, n)
      PROVE  NotSkipped(w, t, DaysAhead(w, today, j))
  <2>1. ASSUME NEW n \in Nat, n <= 1460, Fits(w.recurrence, n), t < At(n, w.end)
        PROVE  d + j <= n
    <3>1. d <= n
      BY <1>0, <2>1, DaysToCome
    <3> HIDE DEF d
    <3>2. ~(n < d + j)
      BY <1>1, <2>1, <3>1
    <3> QED  BY <1>0, <3>2
  <2>2. \A n \in Nat : n <= 1460 /\ Fits(w.recurrence, n) /\ t < At(n, w.end) => DayOf(t) + j <= n
    BY <2>1
  <2> QED  BY <2>2, AheadNotSkipped
<1>2. \A n \in Nat : d <= n /\ n < d + 7 =>
                        Weekday(n) = IF k + (n - d) <= 6 THEN k + (n - d) ELSE k + (n - d) - 7
  BY <1>0, DaysOfThisWeek
<1>3. k \in 0 .. 6
  <2>1. 0 \in 0 .. 6
    OBVIOUS
  <2> QED  BY <1>0, <2>1, DaysOfWeek
<1>4. NotSkipped(w, t, DeriveForToday(w, t, cached, today, EndDate(w, today)))
  BY ForTodayNotSkipped
<1>5. IsWeekend(k) <=> k = 0 \/ k = 6
  BY DEF IsWeekend, Saturday, Sunday
<1>6. ASSUME w.recurrence.every = "weekday" PROVE NotSkipped(w, t, EveryWeekday(w, t, cached))
  <2>1. CASE ~IsWeekend(k)
    BY <1>4, <2>1 DEF EveryWeekday
  <2>2. CASE k = 0
    <3>1. EveryWeekday(w, t, cached) = DaysAhead(w, today, 1)
      BY <1>5, <2>2 DEF EveryWeekday, Sunday
    <3>2. \A n \in Nat : d <= n /\ n < d + 1 => ~Fits(w.recurrence, n)
      <4> TAKE n \in Nat
      <4> HAVE d <= n /\ n < d + 1
      <4>1. n = d
        BY <1>0
      <4> QED  BY <1>5, <1>6, <2>2, <4>1 DEF Fits
    <3>3. 1 \in 1 .. 7
      OBVIOUS
    <3> QED  BY <1>1, <3>1, <3>2, <3>3
  <2>3. CASE k = 6
    <3>1. EveryWeekday(w, t, cached) = DaysAhead(w, today, 2)
      BY <1>5, <2>3 DEF EveryWeekday, Sunday
    <3>2. \A n \in Nat : d <= n /\ n < d + 2 => ~Fits(w.recurrence, n)
      <4> TAKE n \in Nat
      <4> HAVE d <= n /\ n < d + 2
      <4>1. Weekday(n) = 6 \/ Weekday(n) = 0
        <5> HIDE DEF d, k
        <5> QED  BY <1>0, <1>2, <2>3
      <4> QED  BY <1>6, <4>1 DEF Fits, IsWeekend, Saturday, Sunday
    <3>3. 2 \in 1 .. 7
      OBVIOUS
    <3> QED  BY <1>1, <3>1, <3>2, <3>3
  <2> QED  BY <1>5, <2>1, <2>2, <2>3
<1>7. ASSUME w.recurrence.every = "weekend" PROVE NotSkipped(w, t, EveryWeekend(w, t, cached))
  <2>1. CASE IsWeekend(k)
    BY <1>4, <2>1 DEF EveryWeekend
  <2>2. CASE ~IsWeekend(k)
    <3>1. EveryWeekend(w, t, cached) = DaysAhead(w, today, 6 - k)
      BY <2>2 DEF EveryWeekend, Saturday
    <3>2. k \in 1 .. 5
      <4> HIDE DEF k
      <4> QED  BY <1>3, <1>5, <2>2
    <3>3. \A n \in Nat : d <= n /\ n < d + (6 - k) => ~Fits(w.recurrence, n)
      <4> TAKE n \in Nat
      <4> HAVE d <= n /\ n < d + (6 - k)
      <4>1. Weekday(n) # 6 /\ Weekday(n) # 0
        <5> HIDE DEF d, k
        <5> QED  BY <1>0, <1>2, <3>2
      <4> QED  BY <1>7, <4>1 DEF Fits, IsWeekend, Saturday, Sunday
    <3>4. 6 - k \in 1 .. 7
      <4> HIDE DEF k
      <4> QED  BY <3>2
    <3> HIDE DEF d, k, today
    <3> QED  BY <1>1, <3>1, <3>3, <3>4
  <2> QED  BY <2>1, <2>2
<1> QED  BY <1>6, <1>7

(* The months that begin between two days. *)
LEMMA MonthsBetween ==
  ASSUME NEW n \in Nat, NEW k \in Nat, n <= k, k <= 1460,
         NEW d, d = DateOf(n), NEW e, e = DateOf(k)
  PROVE  /\ FirstOf(d.month, d.year) <= FirstOf(e.month, e.year)
         /\ d.day > e.day => FirstOf(d.month + 1, d.year) <= FirstOf(e.month, e.year)
<1>1. n <= 1460
  OBVIOUS
<1>2. /\ d.day \in Int /\ d.month \in 1 .. 12 /\ d.year \in Epoch .. Epoch + 3
      /\ FirstOf(d.month, d.year) \in Int /\ FirstOf(d.month + 1, d.year) \in Int
  BY <1>1, DateFacts
<1>3. /\ e.day \in Int /\ e.month \in 1 .. 12 /\ e.year \in Epoch .. Epoch + 3
      /\ FirstOf(e.month, e.year) \in Int
  BY DateFacts
<1>4. \/ d.year < e.year
      \/ d.year = e.year /\ d.month < e.month
      \/ d.year = e.year /\ d.month = e.month /\ d.day <= e.day
  BY LaterDate
<1>5. CASE d.year < e.year
  <2>1. /\ FirstOf(d.month + 1, d.year) <= FirstOf(e.month, e.year)
        /\ FirstOf(d.month, d.year) < FirstOf(e.month, e.year)
    BY <1>2, <1>3, <1>5, YearsGrow
  <2> QED  BY <1>2, <1>3, <2>1
<1>6. CASE d.year = e.year /\ d.month < e.month
  <2>0. e.month \in 1 .. 13
    BY <1>3
  <2>1. /\ FirstOf(d.month + 1, d.year) <= FirstOf(e.month, d.year)
        /\ FirstOf(d.month, d.year) < FirstOf(e.month, d.year)
    BY <1>2, <1>6, <2>0, FirstsGrow
  <2> QED  BY <1>2, <1>3, <1>6, <2>1
<1>7. CASE d.year = e.year /\ d.month = e.month /\ d.day <= e.day
  <2>1. ~(d.day > e.day)
    BY <1>2, <1>3, <1>7
  <2>2. FirstOf(d.month, d.year) = FirstOf(e.month, e.year)
    BY <1>7
  <2> QED  BY <1>2, <2>1, <2>2
<1> QED  BY <1>4, <1>5, <1>6, <1>7

LEMMA MonthKeeps ==
  ASSUME NEW w, IsRecurring(w), w.recurrence.every = "month",
         NEW t, Soon(t), NEW cached, NotSkipped(w, t, cached)
  PROVE  NotSkipped(w, t, EveryMonth(w, t, cached))
<1>1. PICK d : d = DayOf(t)
  OBVIOUS
<1>2. PICK today : today = DateOf(d)
  OBVIOUS
<1>3. PICK meant : meant = w.recurrence.day
  OBVIOUS
<1>4. PICK first : first = [today EXCEPT !.day = meant]
  OBVIOUS
<1>5. t \in Nat /\ d \in Nat /\ d <= 1460
  BY <1>1, NowParts
<1>6. /\ today = [day |-> today.day, month |-> today.month, year |-> today.year]
      /\ today.day \in Int /\ today.month \in 1 .. 12 /\ today.year \in Epoch .. Epoch + 3
      /\ FirstOf(today.month, today.year) \in Int /\ FirstOf(today.month + 1, today.year) \in Int
  BY <1>2, <1>5, DateFacts
<1>7. /\ first.day = meant /\ first.month = today.month /\ first.year = today.year
      /\ AddMonth(first) = IF today.month = 12 THEN [first EXCEPT !.month = 1, !.year = today.year + 1]
                           ELSE [first EXCEPT !.month = today.month + 1]
      /\ DOMAIN first = {"day", "month", "year"}
  BY <1>4, <1>6 DEF AddMonth
<1>8. EndDate(w, first) = first
  BY SameDayEnd
<1>9. EveryMonth(w, t, cached) =
        CASE meant < today.day -> Between(w, AddMonth(first), AddMonth(first))
          [] meant > today.day -> Between(w, first, first)
          [] OTHER -> DeriveForToday(w, t, cached, first, first)
  BY <1>1, <1>2, <1>3, <1>4, <1>7, <1>8 DEF EveryMonth
<1>10. ASSUME NEW n \in Nat, n <= 1460, Fits(w.recurrence, n), t < At(n, w.end)
       PROVE  /\ meant \in Int
              /\ n = FirstOf(DateOf(n).month, DateOf(n).year) + meant - 1
              /\ FirstOf(DateOf(n).month, DateOf(n).year) \in Int
              /\ FirstOf(today.month, today.year) <= FirstOf(DateOf(n).month, DateOf(n).year)
              /\ today.day > meant =>
                   FirstOf(today.month + 1, today.year) <= FirstOf(DateOf(n).month, DateOf(n).year)
  <2>1. DateOf(n).day = meant
    BY <1>3, <1>10 DEF Fits
  <2>2. d <= n
    BY <1>1, <1>5, <1>10, DaysToCome
  <2>3. /\ DateOf(n).day \in Int
        /\ n = FirstOf(DateOf(n).month, DateOf(n).year) + DateOf(n).day - 1
        /\ FirstOf(DateOf(n).month, DateOf(n).year) \in Int
    BY <1>10, DateFacts
  <2>4. /\ FirstOf(today.month, today.year) <= FirstOf(DateOf(n).month, DateOf(n).year)
        /\ today.day > DateOf(n).day =>
             FirstOf(today.month + 1, today.year) <= FirstOf(DateOf(n).month, DateOf(n).year)
    BY <1>2, <1>5, <1>10, <2>2, MonthsBetween
  <2> QED  BY <2>1, <2>3, <2>4
<1>11. CASE meant \notin Int
  BY <1>10, <1>11 DEF NotSkipped
<1>12. CASE meant \in Int /\ meant < today.day
  <2>1. EveryMonth(w, t, cached) = Between(w, AddMonth(first), AddMonth(first))
    <3>1. ~(meant > today.day)
      BY <1>6, <1>12
    <3> QED  BY <1>9, <1>12, <3>1
  <2>2. DayNumber(AddMonth(first)) = FirstOf(today.month + 1, today.year) + meant - 1
    <3>1. CASE today.month = 12
      <4>1. /\ AddMonth(first).day = meant /\ AddMonth(first).month = 1
            /\ AddMonth(first).year = today.year + 1
        BY <1>4, <1>6, <3>1 DEF AddMonth
      <4>2. FirstOf(1, today.year + 1) = FirstOf(13, today.year)
        BY <1>6, YearsFollow
      <4>3. today.month + 1 = 13
        BY <3>1
      <4> QED  BY <4>1, <4>2, <4>3 DEF DayNumber
    <3>2. CASE today.month # 12
      <4>1. /\ AddMonth(first).day = meant /\ AddMonth(first).month = today.month + 1
            /\ AddMonth(first).year = today.year
        BY <1>4, <1>6, <3>2 DEF AddMonth
      <4> QED  BY <4>1 DEF DayNumber
    <3> QED  BY <3>1, <3>2
  <2>3. ASSUME NEW n \in Nat, n <= 1460, Fits(w.recurrence, n), t < At(n, w.end)
        PROVE  DayNumber(AddMonth(first)) \in Int /\ DayNumber(AddMonth(first)) <= n
    <3>1. today.day > meant
      BY <1>6, <1>12
    <3>2. /\ n = FirstOf(DateOf(n).month, DateOf(n).year) + meant - 1
          /\ FirstOf(DateOf(n).month, DateOf(n).year) \in Int
          /\ FirstOf(today.month + 1, today.year) <= FirstOf(DateOf(n).month, DateOf(n).year)
      BY <1>10, <2>3, <3>1
    <3> QED  BY <1>6, <1>12, <2>2, <3>2
  <2>4. NotSkipped(w, t, Between(w, AddMonth(first), AddMonth(first)))
    BY <1>5, <2>3, BetweenStarts
  <2> QED  BY <2>1, <2>4
<1>13. CASE meant \in Int /\ meant > today.day
  <2>1. EveryMonth(w, t, cached) = Between(w, first, first)
    <3>1. ~(meant < today.day)
      BY <1>6, <1>13
    <3> QED  BY <1>9, <1>13, <3>1
  <2>2. DayNumber(first) = FirstOf(today.month, today.year) + meant - 1
    BY <1>7 DEF DayNumber
  <2>3. ASSUME NEW n \in Nat, n <= 1460, Fits(w.recurrence, n), t < At(n, w.end)
        PROVE  DayNumber(first) \in Int /\ DayNumber(first) <= n
    <3>1. /\ n = FirstOf(DateOf(n).month, DateOf(n).year) + meant - 1
          /\ FirstOf(DateOf(n).month, DateOf(n).year) \in Int
          /\ FirstOf(today.month, today.year) <= FirstOf(DateOf(n).month, DateOf(n).year)
      BY <1>10, <2>3
    <3> QED  BY <1>6, <1>13, <2>2, <3>1
  <2>4. NotSkipped(w, t, Between(w, first, first))
    BY <1>5, <2>3, BetweenStarts
  <2> QED  BY <2>1, <2>4
<1>14. CASE meant \in Int /\ meant = today.day
  <2>1. ~(meant < today.day) /\ ~(meant > today.day)
    BY <1>6, <1>14
  <2>2. first = today
    BY <1>4, <1>6, <1>14
  <2>3. EveryMonth(w, t, cached) = DeriveForToday(w, t, cached, today, today)
    BY <1>9, <2>1, <2>2
  <2> QED  BY <1>1, <1>2, <2>3, ForTodayNotSkipped
<1>15. meant \in Int => meant < today.day \/ meant > today.day \/ meant = today.day
  BY <1>6
<1> QED  BY <1>11, <1>12, <1>13, <1>14, <1>15

(* The same day of the year, in this year and later. *)
LEMMA SameDayOfYear ==
  ASSUME NEW year \in Epoch .. Epoch + 3, NEW after \in Epoch .. Epoch + 3, year <= after,
         NEW month \in 1 .. 12
  PROVE  /\ FirstOf(month, year) \in Int /\ FirstOf(month, after) \in Int
         /\ FirstOf(month, year) <= FirstOf(month, after)
         /\ year < after => FirstOf(month, year + 1) \in Int /\ FirstOf(month, year + 1) <= FirstOf(month, after)
<1>1. ASSUME NEW y \in Epoch .. Epoch + 3 PROVE FirstOf(month, y) \in Int
  <2>1. month \in 1 .. 13 /\ y \in Int
    BY DEF Epoch
  <2> QED  BY <2>1, FirstOfIsInt
<1>2. ASSUME NEW y \in Epoch .. Epoch + 3, y <= after PROVE FirstOf(month, y) <= FirstOf(month, after)
  <2>1. y \in Int /\ after \in Int
    BY DEF Epoch
  <2>2. CASE y < after
    <3>1. FirstOf(month, y) < FirstOf(month, after)
      BY <2>2, YearsGrow
    <3> QED  BY <1>1, <3>1
  <2>3. CASE y = after
    BY <1>1, <2>3
  <2> QED  BY <1>2, <2>1, <2>2, <2>3
<1>3. year < after => year + 1 \in Epoch .. Epoch + 3 /\ year + 1 <= after
  BY DEF Epoch
<1> QED  BY <1>1, <1>2, <1>3

LEMMA YearKeeps ==
  ASSUME NEW w, IsRecurring(w), w.recurrence.every = "year",
         NEW t, Soon(t), NEW cached, NotSkipped(w, t, cached)
  PROVE  NotSkipped(w, t, EveryYear(w, t, cached))
<1>1. PICK d : d = DayOf(t)
  OBVIOUS
<1>2. PICK today : today = DateOf(d)
  OBVIOUS
<1>3. PICK day : day = w.recurrence.day
  OBVIOUS
<1>4. PICK month : month = w.recurrence.month
  OBVIOUS
<1>5. PICK first : first = [day |-> day, month |-> month, year |-> today.year]
  OBVIOUS
<1>6. t \in Nat /\ d \in Nat /\ d <= 1460
  BY <1>1, NowParts
<1>7. /\ today = [day |-> today.day, month |-> today.month, year |-> today.year]
      /\ today.day \in Int /\ today.month \in 1 .. 12 /\ today.year \in Epoch .. Epoch + 3
  BY <1>2, <1>6, DateFacts
<1>8. EndDate(w, first) = first
  BY SameDayEnd
<1>9. EveryYear(w, t, cached) = DeriveForYear(w, t, cached, first, first)
  BY <1>1, <1>2, <1>3, <1>4, <1>5, <1>8 DEF EveryYear
<1>10. DeriveForYear(w, t, cached, first, first) =
         CASE month < today.month \/ (month = today.month /\ day < today.day) ->
                Between(w, AddYear(first), AddYear(first))
           [] month > today.month \/ (month = today.month /\ day > today.day) ->
                Between(w, first, first)
           [] OTHER -> DeriveForToday(w, t, cached, first, first)
  <2>1. first.day = day /\ first.month = month
    BY <1>5
  <2> QED  BY <1>1, <1>2, <2>1 DEF DeriveForYear
<1>11. ASSUME NEW n \in Nat, n <= 1460, Fits(w.recurrence, n), t < At(n, w.end)
       PROVE  /\ day \in Int /\ month \in 1 .. 12
              /\ DateOf(n).year \in Epoch .. Epoch + 3
              /\ FirstOf(month, DateOf(n).year) \in Int
              /\ n = FirstOf(month, DateOf(n).year) + day - 1
              /\ \/ today.year < DateOf(n).year
                 \/ today.year = DateOf(n).year /\ today.month < month
                 \/ today.year = DateOf(n).year /\ today.month = month /\ today.day <= day
  <2>1. DateOf(n).day = day /\ DateOf(n).month = month
    BY <1>3, <1>4, <1>11 DEF Fits
  <2>2. d <= n
    BY <1>1, <1>6, <1>11, DaysToCome
  <2>3. /\ DateOf(n).day \in Int /\ DateOf(n).month \in 1 .. 12
        /\ DateOf(n).year \in Epoch .. Epoch + 3
        /\ n = FirstOf(DateOf(n).month, DateOf(n).year) + DateOf(n).day - 1
        /\ FirstOf(DateOf(n).month, DateOf(n).year) \in Int
    BY <1>11, DateFacts
  <2>4. \/ today.year < DateOf(n).year
        \/ today.year = DateOf(n).year /\ today.month < DateOf(n).month
        \/ today.year = DateOf(n).year /\ today.month = DateOf(n).month /\ today.day <= DateOf(n).day
    BY <1>2, <1>6, <1>11, <2>2, LaterDate
  <2> QED  BY <2>1, <2>3, <2>4
<1>12. CASE ~(day \in Int /\ month \in 1 .. 12)
  BY <1>11, <1>12 DEF NotSkipped
<1>13. CASE /\ day \in Int /\ month \in 1 .. 12
            /\ month < today.month \/ (month = today.month /\ day < today.day)
  <2>1. EveryYear(w, t, cached) = Between(w, AddYear(first), AddYear(first))
    <3>1. ~(month > today.month \/ (month = today.month /\ day > today.day))
      BY <1>7, <1>13
    <3> QED  BY <1>9, <1>10, <1>13, <3>1
  <2>2. DayNumber(AddYear(first)) = FirstOf(month, today.year + 1) + day - 1
    <3>1. /\ AddYear(first).day = day /\ AddYear(first).month = month
          /\ AddYear(first).year = today.year + 1
      BY <1>5 DEF AddYear
    <3> QED  BY <3>1 DEF DayNumber
  <2>3. ASSUME NEW n \in Nat, n <= 1460, Fits(w.recurrence, n), t < At(n, w.end)
        PROVE  DayNumber(AddYear(first)) \in Int /\ DayNumber(AddYear(first)) <= n
    <3>0. /\ DateOf(n).year \in Epoch .. Epoch + 3
          /\ FirstOf(month, DateOf(n).year) \in Int
          /\ n = FirstOf(month, DateOf(n).year) + day - 1
          /\ \/ today.year < DateOf(n).year
             \/ today.year = DateOf(n).year /\ today.month < month
             \/ today.year = DateOf(n).year /\ today.month = month /\ today.day <= day
      BY <1>11, <2>3
    <3>1. today.year < DateOf(n).year
      BY <1>7, <1>13, <3>0
    <3>2. today.year <= DateOf(n).year
      BY <1>7, <3>0, <3>1 DEF Epoch
    <3>3. /\ FirstOf(month, today.year + 1) \in Int
          /\ FirstOf(month, today.year + 1) <= FirstOf(month, DateOf(n).year)
      BY <1>7, <1>13, <3>0, <3>1, <3>2, SameDayOfYear
    <3> QED  BY <1>13, <2>2, <3>0, <3>3
  <2>4. NotSkipped(w, t, Between(w, AddYear(first), AddYear(first)))
    BY <1>6, <2>3, BetweenStarts
  <2> QED  BY <2>1, <2>4
<1>14. CASE /\ day \in Int /\ month \in 1 .. 12
            /\ month > today.month \/ (month = today.month /\ day > today.day)
  <2>1. EveryYear(w, t, cached) = Between(w, first, first)
    <3>1. ~(month < today.month \/ (month = today.month /\ day < today.day))
      BY <1>7, <1>14
    <3> QED  BY <1>9, <1>10, <1>14, <3>1
  <2>2. DayNumber(first) = FirstOf(month, today.year) + day - 1
    BY <1>5 DEF DayNumber
  <2>3. ASSUME NEW n \in Nat, n <= 1460, Fits(w.recurrence, n), t < At(n, w.end)
        PROVE  DayNumber(first) \in Int /\ DayNumber(first) <= n
    <3>0. /\ DateOf(n).year \in Epoch .. Epoch + 3
          /\ FirstOf(month, DateOf(n).year) \in Int
          /\ n = FirstOf(month, DateOf(n).year) + day - 1
          /\ today.year < DateOf(n).year \/ today.year = DateOf(n).year
      BY <1>11, <2>3
    <3>1. today.year <= DateOf(n).year
      BY <1>7, <3>0 DEF Epoch
    <3>2. /\ FirstOf(month, today.year) \in Int
          /\ FirstOf(month, today.year) <= FirstOf(month, DateOf(n).year)
      BY <1>7, <1>14, <3>0, <3>1, SameDayOfYear
    <3> QED  BY <1>14, <2>2, <3>0, <3>2
  <2>4. NotSkipped(w, t, Between(w, first, first))
    BY <1>6, <2>3, BetweenStarts
  <2> QED  BY <2>1, <2>4
<1>15. CASE day \in Int /\ month \in 1 .. 12 /\ month = today.month /\ day = today.day
  <2>1. /\ ~(month < today.month \/ (month = today.month /\ day < today.day))
        /\ ~(month > today.month \/ (month = today.month /\ day > today.day))
    BY <1>7, <1>15
  <2>2. first = today
    BY <1>5, <1>7, <1>15
  <2>3. EveryYear(w, t, cached) = DeriveForToday(w, t, cached, today, today)
    BY <1>9, <1>10, <2>1, <2>2
  <2> QED  BY <1>1, <1>2, <2>3, ForTodayNotSkipped
<1>16. day \in Int /\ month \in 1 .. 12 =>
         \/ month < today.month \/ (month = today.month /\ day < today.day)
         \/ month > today.month \/ (month = today.month /\ day > today.day)
         \/ month = today.month /\ day = today.day
  BY <1>7
<1> QED  BY <1>12, <1>13, <1>14, <1>15, <1>16

LEMMA RuleOf ==
  ASSUME NEW w, IsRecurring(w), NEW t, NEW cached
  PROVE  /\ w.recurrence.every = "day" => Generate(w, t, cached) = EveryDay(w, t, cached)
         /\ w.recurrence.every = "day_of_week" => Generate(w, t, cached) = EveryDayOfWeek(w, t, cached)
         /\ w.recurrence.every = "weekday" => Generate(w, t, cached) = EveryWeekday(w, t, cached)
         /\ w.recurrence.every = "weekend" => Generate(w, t, cached) = EveryWeekend(w, t, cached)
         /\ w.recurrence.every = "month" => Generate(w, t, cached) = EveryMonth(w, t, cached)
         /\ w.recurrence.every = "year" => Generate(w, t, cached) = EveryYear(w, t, cached)
         /\ \/ w.recurrence.every = "day" \/ w.recurrence.every = "day_of_week"
            \/ w.recurrence.every = "weekday" \/ w.recurrence.every = "weekend"
            \/ w.recurrence.every = "month" \/ w.recurrence.every = "year"
<1>1. w.kind \in {"every", "always_except"} /\ w.recurrence.every \in Rules
  BY DEF IsRecurring
<1>2. w.recurrence.every = "day" => Generate(w, t, cached) = EveryDay(w, t, cached)
  BY <1>1 DEF Generate
<1>3. w.recurrence.every = "day_of_week" => Generate(w, t, cached) = EveryDayOfWeek(w, t, cached)
  BY <1>1 DEF Generate
<1>4. w.recurrence.every = "weekday" => Generate(w, t, cached) = EveryWeekday(w, t, cached)
  BY <1>1 DEF Generate
<1>5. w.recurrence.every = "weekend" => Generate(w, t, cached) = EveryWeekend(w, t, cached)
  BY <1>1 DEF Generate
<1>6. w.recurrence.every = "month" => Generate(w, t, cached) = EveryMonth(w, t, cached)
  BY <1>1 DEF Generate
<1>7. w.recurrence.every = "year" => Generate(w, t, cached) = EveryYear(w, t, cached)
  BY <1>1 DEF Generate
<1> QED  BY <1>1, <1>2, <1>3, <1>4, <1>5, <1>6, <1>7 DEF Rules

LEMMA GenerateKeeps ==
  ASSUME NEW w, IsRecurring(w), NEW t, Soon(t), NotAtYearsEnd(t), NEW cached, NotSkipped(w, t, cached)
  PROVE  NotSkipped(w, t, Generate(w, t, cached))
<1>1. CASE w.recurrence.every = "day"
  BY <1>1, RuleOf, DayKeeps
<1>2. CASE w.recurrence.every = "day_of_week"
  BY <1>2, RuleOf, DayOfWeekKeeps
<1>3. CASE w.recurrence.every = "weekday"
  BY <1>3, RuleOf, WeekKeeps
<1>4. CASE w.recurrence.every = "weekend"
  BY <1>4, RuleOf, WeekKeeps
<1>5. CASE w.recurrence.every = "month"
  BY <1>5, RuleOf, MonthKeeps
<1>6. CASE w.recurrence.every = "year"
  BY <1>6, RuleOf, YearKeeps
<1> QED  BY <1>1, <1>2, <1>3, <1>4, <1>5, <1>6, RuleOf

LEMMA RecurringInstants ==
  ASSUME NEW w, IsRecurring(w), NEW n \in Nat
  PROVE  At(n, w.start) \in Int /\ At(n, w.end) \in Int
<1>1. ASSUME NEW minute \in Nat PROVE At(n, minute) \in Int
  <2>1. minute \in Int /\ n \in Int
    OBVIOUS
  <2> QED  BY <2>1, AtIs
<1> QED  BY <1>1, RecurringHours

(* What was not skipped is not skipped later. *)
LEMMA NotSkippedLater ==
  ASSUME NEW w, IsRecurring(w), NEW t \in Int, NEW u \in Int, t <= u, NEW times, NotSkipped(w, t, times)
  PROVE  NotSkipped(w, u, times)
<1> SUFFICES ASSUME NEW n \in Nat, n <= 1460, Fits(w.recurrence, n), u < At(n, w.end)
             PROVE  /\ times.start \in Int
                    /\ times.start <= At(n, w.start) \/ times.start <= u
  BY DEF NotSkipped
<1>1. At(n, w.end) \in Int
  BY RecurringInstants
<1>2. t < At(n, w.end)
  BY <1>1
<1>3. times.start \in Int /\ (times.start <= At(n, w.start) \/ times.start <= t)
  BY <1>2 DEF NotSkipped
<1>4. times.start <= t => times.start <= u
  BY <1>3
<1> QED  BY <1>3, <1>4

LEMMA RefreshKeeps ==
  ASSUME NEW w, IsRecurring(w), NEW t, Soon(t), NotAtYearsEnd(t), NEW cached, NotSkipped(w, t, cached)
  PROVE  NotSkipped(w, t, Refresh(w, t, cached))
BY GenerateKeeps DEF Refresh

LEMMA UnsetKeeps ==
  ASSUME NEW w, NEW t \in Nat, NEW times, times.start = Zero
  PROVE  NotSkipped(w, t, times)
<1>1. times.start \in Int /\ times.start <= t
  BY DEF Zero
<1> QED  BY <1>1 DEF NotSkipped

(* While the window lasts on a day: it is this day, in these hours. *)
LEMMA DayItLasts ==
  ASSUME NEW w, IsRecurring(w), NEW t \in Nat, NEW n \in Nat, At(n, w.start) <= t, t < At(n, w.end)
  PROVE  DayOf(t) = n /\ w.start <= MinuteOf(t) /\ MinuteOf(t) < w.end
<1>1. PICK d : d = DayOf(t)
  OBVIOUS
<1>2. PICK m : m = MinuteOf(t)
  OBVIOUS
<1>3. PICK b : b = w.start
  OBVIOUS
<1>4. d \in Nat /\ m \in Nat /\ m < 1440 /\ t < 86400 * d + 60 * m + 60
  BY <1>1, <1>2, Instant
<1>5. d <= n /\ (d = n => m < w.end)
  BY <1>1, <1>2, DaysToCome
<1>6. b \in Nat
  BY <1>3, RecurringHours
<1>7. 86400 * n + 60 * b <= t
  <2>1. b \in Int /\ n \in Int
    BY <1>6
  <2>2. At(n, b) = 86400 * n + 60 * b
    BY <2>1, AtIs
  <2> QED  BY <1>3, <2>2
<1>8. 86400 * n + 60 * b < 86400 * d + 60 * m + 60
  BY <1>4, <1>6, <1>7
<1>9. n <= d
  <2>1. d < n => 86400 * d + 86400 <= 86400 * n
    BY <1>4
  <2> QED  BY <1>4, <1>6, <1>8, <2>1
<1>10. d = n
  BY <1>4, <1>5, <1>9
<1>11. b <= m
  <2>1. 86400 * d = 86400 * n
    BY <1>10
  <2>2. 60 * b < 60 * m + 60
    BY <1>4, <1>6, <1>8, <2>1
  <2> QED  BY <1>4, <1>6, <2>2
<1> QED  BY <1>1, <1>2, <1>3, <1>5, <1>10, <1>11

LEMMA GenerateAnswers ==
  ASSUME NEW w, IsRecurring(w), NEW t, Soon(t), NEW cached,
         NEW n \in Nat, Fits(w.recurrence, n), At(n, w.start) <= t, t < At(n, w.end)
  PROVE  Generate(w, t, cached) = [start |-> t, end |-> At(n, w.end)]
<1>0. t \in Nat
  BY NowParts
<1>1. DayOf(t) = n /\ w.start <= MinuteOf(t) /\ MinuteOf(t) < w.end /\ n <= 1460
  BY <1>0, DayItLasts, NowParts
<1>2. PICK today : today = DateOf(DayOf(t))
  OBVIOUS
<1>3. DayNumber(today) = n
  BY <1>1, <1>2, DateOfDay
<1>4. /\ today = [day |-> today.day, month |-> today.month, year |-> today.year]
      /\ today.day \in Int /\ today.month \in 1 .. 12
  BY <1>1, <1>2, DateFacts
<1>5. ~(w.end < MinuteOf(t))
  <2>1. MinuteOf(t) \in Nat /\ w.end \in Nat
    BY NowParts, RecurringHours
  <2> QED  BY <1>1, <2>1
<1>6. DeriveForToday(w, t, cached, today, today) = [start |-> t, end |-> At(n, w.end)]
  <2>1. ~(w.start > MinuteOf(t))
    <3>1. MinuteOf(t) \in Nat /\ w.start \in Nat
      BY NowParts, RecurringHours
    <3> QED  BY <1>1, <3>1
  <2>2. DeriveForToday(w, t, cached, today, today) = [start |-> t, end |-> TimeStamp(today, w.end)]
    BY <1>1, <1>5, <2>1 DEF DeriveForToday
  <2> QED  BY <1>3, <2>2 DEF TimeStamp
<1>7. EndDate(w, today) = today
  BY SameDayEnd
<1>8. CASE w.recurrence.every = "day"
  <2>1. EveryDay(w, t, cached) = DeriveForToday(w, t, cached, today, today)
    BY <1>2, <1>7 DEF EveryDay
  <2> QED  BY <1>6, <1>8, <2>1, RuleOf
<1>9. CASE w.recurrence.every = "day_of_week"
  <2>1. Weekday(n) = w.recurrence.weekday
    BY <1>9 DEF Fits
  <2>2. Weekday(DayOf(t)) = w.recurrence.weekday
    BY <1>1, <2>1
  <2>3. ~(Weekday(n) < Weekday(n)) /\ ~(Weekday(n) > Weekday(n))
    <3>1. 0 \in 0 .. 6
      OBVIOUS
    <3>2. Weekday(n) \in 0 .. 6
      BY <3>1, DaysOfWeek
    <3> QED  BY <3>2
  <2>4. EveryDayOfWeek(w, t, cached) = DeriveForToday(w, t, cached, today, today)
    BY <1>2, <1>5, <1>7, <2>1, <2>2, <2>3 DEF EveryDayOfWeek
  <2> QED  BY <1>6, <1>9, <2>4, RuleOf
<1>10. CASE w.recurrence.every = "weekday"
  <2>1. ~IsWeekend(Weekday(DayOf(t)))
    BY <1>1, <1>10 DEF Fits
  <2>2. EveryWeekday(w, t, cached) = DeriveForToday(w, t, cached, today, today)
    BY <1>2, <1>7, <2>1 DEF EveryWeekday
  <2> QED  BY <1>6, <1>10, <2>2, RuleOf
<1>11. CASE w.recurrence.every = "weekend"
  <2>1. IsWeekend(Weekday(DayOf(t)))
    BY <1>1, <1>11 DEF Fits
  <2>2. EveryWeekend(w, t, cached) = DeriveForToday(w, t, cached, today, today)
    BY <1>2, <1>7, <2>1 DEF EveryWeekend
  <2> QED  BY <1>6, <1>11, <2>2, RuleOf
<1>12. CASE w.recurrence.every = "month"
  <2>1. today.day = w.recurrence.day
    BY <1>1, <1>2, <1>12 DEF Fits
  <2>2. [today EXCEPT !.day = w.recurrence.day] = today
    BY <1>4, <2>1
  <2>3. ~(today.day < today.day) /\ ~(today.day > today.day)
    BY <1>4
  <2>4. EveryMonth(w, t, cached) = DeriveForToday(w, t, cached, today, today)
    BY <1>2, <1>7, <2>2, <2>3 DEF EveryMonth
  <2> QED  BY <1>6, <1>12, <2>4, RuleOf
<1>13. CASE w.recurrence.every = "year"
  <2>1. today.day = w.recurrence.day /\ today.month = w.recurrence.month
    BY <1>1, <1>2, <1>13 DEF Fits
  <2>2. [day |-> w.recurrence.day, month |-> w.recurrence.month, year |-> DateOf(DayOf(t)).year] = today
    BY <1>2, <1>4, <2>1
  <2>3. /\ ~(today.day < today.day) /\ ~(today.day > today.day)
        /\ ~(today.month < today.month) /\ ~(today.month > today.month)
    BY <1>4
  <2>4. EveryYear(w, t, cached) = DeriveForYear(w, t, cached, today, today)
    BY <1>7, <2>2 DEF EveryYear
  <2>5. DeriveForYear(w, t, cached, today, today) = DeriveForToday(w, t, cached, today, today)
    BY <1>2, <2>3 DEF DeriveForYear
  <2> QED  BY <1>6, <1>13, <2>4, <2>5, RuleOf
<1> QED  BY <1>8, <1>9, <1>10, <1>11, <1>12, <1>13, RuleOf

(* While the window lasts, what it answers is of this very day: nothing that *)
(* was answered before is of a later one.                                    *)
LEMMA RefreshAnswers ==
  ASSUME NEW w, IsRecurring(w), NEW t, Soon(t), NEW cached, NotSkipped(w, t, cached),
         NEW n \in Nat, Fits(w.recurrence, n), At(n, w.start) <= t, t < At(n, w.end)
  PROVE  Refresh(w, t, cached) = [start |-> t, end |-> At(n, w.end)]
<1>0. t \in Nat
  BY NowParts
<1>1. DayOf(t) = n /\ n <= 1460
  BY <1>0, DayItLasts, NowParts
<1>2. cached.start \in Int /\ (cached.start <= At(n, w.start) \/ cached.start <= t)
  BY <1>1 DEF NotSkipped
<1>3. At(n, w.start) \in Int
  BY RecurringInstants
<1>4. cached.start <= t
  BY <1>0, <1>2, <1>3
<1>5. t >= cached.start
  BY <1>0, <1>2, <1>4
<1>6. Refresh(w, t, cached) = Generate(w, t, cached)
  BY <1>5 DEF Refresh
<1> QED  BY <1>6, GenerateAnswers

-----------------------------------------------------------------------------
(* The states of the parser, by what it has read. *)
Beginnings == {"Start", "FirstTime", "SecondTime", "TimeModifier", "TimeRange", "AnyAlways",
               "AnyAlwaysClarification", "Never", "Exception", "Recurrence", "On", "Date", "Refused"}
OfDates == {"Calendar", "Clarification"}
Endings == {"Day", "Month", "RecurringByDayMonthYear", "Where", "TimeZoneParam", "Equals", "TimeZone",
            "Accepted"}

LEMMA StatesAre == DOMAIN Valid = Beginnings \cup OfDates \cup Endings
BY DEF Valid, Beginnings, OfDates, Endings

LEMMA ValidAt ==
  /\ Valid["Start"] = {"Time", "AnyAlways", "Never"}
  /\ Valid["FirstTime"] = {"TimeModifier", "TimeRange"}
  /\ Valid["SecondTime"] = {"TimeModifier", "Recurrence", "On"}
  /\ Valid["TimeModifier"] = {"TimeRange", "On", "Recurrence"}
  /\ Valid["TimeRange"] = {"Time"}
  /\ Valid["AnyAlways"] = {"AnyAlwaysClarification", "Exception", "End"}
  /\ Valid["AnyAlwaysClarification"] = {"Exception", "End"}
  /\ Valid["Never"] = {"End"}
  /\ Valid["Exception"] = {"Time", "Calendar"}
  /\ Valid["Recurrence"] = {"Day", "Calendar", "RecurringByDayMonthYear"}
  /\ Valid["On"] = {"Calendar"}
  /\ Valid["Date"] = {"Where", "End"}
  /\ Valid["Refused"] = {}
  /\ Valid["Calendar"] = {"RecurringByDayMonthYear", "Month", "Clarification"}
  /\ Valid["Clarification"] = {"RecurringByDayMonthYear", "Month", "Clarification"}
  /\ Valid["Day"] = {"Where", "End"}
  /\ Valid["Month"] = {"Where", "End"}
  /\ Valid["RecurringByDayMonthYear"] = {"Where", "End"}
  /\ Valid["Where"] = {"TimeZoneParam"}
  /\ Valid["TimeZoneParam"] = {"Equals"}
  /\ Valid["Equals"] = {"TimeZone"}
  /\ Valid["TimeZone"] = {"End"}
  /\ Valid["Accepted"] = {}
BY DEF Valid

LEMMA ValidAfter ==
  ASSUME NEW at \in DOMAIN Valid, NEW typ \in Valid[at]
  PROVE  /\ typ = "Time" => at \in {"Start", "TimeRange", "Exception"}
         /\ typ = "TimeModifier" => at \in {"FirstTime", "SecondTime"}
         /\ typ = "Calendar" => at \in {"Exception", "Recurrence", "On"}
         /\ typ = "Day" => at = "Recurrence"
         /\ typ = "RecurringByDayMonthYear" => at \in {"Recurrence"} \cup OfDates
         /\ typ = "Month" => at \in OfDates
         /\ typ = "Clarification" => at \in OfDates
         /\ typ \in Endings \ {"Day", "Month", "RecurringByDayMonthYear"} => at \in Endings \cup {"Date"}
         /\ typ = "End" => at \in (Beginnings \ {"Refused"}) \cup Endings
         /\ typ \in Beginnings => at \in Beginnings
         /\ typ \in (Beginnings \ {"FirstTime", "SecondTime", "Date", "Refused"})
                      \cup OfDates \cup (Endings \ {"Accepted"}) \cup {"Time", "End"}
<1>1. CASE at \in Beginnings
  BY <1>1, ValidAt DEF Beginnings, OfDates, Endings
<1>2. CASE at \in OfDates
  BY <1>2, ValidAt DEF Beginnings, OfDates, Endings
<1>3. CASE at \in Endings
  BY <1>3, ValidAt DEF Beginnings, OfDates, Endings
<1> QED  BY <1>1, <1>2, <1>3, StatesAre

LEMMA ParseIs ==
  ASSUME NEW p, NEW item
  PROVE  /\ item.typ \notin Valid[p.at] => Parse(p, item) = Refuse(p)
         /\ item.typ \in Valid[p.at] =>
              /\ item.typ = "Time" => Parse(p, item) = ParseTime(p, item.val)
              /\ item.typ = "TimeModifier" => Parse(p, item) = ParseTimeModifier(p, item.val)
              /\ item.typ = "Calendar" => Parse(p, item) = ParseCalendar(p, item)
              /\ item.typ = "RecurringByDayMonthYear" => Parse(p, item) = ParseRecurring(p, item)
              /\ item.typ \in {"Day", "Month"} =>
                   Parse(p, item) = UpdateRecurrence(Enter(p, item.typ), item)
              /\ item.typ = "AnyAlways" =>
                   Parse(p, item) = [Enter(p, "AnyAlways") EXCEPT !.alwaysOn = TRUE]
              /\ item.typ = "Never" =>
                   Parse(p, item) = [Enter(p, "Never") EXCEPT !.alwaysOff = TRUE]
              /\ item.typ = "End" => Parse(p, item) = Enter(p, "Accepted")
              /\ item.typ \notin {"Time", "TimeModifier", "Calendar", "RecurringByDayMonthYear", "Day",
                                  "Month", "AnyAlways", "Never", "End"} =>
                   Parse(p, item) = Enter(p, item.typ)
BY DEF Parse

(* What an item does to the parser. *)
IsParser(p) ==
  /\ p = [at |-> p.at, start |-> p.start, end |-> p.end, recurrence |-> p.recurrence, onDate |-> p.onDate,
          alwaysOn |-> p.alwaysOn, alwaysOff |-> p.alwaysOff, calendar |-> p.calendar]
  /\ p.at \in DOMAIN Valid

LEMMA Refusal ==
  ASSUME NEW p
  PROVE  IsParser(Refuse(p)) /\ Refuse(p).at = "Refused" /\ Refuse(p).recurrence = <<>>
<1>1. "Refused" \in DOMAIN Valid
  BY DEF Valid
<1>2. ParseStart =
        [at |-> "Start", start |-> None, end |-> None, recurrence |-> <<>>,
         onDate |-> NoDate, alwaysOn |-> FALSE, alwaysOff |-> FALSE, calendar |-> NoDate]
  BY DEF ParseStart
<1>3. PICK on, off :
        ParseStart =
          [at |-> "Start", start |-> None, end |-> None, recurrence |-> <<>>,
           onDate |-> NoDate, alwaysOn |-> on, alwaysOff |-> off, calendar |-> NoDate]
  BY <1>2, Zenon
<1>4. Refuse(p) =
        [at |-> "Refused", start |-> None, end |-> None, recurrence |-> <<>>,
         onDate |-> NoDate, alwaysOn |-> on, alwaysOff |-> off, calendar |-> NoDate]
  BY <1>3 DEF Refuse
<1> QED  BY <1>1, <1>4 DEF IsParser

TimesKept(p, q) == q.start = p.start /\ q.end = p.end
PartsKept(p, q) == q.recurrence = p.recurrence /\ q.calendar = p.calendar

LEMMA TimeEffect ==
  ASSUME NEW p, IsParser(p), NEW item, item.typ \in Valid[p.at], NEW q, q = Parse(p, item),
         item.typ = "Time"
  PROVE  /\ IsParser(q) /\ PartsKept(p, q)
         /\ p.start = None => q.at = "FirstTime" /\ q.start = item.val /\ q.end = p.end
         /\ p.start # None => q.at = "SecondTime" /\ q.start = p.start /\ q.end = item.val
<1>1. q = ParseTime(p, item.val)
  BY ParseIs
<1>2. {"FirstTime", "SecondTime"} \subseteq DOMAIN Valid
  BY DEF Valid
<1>3. CASE p.start = None
  <2>1. q = [[p EXCEPT !.at = "FirstTime"] EXCEPT !.start = item.val]
    BY <1>1, <1>3 DEF ParseTime, Enter
  <2> QED  BY <1>2, <1>3, <2>1 DEF IsParser, PartsKept
<1>4. CASE p.start # None
  <2>1. q = [[p EXCEPT !.at = "SecondTime"] EXCEPT !.end = item.val]
    BY <1>1, <1>4 DEF ParseTime, Enter
  <2> QED  BY <1>2, <1>4, <2>1 DEF IsParser, PartsKept
<1> QED  BY <1>3, <1>4

LEMMA ModifierEffect ==
  ASSUME NEW p, IsParser(p), NEW item, item.typ \in Valid[p.at], NEW q, q = Parse(p, item),
         item.typ = "TimeModifier"
  PROVE  /\ IsParser(q) /\ PartsKept(p, q) /\ q.at = "TimeModifier"
         /\ p.end = None => q.start = TwentyFour(item.val, p.start) /\ q.end = p.end
         /\ p.end # None => q.start = p.start /\ q.end = TwentyFour(item.val, p.end)
<1>1. q = ParseTimeModifier(p, item.val)
  BY ParseIs
<1>2. "TimeModifier" \in DOMAIN Valid
  BY DEF Valid
<1>3. CASE p.end = None
  <2>1. q = [[p EXCEPT !.at = "TimeModifier"] EXCEPT !.start = TwentyFour(item.val, p.start)]
    BY <1>1, <1>3 DEF ParseTimeModifier, Enter, IsParser
  <2> QED  BY <1>2, <1>3, <2>1 DEF IsParser, PartsKept
<1>4. CASE p.end # None
  <2>1. q = [[p EXCEPT !.at = "TimeModifier"] EXCEPT !.end = TwentyFour(item.val, p.end)]
    BY <1>1, <1>4 DEF ParseTimeModifier, Enter, IsParser
  <2> QED  BY <1>2, <1>4, <2>1 DEF IsParser, PartsKept
<1> QED  BY <1>3, <1>4

LEMMA PartEffect ==
  ASSUME NEW p, IsParser(p), NEW item, item.typ \in Valid[p.at], NEW q, q = Parse(p, item),
         item.typ \in {"Calendar", "RecurringByDayMonthYear", "Day", "Month"}
  PROVE  /\ IsParser(q)
         /\ \/ q.at = "Refused" /\ q.recurrence = <<>>
            \/ q.at = "Date" /\ item.typ = "Calendar" /\ TimesKept(p, q) /\ PartsKept(p, q)
            \/ /\ q.at = item.typ /\ TimesKept(p, q) /\ q.recurrence = Append(p.recurrence, item)
               /\ item.typ = "Calendar" => q.calendar = item.val
               /\ (item.typ = "RecurringByDayMonthYear" /\ item.val \in {"year", "yearly"})
                    => p.calendar.month # None
<1>1. {"Calendar", "RecurringByDayMonthYear", "Day", "Month", "Date"} \subseteq DOMAIN Valid
  BY DEF Valid
<1>2. CASE item.typ = "Calendar" /\ item.val.year # None
  <2>1. q = [[p EXCEPT !.at = "Date"] EXCEPT !.onDate = item.val]
    BY <1>2, ParseIs DEF ParseCalendar, Enter
  <2> QED  BY <1>1, <1>2, <2>1 DEF IsParser, TimesKept, PartsKept
<1>3. CASE item.typ = "Calendar" /\ item.val.year = None
  <2>1. q = [[[p EXCEPT !.at = "Calendar"] EXCEPT !.recurrence = Append(p.recurrence, item)]
               EXCEPT !.calendar = item.val]
    BY <1>3, ParseIs DEF ParseCalendar, Enter, UpdateRecurrence, IsParser
  <2> QED  BY <1>1, <1>3, <2>1 DEF IsParser, TimesKept
<1>4. CASE item.typ \in {"Day", "Month"}
  <2>1. q = [[p EXCEPT !.at = item.typ] EXCEPT !.recurrence = Append(p.recurrence, item)]
    BY <1>4, ParseIs DEF Enter, UpdateRecurrence, IsParser
  <2> QED  BY <1>1, <1>4, <2>1 DEF IsParser, TimesKept
<1>5. CASE item.typ = "RecurringByDayMonthYear" /\ item.val \in {"year", "yearly"} /\ p.calendar.month = None
  <2>1. q = Refuse(p)
    BY <1>5, ParseIs DEF ParseRecurring
  <2> QED  BY <2>1, Refusal
<1>6. CASE item.typ = "RecurringByDayMonthYear" /\ ~(item.val \in {"year", "yearly"} /\ p.calendar.month = None)
  <2>1. q = [[p EXCEPT !.at = "RecurringByDayMonthYear"] EXCEPT !.recurrence = Append(p.recurrence, item)]
    BY <1>6, ParseIs DEF ParseRecurring, Enter, UpdateRecurrence, IsParser
  <2> QED  BY <1>1, <1>6, <2>1 DEF IsParser, TimesKept
<1> QED  BY <1>2, <1>3, <1>4, <1>5, <1>6

LEMMA OtherEffect ==
  ASSUME NEW p, IsParser(p), NEW item, item.typ \in Valid[p.at], NEW q, q = Parse(p, item),
         item.typ \notin {"Time", "TimeModifier", "Calendar", "RecurringByDayMonthYear", "Day", "Month"}
  PROVE  /\ IsParser(q) /\ TimesKept(p, q) /\ PartsKept(p, q)
         /\ q.at = IF item.typ = "End" THEN "Accepted" ELSE item.typ
<1>1. item.typ # "End" => item.typ \in DOMAIN Valid
  <2>1. item.typ \in (Beginnings \ {"FirstTime", "SecondTime", "Date", "Refused"})
                       \cup OfDates \cup (Endings \ {"Accepted"}) \cup {"Time", "End"}
    BY ValidAfter DEF IsParser
  <2> QED  BY <2>1, StatesAre
<1>2. CASE item.typ = "AnyAlways"
  <2>1. q = [[p EXCEPT !.at = "AnyAlways"] EXCEPT !.alwaysOn = TRUE]
    BY <1>2, ParseIs DEF Enter
  <2> QED  BY <1>1, <1>2, <2>1 DEF IsParser, TimesKept, PartsKept
<1>3. CASE item.typ = "Never"
  <2>1. q = [[p EXCEPT !.at = "Never"] EXCEPT !.alwaysOff = TRUE]
    BY <1>3, ParseIs DEF Enter
  <2> QED  BY <1>1, <1>3, <2>1 DEF IsParser, TimesKept, PartsKept
<1>4. CASE item.typ = "End"
  <2>1. q = [p EXCEPT !.at = "Accepted"]
    BY <1>4, ParseIs DEF Enter
  <2>2. "Accepted" \in DOMAIN Valid
    BY DEF Valid
  <2> QED  BY <1>4, <2>1, <2>2 DEF IsParser, TimesKept, PartsKept
<1>5. CASE item.typ \notin {"AnyAlways", "Never", "End"}
  <2>1. q = [p EXCEPT !.at = item.typ]
    BY <1>5, ParseIs DEF Enter
  <2> QED  BY <1>1, <1>5, <2>1 DEF IsParser, TimesKept, PartsKept
<1> QED  BY <1>2, <1>3, <1>4, <1>5

-----------------------------------------------------------------------------
(* The times of day that are said. *)
TimesIn(s) == {i \in DOMAIN s : s[i].typ = "Time"}

ModIn(s, i) ==
  IF s[i].mod # "none" THEN s[i].mod
  ELSE IF i < Len(s) /\ s[i + 1].typ = "TimeModifier" THEN s[i + 1].val ELSE "none"

HourOf(mod, w) ==
  60 * (CASE mod = "am"   -> w.hour % 12
          [] mod = "pm"   -> (w.hour % 12) + 12
          [] mod = "none" -> w.hour) + w.minute

HourIn(s, i) == HourOf(ModIn(s, i), s[i])

LEMMA Twelve ==
  ASSUME NEW w, IsTime(w)
  PROVE  /\ HourOf("none", w) = w.hour * 60 + w.minute
         /\ \A mod \in {"am", "pm"} : HourOf(mod, w) = TwentyFour(mod, HourOf("none", w))
         /\ \A mod \in {"am", "pm", "none"} : HourOf(mod, w) \in Nat /\ HourOf(mod, w) < 1440
<1>1. PICK h : h = w.hour
  OBVIOUS
<1>2. PICK m : m = w.minute
  OBVIOUS
<1>3. h \in Nat /\ h < 24 /\ m \in Nat /\ m < 60
  BY <1>1, <1>2 DEF IsTime
<1>4. h % 12 = IF h < 12 THEN h ELSE h - 12
  <2>1. CASE h < 12
    BY <1>3, <2>1
  <2>2. CASE ~(h < 12)
    <3>1. h = 12 + (h - 12) /\ h - 12 \in 0 .. 11
      BY <1>3, <2>2
    <3> QED  BY <1>3, <2>2, <3>1
  <2> QED  BY <2>1, <2>2
<1>5. /\ HourOf("none", w) = 60 * h + m
      /\ HourOf("am", w) = 60 * (h % 12) + m
      /\ HourOf("pm", w) = 60 * ((h % 12) + 12) + m
  BY <1>1, <1>2 DEF HourOf
<1>6. /\ HourOf("am", w) = IF h < 12 THEN 60 * h + m ELSE 60 * h + m - 720
      /\ HourOf("pm", w) = IF h < 12 THEN 60 * h + m + 720 ELSE 60 * h + m
  BY <1>3, <1>4, <1>5
<1>7. 60 * h + m < 720 <=> h < 12
  BY <1>3
<1>8. /\ HourOf("am", w) = TwentyFour("am", 60 * h + m)
      /\ HourOf("pm", w) = TwentyFour("pm", 60 * h + m)
  <2>1. PICK x : x = 60 * h + m
    OBVIOUS
  <2>2. x \in Nat /\ (x >= 12 * 60 <=> ~(h < 12)) /\ (x < 12 * 60 <=> h < 12) /\ 12 * 60 = 720
    BY <1>3, <1>7, <2>1
  <2>3. /\ HourOf("am", w) = IF h < 12 THEN x ELSE x - 720
        /\ HourOf("pm", w) = IF h < 12 THEN x + 720 ELSE x
    <3>1. CASE h < 12
      BY <1>3, <1>6, <2>1, <3>1
    <3>2. CASE ~(h < 12)
      BY <1>3, <1>6, <2>1, <3>2
    <3> QED  BY <3>1, <3>2
  <2>4. /\ TwentyFour("am", x) = IF h < 12 THEN x ELSE x - 720
        /\ TwentyFour("pm", x) = IF h < 12 THEN x + 720 ELSE x
    BY <2>2 DEF TwentyFour
  <2> QED  BY <2>1, <2>3, <2>4
<1>9. 60 * h + m \in Nat /\ 60 * h + m < 1440 /\ h * 60 + m = 60 * h + m
  BY <1>3
<1>10. /\ HourOf("am", w) \in Nat /\ HourOf("am", w) < 1440
       /\ HourOf("pm", w) \in Nat /\ HourOf("pm", w) < 1440
  BY <1>3, <1>6, <1>7, <1>9
<1> QED  BY <1>1, <1>2, <1>5, <1>8, <1>9, <1>10

LEMMA HourNext ==
  ASSUME NEW S, NEW s \in Seq(S), NEW w \in S
  PROVE  /\ \A i \in DOMAIN s : i < Len(s) \/ s[i].mod # "none" \/ w.typ # "TimeModifier"
                                  => HourIn(Append(s, w), i) = HourIn(s, i)
         /\ HourIn(Append(s, w), Len(s) + 1) = HourOf(w.mod, w)
         /\ \A i \in DOMAIN s : i = Len(s) /\ s[i].mod = "none" /\ w.typ = "TimeModifier"
                                  => HourIn(Append(s, w), i) = HourOf(w.val, s[i])
         /\ \A i \in DOMAIN s : i = Len(s) /\ s[i].mod = "none" => HourIn(s, i) = HourOf("none", s[i])
<1>1. /\ Len(s) \in Nat /\ DOMAIN s = 1 .. Len(s) /\ Len(Append(s, w)) = Len(s) + 1
      /\ \A i \in DOMAIN s : Append(s, w)[i] = s[i]
      /\ Append(s, w)[Len(s) + 1] = w
  OBVIOUS
<1>2. ASSUME NEW i \in DOMAIN s, i < Len(s) PROVE HourIn(Append(s, w), i) = HourIn(s, i)
  <2>1. i + 1 \in DOMAIN s /\ i < Len(s) + 1
    BY <1>1, <1>2
  <2>2. Append(s, w)[i] = s[i] /\ Append(s, w)[i + 1] = s[i + 1]
    BY <1>1, <2>1
  <2> QED  BY <1>1, <1>2, <2>1, <2>2 DEF HourIn, ModIn
<1>3. ASSUME NEW i \in DOMAIN s, s[i].mod # "none" PROVE HourIn(Append(s, w), i) = HourIn(s, i)
  BY <1>1, <1>3 DEF HourIn, ModIn
<1>4. ASSUME NEW i \in DOMAIN s, i = Len(s)
      PROVE  i < Len(s) + 1 /\ ~(i < Len(s)) /\ Append(s, w)[i] = s[i] /\ Append(s, w)[i + 1] = w
  BY <1>1, <1>4
<1>5. ASSUME NEW i \in DOMAIN s, i = Len(s), w.typ # "TimeModifier"
      PROVE  HourIn(Append(s, w), i) = HourIn(s, i)
  <2>1. ModIn(Append(s, w), i) = IF s[i].mod # "none" THEN s[i].mod ELSE "none"
    BY <1>1, <1>4, <1>5 DEF ModIn
  <2>2. ModIn(s, i) = IF s[i].mod # "none" THEN s[i].mod ELSE "none"
    BY <1>4, <1>5 DEF ModIn
  <2> QED  BY <1>4, <1>5, <2>1, <2>2 DEF HourIn
<1>6. ASSUME NEW i \in DOMAIN s, i = Len(s), s[i].mod = "none"
      PROVE  /\ w.typ = "TimeModifier" => HourIn(Append(s, w), i) = HourOf(w.val, s[i])
             /\ HourIn(s, i) = HourOf("none", s[i])
  <2>1. w.typ = "TimeModifier" => ModIn(Append(s, w), i) = w.val
    BY <1>1, <1>4, <1>6 DEF ModIn
  <2>2. ModIn(s, i) = "none"
    BY <1>4, <1>6 DEF ModIn
  <2> QED  BY <1>4, <1>6, <2>1, <2>2 DEF HourIn
<1>7. HourIn(Append(s, w), Len(s) + 1) = HourOf(w.mod, w)
  <2>1. ~(Len(s) + 1 < Len(s) + 1)
    BY <1>1
  <2>2. ModIn(Append(s, w), Len(s) + 1) = w.mod
    BY <1>1, <2>1 DEF ModIn
  <2> QED  BY <1>1, <2>2 DEF HourIn
<1>8. \A i \in DOMAIN s : i < Len(s) \/ i = Len(s)
  BY <1>1
<1> QED  BY <1>2, <1>3, <1>5, <1>6, <1>7, <1>8

LEMMA WordRead ==
  ASSUME NEW p, NEW w, IsWord(w)
  PROVE  /\ w.typ = "Time" /\ IsTime(w) /\ w.mod = "none" =>
              ParseWord(p, w) = Parse(p, Item("Time", HourOf("none", w)))
         /\ w.typ = "Time" /\ IsTime(w) /\ w.mod # "none" =>
              ParseWord(p, w) = Parse(Parse(p, Item("Time", HourOf("none", w))),
                                                  Item("TimeModifier", w.mod))
         /\ w.typ = "Time" /\ ~IsTime(w) =>
              ParseWord(p, w) = Parse(p, Item("Text", None))
         /\ w.typ = "Dotted" => ParseWord(p, w) = Parse(p, Item("Time", w.hour * 60))
         /\ w.typ \notin {"Time", "Dotted"} =>
              ParseWord(p, w) = Parse(p, Item(w.typ, w.val))
<1>1. \A x : Len(<<x>>) = 1 /\ <<x>>[1] = x /\ <<x>> \o <<>> = <<x>>
  OBVIOUS
<1>2. \A x, y : /\ Len(<<x>> \o <<y>>) = 2 /\ (<<x>> \o <<y>>)[1] = x /\ (<<x>> \o <<y>>)[2] = y
  OBVIOUS
<1>3. CASE w.typ = "Time" /\ IsTime(w)
  <2>0. PICK v : v = w.hour * 60 + w.minute
    OBVIOUS
  <2>1. v = HourOf("none", w)
    BY <1>3, <2>0, Twelve
  <2>2. CASE w.mod = "none"
    <3>1. Lex(w) = <<Item("Time", v)>> \o <<>>
      BY <1>3, <2>0, <2>2 DEF Lex
    <3>2. Lex(w) = <<Item("Time", v)>>
      BY <1>1, <3>1
    <3> QED  BY <1>1, <1>3, <2>1, <2>2, <3>2 DEF ParseWord
  <2>3. CASE w.mod # "none"
    <3>1. Lex(w) = <<Item("Time", v)>> \o <<Item("TimeModifier", w.mod)>>
      BY <1>3, <2>0, <2>3 DEF Lex
    <3> QED  BY <1>2, <1>3, <2>1, <2>3, <3>1 DEF ParseWord
  <2> QED  BY <2>2, <2>3
<1>4. CASE w.typ = "Time" /\ ~IsTime(w)
  <2>1. Lex(w) = <<Item("Text", None)>>
    BY <1>4 DEF Lex
  <2> QED  BY <1>1, <1>4, <2>1 DEF ParseWord
<1>5. CASE w.typ = "Dotted"
  <2>1. Lex(w) = <<Item("Time", w.hour * 60)>>
    BY <1>5 DEF Lex
  <2> QED  BY <1>1, <1>5, <2>1 DEF ParseWord
<1>6. CASE w.typ \notin {"Time", "Dotted"}
  <2>1. Lex(w) = <<Item(w.typ, w.val)>>
    BY <1>6 DEF Lex
  <2> QED  BY <1>1, <1>6, <2>1 DEF ParseWord
<1> QED  BY <1>3, <1>4, <1>5, <1>6

-----------------------------------------------------------------------------
(* The recurrence holds words that were said. *)
IsSaid(s, item) == \E i \in DOMAIN s : s[i].typ = item.typ /\ s[i].val = item.val

Whole(s, r) ==
  \/ r = <<>>
  \/ \E c : r = <<c>> /\ c.typ \in {"Day", "RecurringByDayMonthYear"} /\ IsSaid(s, c)
  \/ \E c, d : /\ r = <<c, d>> /\ c.typ = "Calendar" /\ IsSaid(s, c)
               /\ d.typ \in {"RecurringByDayMonthYear", "Month"} /\ IsSaid(s, d)
               /\ (d.typ = "RecurringByDayMonthYear" /\ d.val \in {"year", "yearly"})
                    => c.val.month # None

Parts(s, p) ==
  /\ p.at \in Beginnings => p.recurrence = <<>>
  /\ p.at \in OfDates =>
       \E c : p.recurrence = <<c>> /\ c.typ = "Calendar" /\ p.calendar = c.val /\ IsSaid(s, c)
  /\ p.at \in Endings => Whole(s, p.recurrence)

LEMMA PairIs ==
  ASSUME NEW x, NEW y
  PROVE  Append(<<x>>, y) = <<x, y>>
<1>1. <<x>> \in Seq({x, y}) /\ <<x, y>> \in Seq({x, y}) /\ y \in {x, y}
  OBVIOUS
<1>2. Append(<<x>>, y) \in Seq({x, y}) /\ Len(Append(<<x>>, y)) = 2 /\ Len(<<x, y>>) = 2
  BY <1>1
<1>3. Append(<<x>>, y)[1] = x /\ Append(<<x>>, y)[2] = y /\ <<x, y>>[1] = x /\ <<x, y>>[2] = y
  BY <1>1
<1>4. \A i \in 1 .. 2 : Append(<<x>>, y)[i] = <<x, y>>[i]
  <2>1. \A i \in 1 .. 2 : i = 1 \/ i = 2
    OBVIOUS
  <2> QED  BY <1>3, <2>1
<1> QED  BY <1>1, <1>2, <1>4, SeqEqual

LEMMA PartsStep ==
  ASSUME NEW s, NEW u, NEW p, IsParser(p), Parts(s, p), \A x : IsSaid(s, x) => IsSaid(u, x),
         NEW item, NEW q, q = Parse(p, item),
         item.typ \in {"Calendar", "RecurringByDayMonthYear", "Day", "Month"} => IsSaid(u, item)
  PROVE  IsParser(q) /\ Parts(u, q)
<1>1. /\ Beginnings \cap OfDates = {} /\ Beginnings \cap Endings = {} /\ OfDates \cap Endings = {}
      /\ {"Refused", "FirstTime", "SecondTime", "TimeModifier", "Date", "Start", "TimeRange", "Exception",
          "Recurrence", "On"} \subseteq Beginnings
      /\ {"Day", "Month", "RecurringByDayMonthYear", "Accepted"} \subseteq Endings
      /\ OfDates = {"Calendar", "Clarification"}
  BY DEF Beginnings, OfDates, Endings
<1>2. ASSUME q.at \in Beginnings, q.recurrence = <<>> PROVE Parts(u, q)
  BY <1>1, <1>2 DEF Parts
<1>3. ASSUME q.at \in Endings, Whole(s, q.recurrence) PROVE Parts(u, q)
  <2>1. Whole(u, q.recurrence)
    BY <1>3 DEF Whole
  <2> QED  BY <1>1, <1>3, <2>1 DEF Parts
<1>4. ASSUME q.at \in OfDates, NEW c, q.recurrence = <<c>>, c.typ = "Calendar", q.calendar = c.val, IsSaid(u, c)
      PROVE  Parts(u, q)
  BY <1>1, <1>4 DEF Parts
<1>5. CASE item.typ \notin Valid[p.at]
  <2>1. q = Refuse(p)
    BY <1>5, ParseIs
  <2> QED  BY <1>1, <1>2, <2>1, Refusal
<1>6. CASE item.typ \in Valid[p.at] /\ item.typ = "Time"
  <2>1. p.at \in Beginnings
    BY <1>1, <1>6, ValidAfter DEF IsParser
  <2>2. IsParser(q) /\ q.recurrence = p.recurrence /\ q.at \in Beginnings
    BY <1>1, <1>6, TimeEffect DEF PartsKept
  <2> QED  BY <1>2, <2>1, <2>2 DEF Parts
<1>7. CASE item.typ \in Valid[p.at] /\ item.typ = "TimeModifier"
  <2>1. p.at \in Beginnings
    BY <1>1, <1>7, ValidAfter DEF IsParser
  <2>2. IsParser(q) /\ q.recurrence = p.recurrence /\ q.at \in Beginnings
    BY <1>1, <1>7, ModifierEffect DEF PartsKept
  <2> QED  BY <1>2, <2>1, <2>2 DEF Parts
<1>8. CASE /\ item.typ \in Valid[p.at]
           /\ item.typ \in {"Calendar", "RecurringByDayMonthYear", "Day", "Month"}
  <2>0. IsParser(q) /\ IsSaid(u, item)
    BY <1>8, PartEffect
  <2>1. \A x : Append(<<>>, x) = <<x>>
    OBVIOUS
  <2>2. \A x, y : Append(<<x>>, y) = <<x, y>>
    BY PairIs
  <2>3. /\ item.typ = "Calendar" => p.at \in Beginnings
        /\ item.typ = "Day" => p.at \in Beginnings
        /\ item.typ = "Month" => p.at \in OfDates
        /\ item.typ = "RecurringByDayMonthYear" => p.at \in Beginnings \/ p.at \in OfDates
    BY <1>1, <1>8, ValidAfter DEF IsParser
  <2>4. CASE q.at = "Refused" /\ q.recurrence = <<>>
    BY <1>1, <1>2, <2>0, <2>4
  <2>5. CASE q.at = "Date" /\ item.typ = "Calendar" /\ PartsKept(p, q)
    BY <1>1, <1>2, <2>0, <2>3, <2>5 DEF Parts, PartsKept
  <2>6. CASE /\ q.at = item.typ /\ q.recurrence = Append(p.recurrence, item)
             /\ item.typ = "Calendar" => q.calendar = item.val
             /\ (item.typ = "RecurringByDayMonthYear" /\ item.val \in {"year", "yearly"})
                  => p.calendar.month # None
    <3>1. CASE item.typ = "Calendar"
      <4>1. q.recurrence = <<item>> /\ q.at \in OfDates /\ q.calendar = item.val
        BY <1>1, <2>1, <2>3, <2>6, <3>1 DEF Parts
      <4> QED  BY <1>4, <2>0, <3>1, <4>1
    <3>2. CASE item.typ \in {"Day", "RecurringByDayMonthYear"} /\ p.at \in Beginnings
      <4>1. q.recurrence = <<item>>
        BY <2>1, <2>6, <3>2 DEF Parts
      <4>2. q.at \in Endings
        BY <1>1, <2>6, <3>2
      <4>3. Whole(u, q.recurrence)
        BY <2>0, <3>2, <4>1 DEF Whole
      <4> QED  BY <1>1, <2>0, <4>2, <4>3 DEF Parts
    <3>3. CASE item.typ \in {"Month", "RecurringByDayMonthYear"} /\ p.at \in OfDates
      <4>1. PICK c : p.recurrence = <<c>> /\ c.typ = "Calendar" /\ p.calendar = c.val /\ IsSaid(s, c)
        BY <3>3 DEF Parts
      <4>2. q.recurrence = <<c, item>> /\ IsSaid(u, c)
        BY <2>2, <2>6, <4>1
      <4>3. q.at \in Endings
        BY <1>1, <2>6, <3>3
      <4>4. Whole(u, q.recurrence)
        BY <2>0, <2>6, <3>3, <4>1, <4>2 DEF Whole
      <4> QED  BY <1>1, <2>0, <4>3, <4>4 DEF Parts
    <3> QED  BY <1>8, <2>3, <3>1, <3>2, <3>3
  <2> QED  BY <1>8, <2>4, <2>5, <2>6, PartEffect
<1>9. CASE /\ item.typ \in Valid[p.at]
           /\ item.typ \notin {"Time", "TimeModifier", "Calendar", "RecurringByDayMonthYear", "Day", "Month"}
  <2>1. /\ IsParser(q) /\ q.recurrence = p.recurrence /\ q.calendar = p.calendar
        /\ q.at = IF item.typ = "End" THEN "Accepted" ELSE item.typ
    BY <1>9, OtherEffect DEF PartsKept
  <2>2. /\ item.typ = "Clarification" => p.at \in OfDates
        /\ item.typ \in Endings \ {"Day", "Month", "RecurringByDayMonthYear"} => p.at \in Endings \/ p.at = "Date"
        /\ item.typ = "End" => p.at \in Beginnings \/ p.at \in Endings
        /\ item.typ \in Beginnings => p.at \in Beginnings
        /\ \/ item.typ \in Beginnings \/ item.typ = "Clarification" \/ item.typ = "End"
           \/ item.typ \in Endings \ {"Day", "Month", "RecurringByDayMonthYear"}
    BY <1>1, <1>9, ValidAfter DEF IsParser
  <2>3. CASE item.typ \in Beginnings
    <3>1. item.typ # "End"
      BY <2>3 DEF Beginnings
    <3> QED  BY <1>2, <2>1, <2>2, <2>3, <3>1 DEF Parts
  <2>4. CASE item.typ = "Clarification"
    <3>1. PICK c : p.recurrence = <<c>> /\ c.typ = "Calendar" /\ p.calendar = c.val /\ IsSaid(s, c)
      BY <2>2, <2>4 DEF Parts
    <3>2. q.at \in OfDates /\ IsSaid(u, c)
      BY <1>1, <2>1, <2>4, <3>1
    <3> QED  BY <1>4, <2>1, <3>1, <3>2
  <2>5. CASE item.typ = "End" \/ item.typ \in Endings \ {"Day", "Month", "RecurringByDayMonthYear"}
    <3>1. q.at \in Endings
      BY <1>1, <2>1, <2>5
    <3>2. p.at \in Beginnings \/ p.at \in Endings
      BY <1>1, <2>2, <2>5
    <3>3. Whole(s, q.recurrence)
      BY <2>1, <3>2 DEF Parts, Whole
    <3> QED  BY <1>3, <2>1, <3>1, <3>3
  <2> QED  BY <2>2, <2>3, <2>4, <2>5
<1> QED  BY <1>5, <1>6, <1>7, <1>8, <1>9

(* The times the parser holds are the first and the last that were said, so  *)
(* far as they have been: a modifier may yet follow the last.                *)
Heard(s, p) ==
  \/ TimesIn(s) = {} /\ p.start = None /\ p.end = None
  \/ \E i \in TimesIn(s) :
       /\ \A k \in TimesIn(s) : i <= k
       /\ p.start = HourIn(s, i)
       /\ \/ (\A k \in TimesIn(s) : k = i) /\ p.end = None
          \/ \E j \in TimesIn(s) : i < j /\ (\A k \in TimesIn(s) : k <= j) /\ p.end = HourIn(s, j)

AtTime(s, p) ==
  /\ \A i \in TimesIn(s) : IsTime(s[i])
  /\ p.at \in {"FirstTime", "SecondTime"} => Len(s) \in TimesIn(s) /\ s[Len(s)].mod = "none"
  /\ p.at = "FirstTime" => \A k \in TimesIn(s) : k = Len(s)
  /\ p.at = "SecondTime" => \E k \in TimesIn(s) : k < Len(s)

Dotted(s) == \E i \in DOMAIN s : s[i].typ = "Dotted"

Hearing(s, p) == p.at = "Refused" \/ Dotted(s) \/ (Heard(s, p) /\ AtTime(s, p))

LEMMA RefusedStays ==
  ASSUME NEW p, p.at = "Refused", NEW item
  PROVE  Parse(p, item).at = "Refused"
<1>1. item.typ \notin Valid[p.at]
  BY ValidAt
<1> QED  BY <1>1, ParseIs, Refusal

LEMMA TimeRead ==
  ASSUME NEW p, IsParser(p), NEW w, IsWord(w), w.typ = "Time", p.start = None => p.end = None,
         NEW q, q = ParseWord(p, w)
  PROVE  \/ q.at = "Refused"
         \/ /\ IsTime(w)
            /\ q.at = "TimeModifier" \/ (w.mod = "none" /\ q.at = IF p.start = None THEN "FirstTime"
                                                                  ELSE "SecondTime")
            /\ p.start = None => q.start = HourOf(w.mod, w) /\ q.end = None
            /\ p.start # None => q.start = p.start /\ q.end = HourOf(w.mod, w)
<1>1. CASE ~IsTime(w)
  <2>1. q = Parse(p, Item("Text", None))
    BY <1>1, WordRead
  <2>2. Item("Text", None).typ = "Text"
    BY DEF Item
  <2>3. "Text" \notin Valid[p.at]
    <3>1. "Text" \notin (Beginnings \ {"FirstTime", "SecondTime", "Date", "Refused"})
                           \cup OfDates \cup (Endings \ {"Accepted"}) \cup {"Time", "End"}
      BY DEF Beginnings, OfDates, Endings
    <3> QED  BY <3>1, ValidAfter DEF IsParser
  <2> QED  BY <2>1, <2>2, <2>3, ParseIs, Refusal
<1>2. CASE IsTime(w)
  <2>1. PICK v : v = HourOf("none", w)
    OBVIOUS
  <2>2. PICK item : item = Item("Time", v)
    OBVIOUS
  <2>3. item.typ = "Time" /\ item.val = v
    BY <2>2 DEF Item
  <2>4. PICK r : r = Parse(p, item)
    OBVIOUS
  <2>5. PICK mod : mod = Item("TimeModifier", w.mod)
    OBVIOUS
  <2>6. mod.typ = "TimeModifier" /\ mod.val = w.mod
    BY <2>5 DEF Item
  <2>7. /\ w.mod = "none" => q = r
        /\ w.mod # "none" => q = Parse(r, mod)
    BY <1>2, <2>1, <2>2, <2>4, <2>5, WordRead
  <2>8. CASE "Time" \notin Valid[p.at]
    <3>1. r.at = "Refused"
      BY <2>3, <2>4, <2>8, ParseIs, Refusal
    <3> QED  BY <2>7, <3>1, RefusedStays
  <2>9. CASE "Time" \in Valid[p.at]
    <3>1. /\ IsParser(r)
          /\ p.start = None => r.at = "FirstTime" /\ r.start = v /\ r.end = p.end
          /\ p.start # None => r.at = "SecondTime" /\ r.start = p.start /\ r.end = v
      BY <2>3, <2>4, <2>9, TimeEffect
    <3>2. v \in Nat /\ v # None
      <4>1. v \in Nat
        BY <1>2, <2>1, Twelve
      <4> QED  BY <4>1 DEF None
    <3>3. CASE w.mod = "none"
      BY <1>2, <2>1, <2>7, <3>1, <3>3
    <3>4. CASE w.mod # "none"
      <4>1. w.mod \in {"am", "pm"}
        BY <3>4 DEF IsWord, Keywords
      <4>2. HourOf(w.mod, w) = TwentyFour(w.mod, v)
        BY <1>2, <2>1, <4>1, Twelve
      <4>3. "TimeModifier" \in Valid[r.at]
        BY <3>1, ValidAt
      <4>4. q = Parse(r, mod)
        BY <2>7, <3>4
      <4>5. /\ q.at = "TimeModifier"
            /\ r.end = None => q.start = TwentyFour(w.mod, r.start) /\ q.end = r.end
            /\ r.end # None => q.start = r.start /\ q.end = TwentyFour(w.mod, r.end)
        BY <2>6, <3>1, <4>3, <4>4, ModifierEffect
      <4> QED  BY <1>2, <3>1, <3>2, <4>2, <4>5
    <3> QED  BY <3>3, <3>4
  <2> QED  BY <2>8, <2>9
<1> QED  BY <1>1, <1>2

LEMMA HourTyped ==
  ASSUME NEW S, \A w \in S : IsWord(w), NEW s \in Seq(S), NEW i \in TimesIn(s), IsTime(s[i])
  PROVE  HourIn(s, i) \in Nat /\ HourIn(s, i) < 1440
<1>1. i \in DOMAIN s /\ s[i].typ = "Time" /\ DOMAIN s = 1 .. Len(s) /\ Len(s) \in Nat
  BY DEF TimesIn
<1>2. IsWord(s[i])
  BY <1>1
<1>3. ModIn(s, i) \in {"am", "pm", "none"}
  <2>1. CASE s[i].mod # "none"
    BY <1>1, <1>2, <2>1 DEF ModIn, IsWord, Keywords
  <2>2. CASE s[i].mod = "none" /\ i < Len(s) /\ s[i + 1].typ = "TimeModifier"
    <3>1. IsWord(s[i + 1])
      <4>1. i + 1 \in DOMAIN s
        BY <1>1, <2>2
      <4> QED  BY <4>1
    <3>2. s[i + 1].val \in {"am", "pm"}
      BY <2>2, <3>1 DEF IsWord, Keywords
    <3> QED  BY <2>2, <3>2 DEF ModIn
  <2>3. CASE s[i].mod = "none" /\ ~(i < Len(s) /\ s[i + 1].typ = "TimeModifier")
    BY <2>3 DEF ModIn
  <2> QED  BY <2>1, <2>2, <2>3
<1> QED  BY <1>3, Twelve DEF HourIn

LEMMA TimesNext ==
  ASSUME NEW S, NEW s \in Seq(S), NEW w \in S
  PROVE  /\ Len(s) \in Nat /\ Len(Append(s, w)) = Len(s) + 1
         /\ \A i \in DOMAIN s : i \in DOMAIN Append(s, w) /\ Append(s, w)[i] = s[i] /\ i <= Len(s) /\ i \in Nat
         /\ Append(s, w)[Len(s) + 1] = w /\ Len(s) + 1 \in DOMAIN Append(s, w)
         /\ w.typ # "Time" => TimesIn(Append(s, w)) = TimesIn(s)
         /\ w.typ = "Time" => TimesIn(Append(s, w)) = TimesIn(s) \cup {Len(s) + 1}
<1>0. PICK u : u = Append(s, w)
  OBVIOUS
<1>1. /\ Len(s) \in Nat /\ DOMAIN s = 1 .. Len(s) /\ DOMAIN u = 1 .. Len(s) + 1 /\ Len(u) = Len(s) + 1
      /\ u[Len(s) + 1] = w
  BY <1>0
<1>2. \A i \in DOMAIN s : i \in DOMAIN u /\ u[i] = s[i] /\ i <= Len(s) /\ i \in Nat
  BY <1>0, <1>1
<1>3. DOMAIN u = DOMAIN s \cup {Len(s) + 1} /\ Len(s) + 1 \notin DOMAIN s
  BY <1>1
<1>4. TimesIn(u) = {i \in DOMAIN s : u[i].typ = "Time"} \cup {i \in {Len(s) + 1} : u[i].typ = "Time"}
  BY <1>3 DEF TimesIn
<1>5. {i \in DOMAIN s : u[i].typ = "Time"} = TimesIn(s)
  BY <1>2 DEF TimesIn
<1>6. {i \in {Len(s) + 1} : u[i].typ = "Time"} = IF w.typ = "Time" THEN {Len(s) + 1} ELSE {}
  BY <1>1
<1> QED  BY <1>0, <1>1, <1>2, <1>3, <1>4, <1>5, <1>6

LEMMA HearingStep ==
  ASSUME NEW S, \A w \in S : IsWord(w), NEW s \in Seq(S), NEW w \in S, NEW u, u = Append(s, w),
         NEW p, IsParser(p), Hearing(s, p), NEW q, q = ParseWord(p, w), p.at # "Refused"
  PROVE  Hearing(u, q)
<1>1. PICK n : n = Len(s)
  OBVIOUS
<1>2. /\ n \in Nat /\ Len(u) = n + 1
      /\ \A i \in DOMAIN s : i \in DOMAIN u /\ u[i] = s[i] /\ i <= n /\ i \in Nat
      /\ u[n + 1] = w /\ n + 1 \in DOMAIN u
      /\ w.typ # "Time" => TimesIn(u) = TimesIn(s)
      /\ w.typ = "Time" => TimesIn(u) = TimesIn(s) \cup {n + 1}
  <2>1. /\ Len(s) \in Nat /\ Len(u) = Len(s) + 1
        /\ \A i \in DOMAIN s : i \in DOMAIN u /\ u[i] = s[i] /\ i <= Len(s) /\ i \in Nat
        /\ u[Len(s) + 1] = w /\ Len(s) + 1 \in DOMAIN u
        /\ w.typ # "Time" => TimesIn(u) = TimesIn(s)
        /\ w.typ = "Time" => TimesIn(u) = TimesIn(s) \cup {Len(s) + 1}
    BY TimesNext
  <2> QED  BY <1>1, <2>1
<1>3. /\ \A i \in DOMAIN s : i < n \/ s[i].mod # "none" \/ w.typ # "TimeModifier" => HourIn(u, i) = HourIn(s, i)
      /\ HourIn(u, n + 1) = HourOf(w.mod, w)
      /\ \A i \in DOMAIN s : i = n /\ s[i].mod = "none" /\ w.typ = "TimeModifier"
                               => HourIn(u, i) = HourOf(w.val, s[i])
      /\ \A i \in DOMAIN s : i = n /\ s[i].mod = "none" => HourIn(s, i) = HourOf("none", s[i])
  BY <1>1, HourNext
<1>4. TimesIn(s) \subseteq DOMAIN s
  BY DEF TimesIn
<1>5. CASE Dotted(s)
  BY <1>2, <1>5 DEF Dotted, Hearing
<1>6. CASE w.typ = "Dotted"
  BY <1>2, <1>6 DEF Dotted, Hearing
<1>7. CASE Heard(s, p) /\ AtTime(s, p) /\ w.typ = "Time"
  <2>0. /\ TimesIn(u) = TimesIn(s) \cup {n + 1}
        /\ \A i \in TimesIn(s) : HourIn(u, i) = HourIn(s, i) /\ u[i] = s[i] /\ i <= n /\ i \in Nat
        /\ u[n + 1] = w /\ HourIn(u, n + 1) = HourOf(w.mod, w)
    BY <1>2, <1>3, <1>4, <1>7
  <2>1. ASSUME NEW i \in TimesIn(s) PROVE HourIn(s, i) # None
    <3>1. HourIn(s, i) \in Nat
      BY <1>7, HourTyped DEF AtTime
    <3> QED  BY <3>1 DEF None
  <2>2. p.start = None => TimesIn(s) = {} /\ p.end = None
    BY <1>7, <2>1 DEF Heard
  <2>3. /\ IsTime(w)
        /\ q.at = "TimeModifier" \/ (w.mod = "none" /\ q.at = IF p.start = None THEN "FirstTime"
                                                              ELSE "SecondTime")
        /\ p.start = None => q.start = HourOf(w.mod, w) /\ q.end = None
        /\ p.start # None => q.start = p.start /\ q.end = HourOf(w.mod, w)
        => Hearing(u, q)
    <3> SUFFICES ASSUME IsTime(w),
                        q.at = "TimeModifier" \/ (w.mod = "none" /\ q.at = IF p.start = None THEN "FirstTime"
                                                                           ELSE "SecondTime"),
                        p.start = None => q.start = HourOf(w.mod, w) /\ q.end = None,
                        p.start # None => q.start = p.start /\ q.end = HourOf(w.mod, w)
                 PROVE  Heard(u, q) /\ AtTime(u, q)
      BY DEF Hearing
    <3>1. CASE p.start = None
      <4>1. TimesIn(u) = {n + 1}
        BY <2>0, <2>2, <3>1
      <4>2. Heard(u, q)
        <5>1. n + 1 <= n + 1
          BY <1>2
        <5> QED  BY <2>0, <3>1, <4>1, <5>1 DEF Heard
      <4>3. AtTime(u, q)
        BY <1>2, <2>0, <3>1, <4>1 DEF AtTime
      <4> QED  BY <4>2, <4>3
    <3>2. CASE p.start # None
      <4>1. PICK i \in TimesIn(s) : (\A k \in TimesIn(s) : i <= k) /\ p.start = HourIn(s, i)
        BY <1>7, <3>2 DEF Heard
      <4>2. /\ i \in TimesIn(u) /\ i < n + 1 /\ n + 1 \in TimesIn(u)
            /\ \A k \in TimesIn(u) : i <= k /\ k <= n + 1
        BY <1>2, <2>0, <4>1
      <4>3. Heard(u, q)
        BY <2>0, <3>2, <4>1, <4>2 DEF Heard
      <4>4. AtTime(u, q)
        BY <1>2, <1>7, <2>0, <3>2, <4>2 DEF AtTime
      <4> QED  BY <4>3, <4>4
    <3> QED  BY <3>1, <3>2
  <2> QED  BY <1>7, <2>2, <2>3, TimeRead DEF Hearing
<1>8. CASE Heard(s, p) /\ AtTime(s, p) /\ w.typ = "TimeModifier"
  <2>1. PICK item : item = Item(w.typ, w.val)
    OBVIOUS
  <2>2. item.typ = "TimeModifier" /\ item.val = w.val /\ q = Parse(p, item)
    BY <1>8, <2>1, WordRead DEF Item
  <2>3. CASE item.typ \notin Valid[p.at]
    BY <2>2, <2>3, ParseIs, Refusal DEF Hearing
  <2>4. CASE item.typ \in Valid[p.at]
    <3>1. p.at \in {"FirstTime", "SecondTime"}
      BY <2>2, <2>4, ValidAfter DEF IsParser
    <3>2. /\ q.at = "TimeModifier"
          /\ p.end = None => q.start = TwentyFour(w.val, p.start) /\ q.end = p.end
          /\ p.end # None => q.start = p.start /\ q.end = TwentyFour(w.val, p.end)
      BY <2>2, <2>4, ModifierEffect
    <3>3. /\ n \in TimesIn(s) /\ s[n].mod = "none" /\ IsTime(s[n])
          /\ \A i \in TimesIn(s) : IsTime(s[i])
          /\ p.at = "FirstTime" => \A k \in TimesIn(s) : k = n
          /\ p.at = "SecondTime" => \E k \in TimesIn(s) : k < n
      BY <1>1, <1>8, <3>1 DEF AtTime
    <3>4. HourIn(u, n) = TwentyFour(w.val, HourIn(s, n))
      <4>1. w.val \in {"am", "pm"}
        BY <1>8 DEF IsWord, Keywords
      <4>2. HourIn(u, n) = HourOf(w.val, s[n]) /\ HourIn(s, n) = HourOf("none", s[n])
        BY <1>3, <1>4, <1>8, <3>3
      <4> QED  BY <3>3, <4>1, <4>2, Twelve
    <3>5. /\ TimesIn(u) = TimesIn(s)
          /\ \A i \in TimesIn(s) : u[i] = s[i] /\ i <= n /\ i \in Nat /\ (i < n => HourIn(u, i) = HourIn(s, i))
      BY <1>2, <1>3, <1>4, <1>8
    <3>6. AtTime(u, q)
      BY <3>2, <3>3, <3>5 DEF AtTime
    <3>7. CASE p.at = "FirstTime"
      <4>1. \A k \in TimesIn(s) : k = n
        BY <3>3, <3>7
      <4>2. p.start = HourIn(s, n) /\ p.end = None
        <5>1. \A i, j \in TimesIn(s) : ~(i < j)
          BY <3>5, <4>1
        <5> QED  BY <1>8, <3>3, <4>1, <5>1 DEF Heard
      <4>3. q.start = HourIn(u, n) /\ q.end = None
        BY <3>2, <3>4, <4>2
      <4>4. \A k \in TimesIn(u) : n <= k
        BY <1>2, <3>5, <4>1
      <4>5. Heard(u, q)
        BY <3>3, <3>5, <4>1, <4>3, <4>4 DEF Heard
      <4> QED  BY <3>6, <4>5 DEF Hearing
    <3>8. CASE p.at = "SecondTime"
      <4>1. PICK k \in TimesIn(s) : k < n
        BY <3>3, <3>8
      <4>2. PICK i \in TimesIn(s) :
              /\ \A x \in TimesIn(s) : i <= x
              /\ p.start = HourIn(s, i)
              /\ \/ (\A x \in TimesIn(s) : x = i) /\ p.end = None
                 \/ \E j \in TimesIn(s) : i < j /\ (\A x \in TimesIn(s) : x <= j) /\ p.end = HourIn(s, j)
        BY <1>8, <3>3 DEF Heard
      <4>3. ~(\A x \in TimesIn(s) : x = i)
        BY <3>3, <3>5, <4>1
      <4>4. PICK j \in TimesIn(s) : i < j /\ (\A x \in TimesIn(s) : x <= j) /\ p.end = HourIn(s, j)
        BY <4>2, <4>3
      <4>5. j = n
        BY <3>3, <3>5, <4>4
      <4>6. p.end # None
        <5>1. HourIn(s, n) \in Nat
          BY <3>3, HourTyped
        <5> QED  BY <4>4, <4>5, <5>1 DEF None
      <4>7. q.start = HourIn(u, i) /\ q.end = HourIn(u, n)
        BY <3>2, <3>4, <3>5, <4>2, <4>4, <4>5, <4>6
      <4>8. Heard(u, q)
        BY <3>3, <3>5, <4>2, <4>4, <4>5, <4>7 DEF Heard
      <4> QED  BY <3>6, <4>8 DEF Hearing
    <3> QED  BY <3>1, <3>7, <3>8
  <2> QED  BY <2>3, <2>4
<1>9. CASE Heard(s, p) /\ AtTime(s, p) /\ w.typ \notin {"Time", "TimeModifier", "Dotted"}
  <2>1. PICK item : item = Item(w.typ, w.val)
    OBVIOUS
  <2>2. item.typ = w.typ /\ w.typ # "End" /\ q = Parse(p, item)
    BY <1>9, <2>1, WordRead DEF Item, IsWord
  <2>3. CASE item.typ \notin Valid[p.at]
    BY <2>2, <2>3, ParseIs, Refusal DEF Hearing
  <2>4. CASE item.typ \in Valid[p.at]
    <3>1. q.at = "Refused" \/ (TimesKept(p, q) /\ q.at \notin {"FirstTime", "SecondTime"})
      <4>1. CASE item.typ \in {"Calendar", "RecurringByDayMonthYear", "Day", "Month"}
        BY <2>2, <2>4, <4>1, PartEffect
      <4>2. CASE item.typ \notin {"Calendar", "RecurringByDayMonthYear", "Day", "Month"}
        <5>1. TimesKept(p, q) /\ q.at = item.typ
          BY <1>9, <2>2, <2>4, <4>2, OtherEffect
        <5>2. item.typ \notin {"FirstTime", "SecondTime"}
          <6>1. item.typ \in (Beginnings \ {"FirstTime", "SecondTime", "Date", "Refused"})
                               \cup OfDates \cup (Endings \ {"Accepted"}) \cup {"Time", "End"}
            BY <2>4, ValidAfter DEF IsParser
          <6> QED  BY <6>1 DEF Beginnings, OfDates, Endings
        <5> QED  BY <5>1, <5>2
      <4> QED  BY <4>1, <4>2
    <3>2. CASE q.at = "Refused"
      BY <3>2 DEF Hearing
    <3>3. CASE TimesKept(p, q) /\ q.at \notin {"FirstTime", "SecondTime"}
      <4>1. TimesIn(u) = TimesIn(s) /\ \A i \in TimesIn(s) : HourIn(u, i) = HourIn(s, i) /\ u[i] = s[i]
        BY <1>2, <1>3, <1>4, <1>9
      <4>2. Heard(u, q)
        BY <1>9, <3>3, <4>1 DEF Heard, TimesKept
      <4>3. AtTime(u, q)
        BY <1>9, <3>3, <4>1 DEF AtTime
      <4> QED  BY <4>2, <4>3 DEF Hearing
    <3> QED  BY <3>1, <3>2, <3>3
  <2> QED  BY <2>3, <2>4
<1> QED  BY <1>5, <1>6, <1>7, <1>8, <1>9 DEF Hearing

(* What a word, and the end of the words, do to the parser. *)
LEMMA NotAccepted ==
  ASSUME NEW p, IsParser(p), NEW item, item.typ # "End"
  PROVE  Parse(p, item).at # "Accepted"
<1>1. CASE item.typ \notin Valid[p.at]
  BY <1>1, ParseIs, Refusal
<1>2. CASE item.typ \in Valid[p.at]
  <2>1. item.typ # "Accepted"
    <3>1. item.typ \in (Beginnings \ {"FirstTime", "SecondTime", "Date", "Refused"})
                         \cup OfDates \cup (Endings \ {"Accepted"}) \cup {"Time", "End"}
      BY <1>2, ValidAfter DEF IsParser
    <3> QED  BY <3>1 DEF Beginnings, OfDates, Endings
  <2>2. CASE item.typ = "Time"
    BY <1>2, <2>2, TimeEffect
  <2>3. CASE item.typ = "TimeModifier"
    BY <1>2, <2>3, ModifierEffect
  <2>4. CASE item.typ \in {"Calendar", "RecurringByDayMonthYear", "Day", "Month"}
    BY <1>2, <2>1, <2>4, PartEffect
  <2>5. CASE item.typ \notin {"Time", "TimeModifier", "Calendar", "RecurringByDayMonthYear", "Day", "Month"}
    BY <1>2, <2>1, <2>5, OtherEffect
  <2> QED  BY <2>2, <2>3, <2>4, <2>5
<1> QED  BY <1>1, <1>2

LEMMA WordStep ==
  ASSUME NEW S, \A w \in S : IsWord(w), NEW s \in Seq(S), NEW w \in S,
         NEW p, IsParser(p), Parts(s, p), NEW q, q = ParseWord(p, w)
  PROVE  IsParser(q) /\ Parts(Append(s, w), q) /\ q.at # "Accepted"
<1>1. PICK u : u = Append(s, w)
  OBVIOUS
<1>2. /\ \A x : IsSaid(s, x) => IsSaid(u, x)
      /\ \A x : x.typ = w.typ /\ x.val = w.val => IsSaid(u, x)
  <2>1. PICK n : n = Len(s) + 1
    OBVIOUS
  <2>2. /\ \A i \in DOMAIN s : i \in DOMAIN u /\ u[i] = s[i]
        /\ n \in DOMAIN u /\ u[n] = w
    BY <1>1, <2>1, TimesNext
  <2> QED  BY <2>2 DEF IsSaid
<1>3. ASSUME NEW item, item.typ # "End", q = Parse(p, item),
             \/ item.typ = w.typ /\ item.val = w.val
             \/ item.typ \notin {"Calendar", "RecurringByDayMonthYear", "Day", "Month"}
      PROVE  IsParser(q) /\ Parts(u, q) /\ q.at # "Accepted"
  <2>1. item.typ \in {"Calendar", "RecurringByDayMonthYear", "Day", "Month"} => IsSaid(u, item)
    BY <1>2, <1>3
  <2>2. IsParser(q) /\ Parts(u, q)
    BY <1>2, <1>3, <2>1, PartsStep
  <2> QED  BY <1>3, <2>2, NotAccepted
<1>4. CASE w.typ = "Time" /\ IsTime(w)
  <2>1. PICK item : item = Item("Time", HourOf("none", w))
    OBVIOUS
  <2>2. item.typ = "Time"
    BY <2>1 DEF Item
  <2>3. CASE w.mod = "none"
    <3>1. q = Parse(p, item)
      BY <1>4, <2>1, <2>3, WordRead
    <3> QED  BY <1>1, <1>3, <2>2, <3>1
  <2>4. CASE w.mod # "none"
    <3>1. PICK mod : mod = Item("TimeModifier", w.mod)
      OBVIOUS
    <3>2. PICK r : r = Parse(p, item)
      OBVIOUS
    <3>3. mod.typ = "TimeModifier"
      BY <3>1 DEF Item
    <3>4. q = Parse(r, mod)
      BY <1>4, <2>1, <2>4, <3>1, <3>2, WordRead
    <3>5. IsParser(r) /\ Parts(u, r)
      BY <1>2, <2>2, <3>2, PartsStep
    <3>6. IsParser(q) /\ Parts(u, q)
      BY <3>3, <3>4, <3>5, PartsStep
    <3>7. q.at # "Accepted"
      BY <3>3, <3>4, <3>5, NotAccepted
    <3> QED  BY <1>1, <3>6, <3>7
  <2> QED  BY <2>3, <2>4
<1>5. CASE w.typ = "Time" /\ ~IsTime(w)
  <2>1. q = Parse(p, Item("Text", None)) /\ Item("Text", None).typ = "Text"
    BY <1>5, WordRead DEF Item
  <2> QED  BY <1>1, <1>3, <2>1
<1>6. CASE w.typ = "Dotted"
  <2>1. q = Parse(p, Item("Time", w.hour * 60)) /\ Item("Time", w.hour * 60).typ = "Time"
    BY <1>6, WordRead DEF Item
  <2> QED  BY <1>1, <1>3, <2>1
<1>7. CASE w.typ \notin {"Time", "Dotted"}
  <2>1. PICK item : item = Item(w.typ, w.val)
    OBVIOUS
  <2>2. q = Parse(p, item) /\ item.typ = w.typ /\ item.val = w.val /\ w.typ # "End"
    BY <1>7, <2>1, WordRead DEF Item, IsWord
  <2> QED  BY <1>1, <1>3, <2>2
<1> QED  BY <1>4, <1>5, <1>6, <1>7

LEMMA EndStep ==
  ASSUME NEW s, NEW p, IsParser(p), Parts(s, p), Hearing(s, p), NEW q, q = Parse(p, End)
  PROVE  IsParser(q) /\ Parts(s, q) /\ Hearing(s, q)
<1>1. PICK item : item = End
  OBVIOUS
<1>2. item.typ = "End" /\ q = Parse(p, item)
  BY <1>1 DEF End, Item
<1>3. IsParser(q) /\ Parts(s, q)
  BY <1>2, PartsStep
<1>4. CASE item.typ \notin Valid[p.at]
  <2>1. q.at = "Refused"
    BY <1>2, <1>4, ParseIs, Refusal
  <2> QED  BY <1>3, <2>1 DEF Hearing
<1>5. CASE item.typ \in Valid[p.at]
  <2>1. TimesKept(p, q) /\ q.at = "Accepted" /\ p.at # "Refused"
    <3>1. p.at # "Refused"
      BY <1>5, ValidAt
    <3> QED  BY <1>2, <1>5, <3>1, OtherEffect
  <2>2. Heard(s, p) /\ AtTime(s, p) => Heard(s, q) /\ AtTime(s, q)
    BY <2>1 DEF TimesKept, Heard, AtTime
  <2> QED  BY <1>3, <2>1, <2>2 DEF Hearing
<1> QED  BY <1>4, <1>5

LEMMA StartStep ==
  ASSUME NEW p, p = ParseStart
  PROVE  IsParser(p) /\ Parts(<<>>, p) /\ Hearing(<<>>, p) /\ p.at = "Start"
<1>1. p = [at |-> "Start", start |-> None, end |-> None, recurrence |-> <<>>,
           onDate |-> NoDate, alwaysOn |-> FALSE, alwaysOff |-> FALSE, calendar |-> NoDate]
  BY DEF ParseStart
<1>2. PICK on, off :
        p = [at |-> "Start", start |-> None, end |-> None, recurrence |-> <<>>,
             onDate |-> NoDate, alwaysOn |-> on, alwaysOff |-> off, calendar |-> NoDate]
  BY <1>1, Zenon
<1>3. "Start" \in DOMAIN Valid /\ "Start" \in Beginnings /\ "Start" \notin OfDates \cup Endings
  BY DEF Valid, Beginnings, OfDates, Endings
<1>4. IsParser(p)
  BY <1>2, <1>3 DEF IsParser
<1>5. Parts(<<>>, p)
  BY <1>2, <1>3 DEF Parts
<1>6. TimesIn(<<>>) = {}
  BY DEF TimesIn
<1>7. Heard(<<>>, p) /\ AtTime(<<>>, p)
  BY <1>2, <1>6 DEF Heard, AtTime
<1> QED  BY <1>2, <1>4, <1>5, <1>7 DEF Hearing

-----------------------------------------------------------------------------
(* The recurrence of a window is on the days that were said. *)
LEMMA OneWord ==
  ASSUME NEW c, NEW r, r = Recurrence(<<c>>)
  PROVE  /\ c.typ = "Day" /\ c.val \in DOMAIN WeekdayOf =>
              r.every = "day_of_week" /\ r.weekday = WeekdayOf[c.val]
         /\ c.typ = "Day" /\ c.val \notin DOMAIN WeekdayOf => r.every = c.val
         /\ c.typ = "RecurringByDayMonthYear" => r.every = IF c.val = "day" THEN "day" ELSE "panics"
<1>1. PICK list : list = <<c>>
  OBVIOUS
<1>2. list[1] = c /\ Len(list) = 1
  BY <1>1
<1>3. r = Recurrence(list)
  BY <1>1
<1>4. CASE c.typ = "Day" /\ c.val \in DOMAIN WeekdayOf
  <2>1. r = [[every |-> "day", day |-> 1, month |-> 1, weekday |-> 0]
               EXCEPT !.every = "day_of_week", !.weekday = WeekdayOf[c.val]]
    BY <1>2, <1>3, <1>4 DEF Recurrence
  <2> QED  BY <1>4, <2>1
<1>5. CASE c.typ = "Day" /\ c.val \notin DOMAIN WeekdayOf
  <2>1. r = [[every |-> "day", day |-> 1, month |-> 1, weekday |-> 0] EXCEPT !.every = c.val]
    BY <1>2, <1>3, <1>5 DEF Recurrence
  <2> QED  BY <1>5, <2>1
<1>6. CASE c.typ = "RecurringByDayMonthYear" /\ c.val = "day"
  <2>1. r = [every |-> "day", day |-> 1, month |-> 1, weekday |-> 0]
    BY <1>2, <1>3, <1>6 DEF Recurrence
  <2> QED  BY <1>6, <2>1
<1>7. CASE c.typ = "RecurringByDayMonthYear" /\ c.val # "day"
  <2>1. r = [[every |-> "day", day |-> 1, month |-> 1, weekday |-> 0] EXCEPT !.every = "panics"]
    BY <1>2, <1>3, <1>7 DEF Recurrence
  <2> QED  BY <1>7, <2>1
<1> QED  BY <1>4, <1>5, <1>6, <1>7

LEMMA TwoWords ==
  ASSUME NEW c, c.typ = "Calendar", NEW d, NEW r, r = Recurrence(<<c, d>>)
  PROVE  \/ r.every = "nothing"
         \/ d.val \in {"month", "monthly"} /\ r.every = "month" /\ r.day = c.val.day
         \/ d.val \in DOMAIN MonthOf /\ r.every = "year" /\ r.day = c.val.day
              /\ r.month = MonthOf[d.val]
         \/ d.val \in {"year", "yearly"} /\ r.every = "year" /\ r.day = c.val.day /\ r.month = c.val.month
<1>1. PICK list : list = <<c, d>>
  OBVIOUS
<1>2. list[1] = c /\ list[2] = d /\ Len(list) = 2
  BY <1>1
<1>3. r = Recurrence(list)
  BY <1>1
<1>0. ~(d.val \in DOMAIN MonthOf /\ d.val \in {"month", "monthly", "year", "yearly"})
  BY DEF MonthOf
<1>4. CASE d.val \in {"month", "monthly"} /\ c.val.month = None
  <2>1. r = [[every |-> "day", day |-> 1, month |-> 1, weekday |-> 0]
               EXCEPT !.every = "month", !.day = c.val.day]
    BY <1>0, <1>2, <1>3, <1>4 DEF Recurrence
  <2> QED  BY <1>4, <2>1
<1>5. CASE d.val \notin {"month", "monthly"} /\ d.val \in DOMAIN MonthOf /\ c.val.month = None
  <2>1. r = [[every |-> "day", day |-> 1, month |-> 1, weekday |-> 0]
               EXCEPT !.every = "year", !.day = c.val.day, !.month = MonthOf[d.val]]
    BY <1>0, <1>2, <1>3, <1>5 DEF Recurrence
  <2> QED  BY <1>5, <2>1
<1>6. CASE /\ ~(d.val \in {"month", "monthly"} /\ c.val.month = None)
           /\ ~(d.val \in DOMAIN MonthOf /\ c.val.month = None)
           /\ d.val \in {"year", "yearly"}
  <2>1. r = [[every |-> "day", day |-> 1, month |-> 1, weekday |-> 0]
               EXCEPT !.every = "year", !.day = c.val.day, !.month = c.val.month]
    BY <1>2, <1>3, <1>6 DEF Recurrence
  <2> QED  BY <1>6, <2>1
<1>7. CASE /\ ~(d.val \in {"month", "monthly"} /\ c.val.month = None)
           /\ ~(d.val \in DOMAIN MonthOf /\ c.val.month = None)
           /\ d.val \notin {"year", "yearly"}
  <2>1. r = [[every |-> "day", day |-> 1, month |-> 1, weekday |-> 0] EXCEPT !.every = "nothing"]
    BY <1>2, <1>3, <1>7 DEF Recurrence
  <2> QED  BY <1>7, <2>1
<1> QED  BY <1>4, <1>5, <1>6, <1>7

(* What is said of the days of a window, and on which days it then recurs. *)
OnDaysSaid(n) ==
  /\ \A i \in DOMAIN said : said[i].typ = "Day" => DaySaid(said[i].val, n)
  /\ \A i \in DOMAIN said : said[i].typ = "Calendar" =>
        DateOf(n).day = said[i].val.day /\ said[i].val.month \in {None, DateOf(n).month}
  /\ \A i \in DOMAIN said : said[i].typ = "Month" => DateOf(n).month = MonthOf[said[i].val]

LEMMA SaidDays ==
  ASSUME NEW n, Recurs(n)
  PROVE  OnDaysSaid(n)
BY DEF Recurs, Saying, OnDaysSaid

LEMMA RecursAsSaid ==
  ASSUME \A w \in Words : IsWord(w), said \in Seq(Words), NEW list, Whole(said, list), list # <<>>,
         NEW r, r = Recurrence(list), r.every \notin {"panics", "nothing"}
  PROVE  /\ r.every \in Rules
         /\ r.every = "day_of_week" => r.weekday \in 0 .. 6
         /\ \A n : OnDaysSaid(n) => Fits(r, n)
<1>1. \A i \in DOMAIN said : IsWord(said[i])
  OBVIOUS
<1>2. CASE \E c : list = <<c>> /\ c.typ \in {"Day", "RecurringByDayMonthYear"} /\ IsSaid(said, c)
  <2>1. PICK c : list = <<c>> /\ c.typ \in {"Day", "RecurringByDayMonthYear"} /\ IsSaid(said, c)
    BY <1>2
  <2>2. PICK i \in DOMAIN said : said[i].typ = c.typ /\ said[i].val = c.val
    BY <2>1 DEF IsSaid
  <2>3. r = Recurrence(<<c>>)
    BY <2>1
  <2>4. CASE c.typ = "Day" /\ c.val \in DOMAIN WeekdayOf
    <3>1. r.every = "day_of_week" /\ r.weekday = WeekdayOf[c.val]
      BY <2>3, <2>4, OneWord
    <3>2. WeekdayOf[c.val] \in 0 .. 6
      BY <2>4 DEF WeekdayOf
    <3>3. c.val # "weekday" /\ c.val # "weekend"
      BY <2>4 DEF WeekdayOf
    <3>4. ASSUME NEW n, OnDaysSaid(n) PROVE Weekday(n) = r.weekday
      <4>1. DaySaid(c.val, n)
        BY <2>2, <2>4, <3>4 DEF OnDaysSaid
      <4>2. Weekday(n) = WeekdayOf[c.val]
        BY <3>3, <4>1 DEF DaySaid
      <4> QED  BY <3>1, <4>2
    <3> QED  BY <3>1, <3>2, <3>4 DEF Rules, Fits
  <2>5. CASE c.typ = "Day" /\ c.val \notin DOMAIN WeekdayOf
    <3>1. r.every = c.val
      BY <2>3, <2>5, OneWord
    <3>2. c.val \in {"weekday", "weekend"}
      BY <1>1, <2>2, <2>5 DEF IsWord, Keywords
    <3>3. ASSUME NEW n, OnDaysSaid(n)
          PROVE  /\ c.val = "weekday" => ~IsWeekend(Weekday(n))
                 /\ c.val = "weekend" => IsWeekend(Weekday(n))
      <4>1. DaySaid(c.val, n)
        BY <2>2, <2>5, <3>3 DEF OnDaysSaid
      <4> QED  BY <4>1 DEF DaySaid
    <3> QED  BY <3>1, <3>2, <3>3 DEF Rules, Fits
  <2>6. CASE c.typ = "RecurringByDayMonthYear"
    <3>1. r.every = "day"
      BY <2>3, <2>6, OneWord
    <3> QED  BY <3>1 DEF Rules, Fits
  <2> QED  BY <2>1, <2>4, <2>5, <2>6
<1>3. CASE \E c, d : /\ list = <<c, d>> /\ c.typ = "Calendar" /\ IsSaid(said, c)
                     /\ d.typ \in {"RecurringByDayMonthYear", "Month"} /\ IsSaid(said, d)
                     /\ (d.typ = "RecurringByDayMonthYear" /\ d.val \in {"year", "yearly"})
                          => c.val.month # None
  <2>1. PICK c, d : /\ list = <<c, d>> /\ c.typ = "Calendar" /\ IsSaid(said, c)
                    /\ d.typ \in {"RecurringByDayMonthYear", "Month"} /\ IsSaid(said, d)
                    /\ (d.typ = "RecurringByDayMonthYear" /\ d.val \in {"year", "yearly"})
                         => c.val.month # None
    BY <1>3
  <2>2. PICK i \in DOMAIN said : said[i].typ = c.typ /\ said[i].val = c.val
    BY <2>1 DEF IsSaid
  <2>3. PICK j \in DOMAIN said : said[j].typ = d.typ /\ said[j].val = d.val
    BY <2>1 DEF IsSaid
  <2>4. /\ d.typ = "Month" => d.val \in DOMAIN MonthOf
        /\ d.typ = "RecurringByDayMonthYear" => d.val \in {"day", "month", "monthly", "year", "yearly"}
    BY <1>1, <2>3 DEF IsWord, Keywords
  <2>5. /\ d.val \in DOMAIN MonthOf => d.typ = "Month"
        /\ d.val \in {"year", "yearly"} => c.val.month # None
    BY <2>1, <2>4 DEF MonthOf
  <2>6. ASSUME NEW n, OnDaysSaid(n)
        PROVE  /\ DateOf(n).day = c.val.day
               /\ d.val \in DOMAIN MonthOf => DateOf(n).month = MonthOf[d.val]
               /\ d.val \in {"year", "yearly"} => DateOf(n).month = c.val.month
    <3>1. DateOf(n).day = c.val.day /\ c.val.month \in {None, DateOf(n).month}
      BY <2>1, <2>2, <2>6 DEF OnDaysSaid
    <3>2. d.typ = "Month" => DateOf(n).month = MonthOf[d.val]
      BY <2>3, <2>6 DEF OnDaysSaid
    <3> QED  BY <2>5, <3>1, <3>2
  <2>7. \/ d.val \in {"month", "monthly"} /\ r.every = "month" /\ r.day = c.val.day
        \/ d.val \in DOMAIN MonthOf /\ r.every = "year" /\ r.day = c.val.day
             /\ r.month = MonthOf[d.val]
        \/ d.val \in {"year", "yearly"} /\ r.every = "year" /\ r.day = c.val.day /\ r.month = c.val.month
    BY <2>1, TwoWords
  <2> QED  BY <2>6, <2>7 DEF Rules, Fits
<1> QED  BY <1>2, <1>3 DEF Whole

(* A window that was accepted, and recurs, is the one that was said. *)
LEMMA ModKinds ==
  ASSUME NEW S, \A w \in S : IsWord(w), NEW s \in Seq(S), NEW i \in TimesIn(s)
  PROVE  ModIn(s, i) \in {"am", "pm", "none"}
<1>1. i \in DOMAIN s /\ s[i].typ = "Time" /\ DOMAIN s = 1 .. Len(s) /\ Len(s) \in Nat
  BY DEF TimesIn
<1>2. IsWord(s[i])
  BY <1>1
<1>3. CASE s[i].mod # "none"
  BY <1>1, <1>2, <1>3 DEF ModIn, IsWord, Keywords
<1>4. CASE s[i].mod = "none" /\ i < Len(s) /\ s[i + 1].typ = "TimeModifier"
  <2>1. IsWord(s[i + 1])
    <3>1. i + 1 \in DOMAIN s
      BY <1>1, <1>4
    <3> QED  BY <3>1
  <2>2. s[i + 1].val \in {"am", "pm"}
    BY <1>4, <2>1 DEF IsWord, Keywords
  <2> QED  BY <1>4, <2>2 DEF ModIn
<1>5. CASE s[i].mod = "none" /\ ~(i < Len(s) /\ s[i + 1].typ = "TimeModifier")
  BY <1>5 DEF ModIn
<1> QED  BY <1>3, <1>4, <1>5

LEMMA TimeSaid ==
  ASSUME \A w \in Words : IsWord(w), said \in Seq(Words), NEW i \in TimesIn(said)
  PROVE  TimeAt(i) = HourIn(said, i)
<1>1. ModifierAt(i) = ModIn(said, i)
  BY DEF ModifierAt, ModIn
<1>2. PICK mod : mod = ModIn(said, i)
  OBVIOUS
<1>3. mod \in {"am", "pm", "none"}
  BY <1>2, ModKinds
<1>4. HourIn(said, i) = HourOf(mod, said[i])
  BY <1>2 DEF HourIn
<1>5. ModifierAt(i) = mod
  BY <1>1, <1>2
<1>6. CASE mod = "am"
  <2>1. HourIn(said, i) = 60 * (said[i].hour % 12) + said[i].minute
    BY <1>4, <1>6 DEF HourOf
  <2> QED  BY <1>5, <1>6, <2>1 DEF TimeAt
<1>7. CASE mod = "pm"
  <2>1. HourIn(said, i) = 60 * ((said[i].hour % 12) + 12) + said[i].minute
    BY <1>4, <1>7 DEF HourOf
  <2> QED  BY <1>5, <1>7, <2>1 DEF TimeAt
<1>8. CASE mod = "none"
  <2>1. HourIn(said, i) = 60 * said[i].hour + said[i].minute
    BY <1>4, <1>8 DEF HourOf
  <2> QED  BY <1>5, <1>8, <2>1 DEF TimeAt
<1> QED  BY <1>3, <1>6, <1>7, <1>8

LEMMA WindowRecurs ==
  ASSUME NEW w, w = saidWindow, w.kind \in {"every", "always_except"}
  PROVE  /\ parser.start # None /\ parser.end # None /\ parser.recurrence # <<>>
         /\ w.start = parser.start /\ w.end = parser.end /\ w.recurrence = Recurrence(parser.recurrence)
         /\ w.recurrence.every \notin {"panics", "nothing"}
<1>1. PICK list : list = parser.recurrence
  OBVIOUS
<1>2. PICK r : r = Recurrence(list)
  OBVIOUS
<1>3. list # <<>>
  BY <1>1 DEF saidWindow, AsWindow
<1>4. parser.start # None /\ parser.end # None /\ r.every \notin {"panics", "nothing"}
  BY <1>1, <1>2, <1>3 DEF saidWindow, AsWindow
<1>5. w.start = parser.start /\ w.end = parser.end /\ w.recurrence = r
  BY <1>1, <1>2, <1>3, <1>4 DEF saidWindow, AsWindow
<1> QED  BY <1>1, <1>2, <1>3, <1>4, <1>5

LEMMA FirstAndLast ==
  ASSUME \A w \in Words : IsWord(w), said \in Seq(Words),
         NEW i \in TimesIn(said), \A k \in TimesIn(said) : i <= k,
         NEW j \in TimesIn(said), \A k \in TimesIn(said) : k <= j
  PROVE  Beginning = HourIn(said, i) /\ Ending = HourIn(said, j)
<1>1. Saying("Time") = TimesIn(said)
  BY DEF Saying, TimesIn
<1>2. \A k \in TimesIn(said) : k \in Nat
  BY DEF TimesIn
<1>3. PICK a : a = CHOOSE x \in TimesIn(said) : \A k \in TimesIn(said) : x <= k
  OBVIOUS
<1>4. PICK b : b = CHOOSE x \in TimesIn(said) : \A k \in TimesIn(said) : x >= k
  OBVIOUS
<1>5. a \in TimesIn(said) /\ \A k \in TimesIn(said) : a <= k
  BY <1>3
<1>6. b \in TimesIn(said) /\ \A k \in TimesIn(said) : b >= k
  <2>1. \A k \in TimesIn(said) : j >= k
    BY <1>2
  <2> QED  BY <1>4, <2>1
<1>7. a = i /\ b = j
  <2>1. a <= i /\ i <= a /\ b <= j /\ j <= b
    BY <1>2, <1>5, <1>6
  <2> QED  BY <1>2, <1>5, <1>6, <2>1
<1>8. Beginning = TimeAt(a) /\ Ending = TimeAt(b)
  BY <1>1, <1>3, <1>4 DEF Beginning, Ending
<1> QED  BY <1>7, <1>8, TimeSaid

LEMMA WindowAsSaid ==
  ASSUME \A w \in Words : IsWord(w), said \in Seq(Words), Parts(said, parser), Hearing(said, parser),
         NEW kinds, kinds \subseteq {"every", "always_except"}, Recurring(kinds),
         NEW w, w = saidWindow
  PROVE  /\ IsRecurring(w) /\ w.kind \in kinds /\ CanBeAsked
         /\ w.start = Beginning /\ w.end = Ending
         /\ \A n : Recurs(n) => Fits(w.recurrence, n)
<1>1. /\ parser.at = "Accepted" /\ w.kind \in kinds /\ CanBeAsked
      /\ Saying("Dotted") = {} /\ Beginning < Ending
  BY DEF Recurring, CanBeAsked
<1>2. /\ parser.start # None /\ parser.end # None /\ parser.recurrence # <<>>
      /\ w.start = parser.start /\ w.end = parser.end /\ w.recurrence = Recurrence(parser.recurrence)
      /\ w.recurrence.every \notin {"panics", "nothing"}
  BY <1>1, WindowRecurs
<1>3. /\ w.recurrence.every \in Rules
      /\ w.recurrence.every = "day_of_week" => w.recurrence.weekday \in 0 .. 6
      /\ \A n : OnDaysSaid(n) => Fits(w.recurrence, n)
  <2>1. Whole(said, parser.recurrence)
    BY <1>1 DEF Parts, Endings
  <2> QED  BY <1>2, <2>1, RecursAsSaid
<1>4. Heard(said, parser) /\ AtTime(said, parser)
  <2>1. ~Dotted(said)
    BY <1>1 DEF Dotted, Saying
  <2> QED  BY <1>1, <2>1 DEF Hearing
<1>5. PICK i \in TimesIn(said), j \in TimesIn(said) :
         /\ \A k \in TimesIn(said) : i <= k /\ k <= j
         /\ parser.start = HourIn(said, i) /\ parser.end = HourIn(said, j)
  BY <1>2, <1>4 DEF Heard
<1>6. w.start = Beginning /\ w.end = Ending
  BY <1>2, <1>5, FirstAndLast
<1>7. w.start \in Nat /\ w.start < 1440 /\ w.end \in Nat /\ w.end < 1440
  BY <1>2, <1>4, <1>5, HourTyped DEF AtTime
<1>8. IsRecurring(w)
  <2>1. MinutesPerDay - 1 = 1439
    BY DEF MinutesPerDay
  <2>2. w.start \in TimesOfDay /\ w.end \in TimesOfDay
    BY <1>7, <2>1 DEF TimesOfDay
  <2>3. w.start < w.end
    BY <1>1, <1>6
  <2> QED  BY <1>1, <1>3, <2>2, <2>3 DEF IsRecurring
<1> QED  BY <1>1, <1>3, <1>6, <1>8, SaidDays

-----------------------------------------------------------------------------
(***************************************************************************)
(* No instant is in the last week of a year: AddDays, which window.go      *)
(* counts days to come with, then finds a day of another year.             *)
(***************************************************************************)
NeverAtYearsEnd == \A t \in Instants : NotAtYearsEnd(t)

(* While the window lasts, the answer is from now to the end of it. *)
Answered(w, t, times) ==
  \A n \in Nat :
     Fits(w.recurrence, n) /\ At(n, w.start) <= t /\ t < At(n, w.end)
       => times = [start |-> t, end |-> At(n, w.end)]

AnswerHolds ==
  CanBeAsked /\ IsRecurring(saidWindow) =>
     asked \in Instants /\ NotSkipped(saidWindow, asked, answer) /\ Answered(saidWindow, asked, answer)

ClockInv ==
  /\ said \in Seq(Words)
  /\ IsParser(parser) /\ Parts(said, parser) /\ Hearing(said, parser)
  /\ AnswerHolds

LEMMA AskedSoon ==
  ASSUME NeverAtYearsEnd, NEW t \in Instants
  PROVE  Soon(t) /\ NotAtYearsEnd(t) /\ t \in Nat /\ DayOf(t) \in Nat /\ DayOf(t) + Ahead <= 1460
<1>0. 4 * 365 = 1460
  OBVIOUS
<1>1. t \in Nat /\ Ahead \in Nat /\ DayOf(t) + Ahead <= 1460 /\ NotAtYearsEnd(t)
  BY <1>0, InstantsAssumption, BoundsAssumption DEF NeverAtYearsEnd
<1>2. DayOf(t) \in Nat
  BY <1>1, TimeParts
<1>3. DayOf(t) <= 1460
  BY <1>1, <1>2
<1> QED  BY <1>1, <1>2, <1>3 DEF Soon

LEMMA AnswerStep ==
  ASSUME NeverAtYearsEnd, NEW w, IsRecurring(w), NEW t \in Instants, NEW cached, NotSkipped(w, t, cached)
  PROVE  NotSkipped(w, t, Refresh(w, t, cached)) /\ Answered(w, t, Refresh(w, t, cached))
<1>1. Soon(t) /\ NotAtYearsEnd(t)
  BY AskedSoon
<1>2. NotSkipped(w, t, Refresh(w, t, cached))
  BY <1>1, RefreshKeeps
<1>3. Answered(w, t, Refresh(w, t, cached))
  BY <1>1, RefreshAnswers DEF Answered
<1> QED  BY <1>2, <1>3

LEMMA ClockStarts ==
  ASSUME ClockInit
  PROVE  ClockInv
<1>1. said = <<>> /\ parser = ParseStart
  BY DEF ClockInit
<1>2. IsParser(parser) /\ Parts(said, parser) /\ Hearing(said, parser) /\ parser.at = "Start"
  BY <1>1, StartStep
<1>3. said \in Seq(Words)
  BY <1>1
<1> QED  BY <1>2, <1>3 DEF ClockInv, AnswerHolds, CanBeAsked

LEMMA ClockSteps ==
  ASSUME NeverAtYearsEnd, ClockInv, [ClockNext]_clockVars
  PROVE  ClockInv'
<1>0. /\ said \in Seq(Words) /\ IsParser(parser) /\ Parts(said, parser) /\ Hearing(said, parser)
      /\ AnswerHolds
  BY DEF ClockInv
<1>1. ASSUME NEW w \in Words, Read(w) PROVE ClockInv'
  <2>1. /\ parser.at # "Refused" /\ said' = Append(said, w) /\ parser' = ParseWord(parser, w)
    BY <1>1 DEF Read
  <2>2. \A v \in Words : IsWord(v)
    BY WordsAssumption
  <2>3. IsParser(parser') /\ Parts(said', parser') /\ parser'.at # "Accepted"
    BY <1>0, <2>1, <2>2, WordStep
  <2>4. Hearing(said', parser')
    BY <1>0, <2>1, <2>2, HearingStep
  <2>5. said' \in Seq(Words)
    BY <1>0, <2>1
  <2> QED  BY <2>3, <2>4, <2>5 DEF ClockInv, AnswerHolds, CanBeAsked
<1>2. ASSUME NEW t \in Instants, ReadEnd(t) PROVE ClockInv'
  <2>1. /\ said' = said /\ parser' = Parse(parser, End)
        /\ CanBeAsked' => asked' = t /\ answer' = Refresh(saidWindow', t, NoTimes)
    BY <1>2 DEF ReadEnd
  <2>2. IsParser(parser') /\ Parts(said', parser') /\ Hearing(said', parser')
    BY <1>0, <2>1, EndStep
  <2>3. AnswerHolds'
    <3> SUFFICES ASSUME CanBeAsked', IsRecurring(saidWindow')
                 PROVE  /\ asked' \in Instants /\ NotSkipped(saidWindow', asked', answer')
                        /\ Answered(saidWindow', asked', answer')
      BY DEF AnswerHolds
    <3>1. PICK w : w = saidWindow'
      OBVIOUS
    <3>2. NoTimes.start = Zero /\ t \in Nat
      BY AskedSoon DEF NoTimes
    <3>3. NotSkipped(w, t, NoTimes)
      BY <3>2, UnsetKeeps
    <3>4. /\ NotSkipped(w, t, Refresh(w, t, NoTimes))
          /\ Answered(w, t, Refresh(w, t, NoTimes))
      BY <3>1, <3>3, AnswerStep
    <3> QED  BY <2>1, <3>1, <3>4
  <2> QED  BY <1>0, <2>1, <2>2, <2>3 DEF ClockInv
<1>3. ASSUME NEW t \in Instants, Ask(t) PROVE ClockInv'
  <2>1. /\ CanBeAsked /\ t > asked /\ asked' = t /\ said' = said /\ parser' = parser
        /\ answer' = Refresh(saidWindow, t, answer)
    BY <1>3 DEF Ask
  <2>2. saidWindow' = saidWindow
    BY <2>1 DEF saidWindow
  <2>3. AnswerHolds'
    <3> SUFFICES ASSUME IsRecurring(saidWindow)
                 PROVE  /\ asked' \in Instants /\ NotSkipped(saidWindow, asked', answer')
                        /\ Answered(saidWindow, asked', answer')
      BY <2>2 DEF AnswerHolds
    <3>1. asked \in Instants /\ NotSkipped(saidWindow, asked, answer)
      BY <1>0, <2>1 DEF AnswerHolds
    <3>2. t \in Int /\ asked \in Int /\ asked <= t
      BY <2>1, <3>1, InstantsAssumption
    <3>3. NotSkipped(saidWindow, t, answer)
      BY <3>1, <3>2, NotSkippedLater
    <3>4. /\ NotSkipped(saidWindow, t, Refresh(saidWindow, t, answer))
          /\ Answered(saidWindow, t, Refresh(saidWindow, t, answer))
      BY <3>3, AnswerStep
    <3> QED  BY <2>1, <3>4
  <2> QED  BY <1>0, <2>1, <2>3 DEF ClockInv
<1>4. CASE UNCHANGED clockVars
  <2>1. said' = said /\ parser' = parser /\ asked' = asked /\ answer' = answer
    BY <1>4 DEF clockVars
  <2>2. saidWindow' = saidWindow /\ (CanBeAsked' <=> CanBeAsked)
    BY <2>1 DEF saidWindow, CanBeAsked
  <2>3. AnswerHolds'
    BY <1>0, <2>1, <2>2 DEF AnswerHolds
  <2> QED  BY <1>0, <2>1, <2>3 DEF ClockInv
<1> QED  BY <1>1, <1>2, <1>3, <1>4 DEF ClockNext

LEMMA ClockKept == ASSUME NeverAtYearsEnd PROVE ClockSpec => []ClockInv
<1>1. ClockInit => ClockInv
  BY ClockStarts
<1>2. ClockInv /\ [ClockNext]_clockVars => ClockInv'
  BY ClockSteps
<1> QED  BY <1>1, <1>2, PTL DEF ClockSpec

(* What was said of the hours, of a window that can be asked. *)
LEMMA HoursSaid ==
  ASSUME NeverAtYearsEnd, ClockInv, NEW kinds, kinds \subseteq {"every", "always_except"},
         Recurring(kinds), NEW w, w = saidWindow
  PROVE  /\ IsRecurring(w) /\ w.kind \in kinds
         /\ asked \in Instants /\ NotSkipped(w, asked, answer) /\ Answered(w, asked, answer)
         /\ \A n : Recurs(n) => Fits(w.recurrence, n)
         /\ \A n : OpensOn(n) = At(n, w.start) /\ ClosesOn(n) = At(n, w.end)
<1>1. /\ IsRecurring(w) /\ w.kind \in kinds /\ CanBeAsked
      /\ w.start = Beginning /\ w.end = Ending
      /\ \A n : Recurs(n) => Fits(w.recurrence, n)
  BY WordsAssumption, WindowAsSaid DEF ClockInv
<1>2. asked \in Instants /\ NotSkipped(w, asked, answer) /\ Answered(w, asked, answer)
  BY <1>1 DEF ClockInv, AnswerHolds
<1>3. ~(Ending < Beginning)
  BY <1>1, RecurringHours
<1>4. ASSUME NEW n PROVE OpensOn(n) = At(n, w.start) /\ ClosesOn(n) = At(n, w.end)
  BY <1>1, <1>3 DEF OpensOn, ClosesOn
<1> QED  BY <1>1, <1>2, <1>4

LEMMA DaysAround ==
  ASSUME NeverAtYearsEnd, asked \in Instants, NEW n
  PROVE  /\ n \in Around(DayOf(asked)) => n \in Nat /\ n <= 1460
         /\ n \in DayOf(asked) .. DayOf(asked) + Ahead => n \in Nat /\ n <= 1460
<1>1. PICK d : d = DayOf(asked)
  OBVIOUS
<1>2. d \in Nat /\ d + Ahead <= 1460 /\ Ahead \in Nat
  BY <1>1, AskedSoon, BoundsAssumption
<1>3. n \in Around(d) => n \in Nat /\ n <= 1460
  BY <1>2 DEF Around
<1>4. n \in d .. d + Ahead => n \in Nat /\ n <= 1460
  BY <1>2
<1> QED  BY <1>1, <1>3, <1>4

(***************************************************************************)
(* No opening is skipped, whatever the words and whenever the window is    *)
(* asked: the answer of returnTime is never after an occurrence that is    *)
(* not over, unless it is now.                                             *)
(***************************************************************************)
THEOREM NoOpeningSkipped ==
  ASSUME NeverAtYearsEnd PROVE ClockSpec => []OpeningNotSkipped
<1>1. ClockInv => OpeningNotSkipped
  <2> SUFFICES ASSUME ClockInv, Recurring({"every", "always_except"}),
                      NEW n \in Around(DayOf(asked)) \cup DayOf(asked) .. DayOf(asked) + Ahead,
                      Recurs(n), asked < ClosesOn(n)
               PROVE  answer.start <= OpensOn(n) \/ answer.start <= asked
    BY DEF OpeningNotSkipped
  <2>1. PICK w : w = saidWindow
    OBVIOUS
  <2>2. /\ asked \in Instants /\ NotSkipped(w, asked, answer) /\ Fits(w.recurrence, n)
        /\ OpensOn(n) = At(n, w.start) /\ ClosesOn(n) = At(n, w.end)
    BY <2>1, HoursSaid
  <2>3. n \in Nat /\ n <= 1460
    BY <2>2, DaysAround
  <2> QED  BY <2>2, <2>3 DEF NotSkipped
<1> QED  BY <1>1, ClockKept, PTL

(***************************************************************************)
(* While the window lasts it answers the end of this very occurrence.      *)
(***************************************************************************)
THEOREM ClosingKnown ==
  ASSUME NeverAtYearsEnd PROVE ClockSpec => []KnowsClosing
<1>1. ClockInv => KnowsClosing
  <2> SUFFICES ASSUME ClockInv, Recurring({"every"}), NEW n \in Around(DayOf(asked)),
                      Lasts(n, asked)
               PROVE  GetNextEndTime(saidWindow, asked, answer) = ClosesOn(n)
    BY DEF KnowsClosing
  <2>1. PICK w : w = saidWindow
    OBVIOUS
  <2>2. Recurs(n) /\ OpensOn(n) <= asked /\ asked < ClosesOn(n)
    BY DEF Lasts
  <2>3. /\ asked \in Instants /\ Answered(w, asked, answer) /\ w.kind = "every" /\ Fits(w.recurrence, n)
        /\ OpensOn(n) = At(n, w.start) /\ ClosesOn(n) = At(n, w.end)
    BY <2>1, <2>2, HoursSaid
  <2>4. n \in Nat
    BY <2>3, DaysAround
  <2>5. answer = [start |-> asked, end |-> At(n, w.end)]
    BY <2>2, <2>3, <2>4 DEF Answered
  <2> QED  BY <2>1, <2>3, <2>5 DEF GetNextEndTime
<1> QED  BY <1>1, ClockKept, PTL

(***************************************************************************)
(* A queue that is always open but for an exception is told, while the     *)
(* exception lasts, to start when it is over.                              *)
(***************************************************************************)
THEOREM ExceptionsHold ==
  ASSUME NeverAtYearsEnd PROVE ClockSpec => []ExceptionHolds
<1>1. ClockInv => ExceptionHolds
  <2> SUFFICES ASSUME ClockInv, Recurring({"always_except"}), NEW n \in Around(DayOf(asked)),
                      Lasts(n, asked), asked + 1 < ClosesOn(n)
               PROVE  GetNextStartTime(saidWindow, asked, answer) = ClosesOn(n)
    BY DEF ExceptionHolds
  <2>1. PICK w : w = saidWindow
    OBVIOUS
  <2>2. Recurs(n) /\ OpensOn(n) <= asked /\ asked < ClosesOn(n)
    BY DEF Lasts
  <2>3. /\ asked \in Instants /\ Answered(w, asked, answer) /\ w.kind = "always_except"
        /\ Fits(w.recurrence, n) /\ OpensOn(n) = At(n, w.start) /\ ClosesOn(n) = At(n, w.end)
    BY <2>1, <2>2, HoursSaid
  <2>4. n \in Nat /\ asked \in Nat
    BY <2>3, DaysAround, AskedSoon
  <2>5. answer = [start |-> asked, end |-> At(n, w.end)]
    BY <2>2, <2>3, <2>4 DEF Answered
  <2>6. Inside(asked, answer)
    BY <2>3, <2>4, <2>5 DEF Inside
  <2> QED  BY <2>1, <2>3, <2>5, <2>6 DEF GetNextStartTime
<1> QED  BY <1>1, ClockKept, PTL
=============================================================================
