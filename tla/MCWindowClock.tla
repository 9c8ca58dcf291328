---------------------------- MODULE MCWindowClock ----------------------------
(* Words and instants for model-checking WindowClock. *)
EXTENDS WindowClock

Hour == 60 * Minute

Word(typ, val) == [typ |-> typ, val |-> val, hour |-> 0, minute |-> 0, mod |-> "none"]
Time(hour, mod) == [Word("Time", None) EXCEPT !.hour = hour, !.mod = mod]
Keyword(val) == Word(
    CASE val \in {"day", "month", "yearly"} -> "RecurringByDayMonthYear"
      [] val \in DOMAIN WeekdayOf \cup {"weekday", "weekend"} -> "Day"
      [] val \in DOMAIN MonthOf -> "Month"
      [] val \in {"am", "pm"} -> "TimeModifier"
      [] val = "every" -> "Recurrence"   [] val = "to" -> "TimeRange"
      [] val = "always" -> "AnyAlways"   [] val = "except" -> "Exception"
      [] val = "time" -> "AnyAlwaysClarification"
      [] val = "never" -> "Never"        [] val = "on" -> "On"
      [] val \in {"of", "the"} -> "Clarification"
      [] val = "where" -> "Where"        [] val = "timezone" -> "TimeZoneParam"
      [] val = "=" -> "Equals"           [] val = "gmt" -> "TimeZone", val)
DayOfMonth(day) == Word("Calendar", [day |-> day, month |-> None, year |-> None])
DayOfYear(day, month) == Word("Calendar", [day |-> day, month |-> month, year |-> None])
Date(day, month, year) == Word("Calendar", [day |-> day, month |-> month, year |-> year])

(* 9am and 9 am, 5pm, midnight as 12am, and what is no hour. *)
Times == {Time(9, "am"), Time(9, "none"), Time(5, "pm"), Time(12, "am"), Time(25, "none")}

Grammar == {Keyword(k) : k \in {"am", "every", "to", "always", "except", "on", "never", "of"}}

Recurrences ==
    {Keyword(k) : k \in {"day", "sunday", "friday", "weekday", "weekend", "month", "yearly", "may"}}
    \cup {DayOfMonth(d) : d \in {1, 28, 31}} \cup {DayOfYear(28, 2), Date(28, 2, 2015)}

AllWords == Times \cup Grammar \cup Recurrences

(* The edges of the hours of a window that opens at start and closes at end. *)
Edges(start, end) ==
    {0, start * Hour - 1, start * Hour, start * Hour + 5, end * Hour - 1, end * Hour,
     end * Hour + Minute} \cap 0 .. Day - 1

(* The 31st of January, the 27th of February, a Friday, to the 1st of       *)
(* March, the 28th of May, and the 23rd of December, from which a window of *)
(* the next month is one of the next year.                                  *)
TurnsOfMonth == {30} \cup 57 .. 59 \cup {147, 356}

OfficeHours == {At(n, 0) + s : n \in TurnsOfMonth, s \in Edges(9, 17)}
=============================================================================
