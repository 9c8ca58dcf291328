---------------------------- MODULE WindowLanguage ----------------------------
(***************************************************************************)
(* The words in which a window of operation is written, such as            *)
(*     1am to 2am every 1st of the month                                   *)
(* read one by one by the lexer, which turns a word into items, and by the *)
(* parser, whose states say which items may come next.                     *)
(***************************************************************************)
EXTENDS QueueWindow, Sequences

None == -1
NoDate == [day |-> None, month |-> None, year |-> None]

WeekdayOf == [sunday |-> 0, monday |-> 1, tuesday |-> 2, wednesday |-> 3,
              thursday |-> 4, friday |-> 5, saturday |-> 6]

MonthOf == [jan |-> 1, feb |-> 2, mar |-> 3, apr |-> 4, may |-> 5, jun |-> 6, jul |-> 7,
            aug |-> 8, sep |-> 9, oct |-> 10, nov |-> 11, dec |-> 12]

(***************************************************************************)
(* mapper and RE_TIME: what the words of each type say.  Another spelling   *)
(* of a day or a month stands for the one here.                            *)
(***************************************************************************)
Keywords ==
    [TimeModifier |-> {"am", "pm"},
     Day          |-> DOMAIN WeekdayOf \cup {"weekday", "weekend"},
     Month        |-> DOMAIN MonthOf,
     RecurringByDayMonthYear |-> {"day", "month", "monthly", "year", "yearly"}]

IsWord(w) ==
    /\ w.typ # "End"
    /\ w.typ \in DOMAIN Keywords => w.val \in Keywords[w.typ]
    /\ w.typ = "Time" => w.mod \in {"none"} \cup Keywords["TimeModifier"]

Item(typ, val) == [typ |-> typ, val |-> val]
End == Item("End", None)

(***************************************************************************)
(* lexer.  A word is a keyword, of the type the mapper gives it; a day of  *)
(* the month or a date; a time, perhaps with "am" or "pm" appended, which  *)
(* becomes an item of its own; a time with a dot, of which only the hour   *)
(* is read; or a timezone.                                                 *)
(***************************************************************************)
IsTime(w) == w.hour \in 0 .. 23 /\ w.minute \in 0 .. 59

Lex(w) ==
    CASE w.typ = "Time" /\ IsTime(w) ->
             <<Item("Time", w.hour * 60 + w.minute)>>
                 \o (IF w.mod = "none" THEN <<>> ELSE <<Item("TimeModifier", w.mod)>>)
      [] w.typ = "Time" /\ ~IsTime(w) -> <<Item("Text", None)>>
      [] w.typ = "Dotted" -> <<Item("Time", w.hour * 60)>>
      [] OTHER -> <<Item(w.typ, w.val)>>

-----------------------------------------------------------------------------
(* The parser: the items that are valid after each of its states. *)
Valid ==
    [Start         |-> {"Time", "AnyAlways", "Never"},
     FirstTime     |-> {"TimeModifier", "TimeRange"},
     SecondTime    |-> {"TimeModifier", "Recurrence", "On"},
     TimeModifier  |-> {"TimeRange", "On", "Recurrence"},
     TimeRange     |-> {"Time"},
     AnyAlways     |-> {"AnyAlwaysClarification", "Exception", "End"},
     AnyAlwaysClarification |-> {"Exception", "End"},
     Never         |-> {"End"},
     Exception     |-> {"Time", "Calendar"},
     Recurrence    |-> {"Day", "Calendar", "RecurringByDayMonthYear"},
     On            |-> {"Calendar"},
     Calendar      |-> {"RecurringByDayMonthYear", "Month", "Clarification"},
     Clarification |-> {"RecurringByDayMonthYear", "Month", "Clarification"},
     Date          |-> {"Where", "End"},
     Day           |-> {"Where", "End"},
     Month         |-> {"Where", "End"},
     RecurringByDayMonthYear |-> {"Where", "End"},
     Where         |-> {"TimeZoneParam"},
     TimeZoneParam |-> {"Equals"},
     Equals        |-> {"TimeZone"},
     TimeZone      |-> {"End"},
     Accepted      |-> {},
     Refused       |-> {}]

ParseStart ==
    [at |-> "Start", start |-> None, end |-> None, recurrence |-> <<>>, onDate |-> NoDate,
     alwaysOn |-> FALSE, alwaysOff |-> FALSE, calendar |-> NoDate]

Enter(p, at) == [p EXCEPT !.at = at]
Refuse(p) == [ParseStart EXCEPT !.at = "Refused"]
UpdateRecurrence(p, item) == [p EXCEPT !.recurrence = Append(@, item)]

(* parseTime *)
ParseTime(p, time) ==
    IF p.start = None THEN [Enter(p, "FirstTime") EXCEPT !.start = time]
    ELSE [Enter(p, "SecondTime") EXCEPT !.end = time]

(* parseTimeModifier: am and pm make the last time one of 24 hours. *)
TwentyFour(mod, time) ==
    IF mod = "am" THEN IF time >= 12 * 60 THEN time - 12 * 60 ELSE time
    ELSE IF time < 12 * 60 THEN time + 12 * 60 ELSE time

ParseTimeModifier(p, mod) ==
    IF p.end = None THEN [Enter(p, "TimeModifier") EXCEPT !.start = TwentyFour(mod, @)]
    ELSE [Enter(p, "TimeModifier") EXCEPT !.end = TwentyFour(mod, @)]

(* parseCalendar: a date with a year is the only day of the window; a day  *)
(* of the month, or of the year, recurs.                                   *)
ParseCalendar(p, item) ==
    IF item.val.year # None THEN [Enter(p, "Date") EXCEPT !.onDate = item.val]
    ELSE [UpdateRecurrence(Enter(p, "Calendar"), item) EXCEPT !.calendar = item.val]

(* parseRecurringByDayMonthYear: what recurs every year has a month. *)
ParseRecurring(p, item) ==
    IF item.val \in {"year", "yearly"} /\ p.calendar.month = None
    THEN Refuse(p)
    ELSE UpdateRecurrence(Enter(p, "RecurringByDayMonthYear"), item)

(* switchOnValidStates, and the state it switches to. *)
Parse(p, item) ==
    IF item.typ \notin Valid[p.at] THEN Refuse(p)
    ELSE CASE item.typ = "Time"         -> ParseTime(p, item.val)
           [] item.typ = "TimeModifier" -> ParseTimeModifier(p, item.val)
           [] item.typ = "Calendar"     -> ParseCalendar(p, item)
           [] item.typ = "RecurringByDayMonthYear" -> ParseRecurring(p, item)
           [] item.typ \in {"Day", "Month"} -> UpdateRecurrence(Enter(p, item.typ), item)
           [] item.typ = "AnyAlways"    -> [Enter(p, "AnyAlways") EXCEPT !.alwaysOn = TRUE]
           [] item.typ = "Never"        -> [Enter(p, "Never") EXCEPT !.alwaysOff = TRUE]
           [] item.typ = "End"          -> Enter(p, "Accepted")
           [] OTHER                     -> Enter(p, item.typ)

ParseWord(p, w) ==
    LET items == Lex(w)
        after == Parse(p, items[1])
    IN  IF Len(items) = 1 THEN after ELSE Parse(after, items[2])

-----------------------------------------------------------------------------
(***************************************************************************)
(* How generateRecurringWindow takes a window that was accepted.  It        *)
(* panics on a time that is not there and on a recurrence of one word that *)
(* has two in the cases tried last, and derives nothing from a recurrence  *)
(* that fits none of its cases.                                            *)
(***************************************************************************)
Recurrence(r) ==
    LET rule == [every |-> "day", day |-> 1, month |-> 1, weekday |-> 0]
        date == r[1].val
        dayOfMonth == Len(r) = 2 /\ date.month = None
    IN  CASE r[1].typ = "Day" /\ date \in DOMAIN WeekdayOf ->
                 [rule EXCEPT !.every = "day_of_week", !.weekday = WeekdayOf[date]]
          [] r[1].typ = "Day" /\ date \notin DOMAIN WeekdayOf -> [rule EXCEPT !.every = date]
          [] r[1].typ = "RecurringByDayMonthYear" /\ date = "day" -> rule
          [] r[1].typ = "Calendar" /\ r[2].val \in {"month", "monthly"} /\ dayOfMonth ->
                 [rule EXCEPT !.every = "month", !.day = date.day]
          [] r[1].typ = "Calendar" /\ r[2].val \in DOMAIN MonthOf /\ dayOfMonth ->
                 [rule EXCEPT !.every = "year", !.day = date.day, !.month = MonthOf[r[2].val]]
          [] r[1].typ = "Calendar" /\ r[2].val \in {"year", "yearly"} ->
                 [rule EXCEPT !.every = "year", !.day = date.day, !.month = date.month]
          [] OTHER -> [rule EXCEPT !.every = IF Len(r) = 1 THEN "panics" ELSE "nothing"]

AsWindow(p) ==
    LET w(kind) == [kind |-> kind, start |-> p.start, end |-> p.end, date |-> p.onDate,
                    recurrence |-> IF p.recurrence = <<>> THEN NoDate ELSE Recurrence(p.recurrence)]
    IN  CASE p.alwaysOn /\ p.recurrence = <<>> -> w("always")
          [] p.alwaysOff -> w("panics")
          [] ~p.alwaysOn /\ p.onDate # NoDate -> w("on")
          [] OTHER ->
               IF p.start = None \/ p.end = None \/ p.recurrence = <<>> \/ Recurrence(p.recurrence).every = "panics"
               THEN w("panics")
               ELSE IF Recurrence(p.recurrence).every = "nothing" THEN w("nothing")
               ELSE w(IF p.alwaysOn THEN "always_except" ELSE "every")
=============================================================================
