----------------------------- MODULE WindowClock -----------------------------
(***************************************************************************)
(* A window of operation from the words a client writes to the answers the *)
(* queue's manager gets, as time passes, on when it opens and closes.      *)
(*                                                                         *)
(* The answers are compared with what the words mean: the days on which    *)
(* the window recurs and the hours of such a day.                          *)
(*                                                                         *)
(* The clock has names of its own beside those of WindowTimers: what is    *)
(* proved of the answers is proved where they set timers.                  *)
(***************************************************************************)
EXTENDS WindowLanguage, FiniteSets

CONSTANTS
    Words,      \* the words clients write
    MaxWords,   \* bound on the length of what they write
    Instants,   \* the instants at which a window may be asked
    Ahead       \* how many days ahead the meaning of a window is unfolded

ASSUME WordsAssumption == \A w \in Words : IsWord(w)
ASSUME InstantsAssumption == Instants # {} /\ Instants \subseteq Nat
ASSUME BoundsAssumption ==
    /\ MaxWords \in Nat /\ Ahead \in Nat
    /\ \A t \in Instants : DayOf(t) + Ahead <= 4 * 365    \* DateOf knows four years

VARIABLES
    said,       \* the words read
    parser,     \* the parser and the window it fills in
    asked,      \* the time, from when the words have been read
    answer      \* start_ and end_ of the window

clockVars == <<said, parser, asked, answer>>

NoTimes == [start |-> Zero, end |-> Zero]

saidWindow == AsWindow(parser)

(* The window is one that can be asked. *)
CanBeAsked == parser.at = "Accepted" /\ saidWindow.kind # "panics"

ClockInit ==
    /\ said = <<>>
    /\ parser = ParseStart
    /\ asked = Zero
    /\ answer = NoTimes

(* The words of a definition, as the handler of the API reads them first and *)
(* the manager of the queue once more.                                       *)
Read(w) ==
    /\ parser.at \notin {"Accepted", "Refused"}
    /\ Len(said) < MaxWords
    /\ said' = Append(said, w)
    /\ parser' = ParseWord(parser, w)
    /\ UNCHANGED <<asked, answer>>

(* The end of the words.  The manager asks as soon as it has the window. *)
ReadEnd(t) ==
    /\ parser.at \notin {"Accepted", "Refused"}
    /\ parser' = Parse(parser, End)
    /\ asked' = IF CanBeAsked' THEN t ELSE Zero
    /\ answer' = IF CanBeAsked' THEN Refresh(saidWindow', t, NoTimes) ELSE NoTimes
    /\ UNCHANGED said

(* It asks again at a later instant (GetNextStartTime, GetNextEndTime). *)
Ask(t) ==
    /\ CanBeAsked
    /\ t > asked
    /\ asked' = t
    /\ answer' = Refresh(saidWindow, t, answer)
    /\ UNCHANGED <<said, parser>>

ClockNext == (\E w \in Words : Read(w)) \/ \E t \in Instants : ReadEnd(t) \/ Ask(t)

ClockSpec == ClockInit /\ [][ClockNext]_clockVars

-----------------------------------------------------------------------------
(* What the words mean.  The hour of a time of day, of which the last two   *)
(* said are the beginning and the end ...                                   *)
Saying(typ) == {i \in DOMAIN said : said[i].typ = typ}

ModifierAt(i) ==
    IF said[i].mod # "none" THEN said[i].mod
    ELSE IF i < Len(said) /\ said[i + 1].typ = "TimeModifier" THEN said[i + 1].val ELSE "none"

TimeAt(i) ==
    60 * (CASE ModifierAt(i) = "am"   -> said[i].hour % 12
            [] ModifierAt(i) = "pm"   -> (said[i].hour % 12) + 12
            [] ModifierAt(i) = "none" -> said[i].hour) + said[i].minute

Beginning == TimeAt(CHOOSE i \in Saying("Time") : \A j \in Saying("Time") : i <= j)
Ending    == TimeAt(CHOOSE i \in Saying("Time") : \A j \in Saying("Time") : i >= j)

(* ... and the days on which the window recurs. *)
DaySaid(name, n) ==
    CASE name = "weekday" -> ~IsWeekend(Weekday(n))
      [] name = "weekend" -> IsWeekend(Weekday(n))
      [] OTHER            -> Weekday(n) = WeekdayOf[name]

Recurs(n) ==
    /\ \A i \in Saying("Day") : DaySaid(said[i].val, n)
    /\ \A i \in Saying("Calendar") :
          DateOf(n).day = said[i].val.day /\ said[i].val.month \in {None, DateOf(n).month}
    /\ \A i \in Saying("Month") : DateOf(n).month = MonthOf[said[i].val]

OpensOn(n) == At(n, Beginning)
ClosesOn(n) == At(IF Ending < Beginning THEN n + 1 ELSE n, Ending)

(* At t the occurrence of the window that begins on day n lasts. *)
Lasts(n, t) == Recurs(n) /\ OpensOn(n) <= t /\ t < ClosesOn(n)

Around(n) == {m \in {n - 1, n} : m >= 0}

(* A window of two times that ends on the day it begins, with a recurrence *)
(* that the code knows.  The minutes of a time with a dot are not read.    *)
Recurring(kinds) ==
    /\ CanBeAsked /\ saidWindow.kind \in kinds
    /\ Cardinality(Saying("Time")) = 2 /\ Saying("Dotted") = {}
    /\ Beginning < Ending

-----------------------------------------------------------------------------
(***************************************************************************)
(* The answer is a pair of instants, and the window ends after it starts   *)
(* unless it has never been derived, or both were given for one date.      *)
(***************************************************************************)
ClockTypeOK ==
    /\ said \in Seq(Words)
    /\ parser.at \in DOMAIN Valid
    /\ {parser.start, parser.end} \subseteq 0 .. MinutesPerDay - 1 \cup {None}
    /\ asked \in Instants \cup {Zero}
    /\ answer \in [start : Int, end : Int]
    /\ Recurring({"every", "always_except"}) => answer = NoTimes \/ answer.start < answer.end

(***************************************************************************)
(* No opening is skipped: an occurrence of the window that is not over yet *)
(* does not begin before the start the window holds, unless it is that the *)
(* start is now.  (returnTime keeps the cached start until it has passed.) *)
(***************************************************************************)
OpeningNotSkipped ==
    Recurring({"every", "always_except"}) =>
        \A n \in Around(DayOf(asked)) \cup DayOf(asked) .. DayOf(asked) + Ahead :
            Recurs(n) /\ asked < ClosesOn(n)
                => answer.start <= OpensOn(n) \/ answer.start <= asked

(***************************************************************************)
(* While the window lasts it answers the end of this very occurrence.      *)
(***************************************************************************)
KnowsClosing ==
    Recurring({"every"}) =>
        \A n \in Around(DayOf(asked)) :
            Lasts(n, asked) => GetNextEndTime(saidWindow, asked, answer) = ClosesOn(n)

(***************************************************************************)
(* A queue that is always open but for an exception is told, while the     *)
(* exception lasts, to start when it is over (save in its last second).    *)
(***************************************************************************)
ExceptionHolds ==
    Recurring({"always_except"}) =>
        \A n \in Around(DayOf(asked)) :
            Lasts(n, asked) /\ asked + 1 < ClosesOn(n)
                => GetNextStartTime(saidWindow, asked, answer) = ClosesOn(n)

-----------------------------------------------------------------------------
(***************************************************************************)
(* What a reader may expect, and does not hold.  The start a window        *)
(* answers lies on a day the window names.                                 *)
(***************************************************************************)
OpensOnAskedDays ==
    Recurring({"every"}) => answer.start # Zero /\ Recurs(DayOf(answer.start))

(***************************************************************************)
(* What CreateOrUpdate accepts can be asked (queue.go: "Realistically we   *)
(* should never reach this point. CreateOrUpdate will ensure it is valid").*)
(***************************************************************************)
AcceptedIsAnswered == parser.at = "Accepted" => saidWindow.kind # "panics"

(***************************************************************************)
(* What is accepted has a meaning to the window: not so for a date with     *)
(* "monthly", or a weekday of the month (parser.go, the valid items).       *)
(***************************************************************************)
AcceptedIsWhole == CanBeAsked => saidWindow.kind # "nothing"
=============================================================================
