--------------------------------- MODULE Cron ---------------------------------
(***************************************************************************)
(* What a trigger's settings name: packages/plugin-schedule/src (cron.ts,  *)
(* schedule.ts).  Time is counted in minutes, and the calendar's lengths   *)
(* are constants, so that a year, with its months of different lengths, is *)
(* small enough to be walked.                                              *)
(*                                                                         *)
(* A wall clock reading is the number of minutes the clock has counted; a  *)
(* zone is an offset that changes once by `shift`, at the instant `at`.    *)
(***************************************************************************)
EXTENDS Integers, SequencesExt

CONSTANTS
    HourLength, DayLength, WeekLength,  \* minutes of an hour, hours of a day, days of a week,
    MonthLength, YearLength,            \*   days of the longest month, months of a year
    Dates,                              \* the days of a year, in order: [month, day]
    HORIZON,                            \* how far a search goes
    CountMax,                           \* the most ticks ticksBetween counts
    WalkMax                             \* the most ticks lastBefore walks over

Undefined == -1                         \* undefined, where an instant could be

TwoHours == 2 * HourLength

-----------------------------------------------------------------------------
(* Readings.                                                               *)

Reading(zone, t) == t + (IF t < zone.at THEN 0 ELSE zone.shift)

Wall(r) ==
    LET days == r \div (HourLength * DayLength)
        date == Dates[(days % Len(Dates)) + 1]
    IN  [minute |-> r % HourLength, hour |-> (r \div HourLength) % DayLength,
         day |-> date.day, month |-> date.month, weekday |-> days % WeekLength]

-----------------------------------------------------------------------------
(* Expressions.  A term of a field is [star, low, high, step]; the text of *)
(* a field is a set of them.                                               *)
Ranges ==
    [minute |-> <<0, HourLength - 1>>, hour |-> <<0, DayLength - 1>>,
     day |-> <<1, MonthLength>>, month |-> <<1, YearLength>>, weekday |-> <<0, WeekLength>>]

Bounds(term, range) == IF term.star THEN range ELSE <<term.low, term.high>>

Accepted(terms, range) == terms # {} /\ \A term \in terms :
    /\ term.step >= 1
    /\ term.star \/ (range[1] <= term.low /\ term.low <= term.high /\ term.high <= range[2])

TermValues(term, range) ==
    LET bounds == Bounds(term, range) IN
    {v \in bounds[1] .. bounds[2] : (v - bounds[1]) % term.step = 0}

(* The week's last day is also written as the one past it.                 *)
Field(name, terms) ==
    LET values == UNION {TermValues(term, Ranges[name]) : term \in terms} IN
    [values |-> IF name = "weekday" THEN {v % WeekLength : v \in values} ELSE values,
     every  |-> \E term \in terms : terms = {term} /\ term.star]

Parses(text)    == \A name \in DOMAIN Ranges : Accepted(text[name], Ranges[name])
ParseCron(text) ==
    [minute |-> Field("minute", text.minute), hour |-> Field("hour", text.hour), day |-> Field("day", text.day),
     month |-> Field("month", text.month), weekday |-> Field("weekday", text.weekday)]

Matches(cron, r) ==
    LET wall == Wall(r)
        In(name) == wall[name] \in cron[name].values
    IN  /\ In("minute") /\ In("hour") /\ In("month")
        /\ IF ~cron.day.every /\ ~cron.weekday.every
           THEN In("day") \/ In("weekday")
           ELSE (cron.day.every \/ In("day")) /\ (cron.weekday.every \/ In("weekday"))

-----------------------------------------------------------------------------
(* The next instant.                                                       *)

(* The clock read this very minute within the last two hours.              *)
Repeated(zone, t) ==
    \E back \in 1 .. TwoHours : Reading(zone, t - back) = Reading(zone, t)

(* The expression names a minute between two readings, which were a jump.  *)
NamedInGap(cron, before, after) ==
    \E r \in (before + 1) .. (after - 1) : r - before <= TwoHours /\ Matches(cron, r)

Fires(cron, zone, t) ==
    \/ NamedInGap(cron, Reading(zone, t - 1), Reading(zone, t))
    \/ Matches(cron, Reading(zone, t)) /\ ~Repeated(zone, t)

NextTick(cron, zone, after) ==
    LET ahead == (after + 1) .. (after + HORIZON) IN
    IF \E t \in ahead : Fires(cron, zone, t)
    THEN CHOOSE t \in ahead : Fires(cron, zone, t) /\ \A u \in (after + 1) .. (t - 1) : ~Fires(cron, zone, u)
    ELSE Undefined

NextInterval(every, after) == (after \div every + 1) * every

(* nextOf: an interval where the schedule says one, else an expression.    *)
NextOf(schedule, zone, after) ==
    IF schedule.every # 0 THEN NextInterval(schedule.every, after)
                          ELSE NextTick(schedule.cron, zone, after)

(* The ticks one after another from an instant on: the nth, or Undefined.       *)
Walked(schedule, zone, from, steps) ==
    LET nth[n \in 0 .. steps] ==
            IF n = 0 THEN from
            ELSE LET before == nth[n - 1] IN
                 IF before = Undefined THEN Undefined ELSE NextOf(schedule, zone, before)
    IN  {nth[n] : n \in 1 .. steps} \ {Undefined}

IntervalsBetween(every, from, to) == Max({0, -((-to) \div every) - (from \div every) - 1})

BetweenOf(schedule, zone, from, to) ==
    IF schedule.every # 0
    THEN IntervalsBetween(schedule.every, from, to)
    ELSE Cardinality({t \in Walked(schedule, zone, from, CountMax) : t < to})

LastBefore(schedule, zone, at, since) ==
    IF schedule.every # 0
    THEN (at \div schedule.every) * schedule.every
    ELSE LET past == {t \in Walked(schedule, zone, since, WalkMax) : t <= at} IN
         IF past = {} THEN Undefined ELSE Max(past)

-----------------------------------------------------------------------------
(* What RFC 0010 promises, without a walk: each minute an expression names *)
(* fires once, at the first instant at which the clock has come to it or   *)
(* past it -- the first of two readings, or the end of the gap -- and an   *)
(* interval's ticks are its multiples.                                     *)
FirstAt(zone, r, t) ==
    /\ Reading(zone, t) >= r
    /\ \A u \in (t - 2 * TwoHours) .. (t - 1) : Reading(zone, u) < r

Promised(schedule, zone, t) ==
    IF schedule.every # 0
    THEN t % schedule.every = 0
    ELSE \E r \in (Reading(zone, t) - TwoHours) .. Reading(zone, t) :
             Matches(schedule.cron, r) /\ FirstAt(zone, r, t)
=============================================================================
