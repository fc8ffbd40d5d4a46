------------------------------- MODULE TickLoop -------------------------------
(***************************************************************************)
(* The loop that keeps a tree's schedule in one process, over the triggers *)
(* of the tree as reloads leave it: packages/plugin-schedule/src           *)
(* (scheduler.ts).  Every trigger says `overlap: skip`, and a take is      *)
(* granted; Schedule has the rest of what a tick meets.                    *)
(*                                                                         *)
(* A step is what runs between two awaits.  The clock moves on at any      *)
(* time, so a loop may be late by any amount.                              *)
(***************************************************************************)
EXTENDS Integers, SequencesExt

CONSTANTS
    Never,                      \* undefined, where an instant could be
    TickAfter(_, _, _),         \* what Cron computes: a schedule's next tick in a zone after an instant,
    TicksBetween(_, _, _, _),   \*   how many fall between two,
    TickBefore(_, _, _, _),     \*   the last at or before one, from another on,
    IsTick(_, _, _),            \*   and whether an instant is one that is to fire
    Names,          \* the paths triggers may be written at, in the tree's order: a sequence
    Absent,         \* the schedule of a path that holds no trigger
    CatchUps,       \* the schedules that say `catchUp`
    Firsts,         \* the trees a process may start with: functions from a path to a schedule
    Edits,          \* the reloads looked at: pairs of a tree and the one after it
    Remembered,     \* the ticks a keeper may have recorded as the last one fired
    Zones,          \* the zones a schedule is read in, for as long as the run looks
    StartTime, EndTime,    \* bound: the instants looked at
    MaxReloads      \* bound

Name    == ToSet(Names)
Instant == StartTime .. EndTime

(* And those a tick missed may have fallen at, from the one remembered on. *)
Looked == UNION {since .. EndTime : since \in {StartTime} \cup Remembered}

(* The trees there may be, and the schedules in them.                      *)
Tree  == Firsts \cup {edit[2] : edit \in Edits}
Known == {t[n] : t \in Tree, n \in Name} \ {Absent}

-----------------------------------------------------------------------------
(* What the loop takes of the instants it is told: that each is the next   *)
(* one, the number of those between, or the last, of those that are ticks. *)

(* The instants of `schedule` after `from` and before `to`.                *)
TicksIn(schedule, zone, from, to) ==
    {t \in (from + 1) .. (to - 1) : IsTick(schedule, zone, t)}

ASSUME TimesAssumption ==
    /\ StartTime \in Nat /\ EndTime \in Nat /\ StartTime <= EndTime /\ Never \notin Nat
    /\ Remembered \in SUBSET (0 .. StartTime)

(* No instant looked at is further from another than a search goes.        *)
ASSUME NextAssumption ==
    \A schedule \in Known, zone \in Zones, at \in Instant :
        LET next == TickAfter(schedule, zone, at) IN
        IF next = Never
        THEN TicksIn(schedule, zone, at, EndTime + 1) = {}
        ELSE /\ next \in Nat /\ at < next /\ IsTick(schedule, zone, next)
             /\ TicksIn(schedule, zone, at, next) = {}

ASSUME BetweenAssumption ==
    \A schedule \in Known, zone \in Zones, from, to \in Looked :
        from < to => TicksBetween(schedule, zone, from, to) = Cardinality(TicksIn(schedule, zone, from, to))

ASSUME LastAssumption ==
    \A schedule \in Known, zone \in Zones, since \in Remembered :
        LET last == TickBefore(schedule, zone, StartTime, since) IN
        last # Never /\ since < last =>
            /\ last \in Nat /\ last <= StartTime /\ IsTick(schedule, zone, last)
            /\ TicksIn(schedule, zone, last, StartTime + 1) = {}

-----------------------------------------------------------------------------
VARIABLES
    timezone,       \* never written
    triggers,       \* the tree that serves: the schedule at each path
    now,
    mode,           \* "catchUp", "ticks" (a pass is under way) or "asleep"
    alarm,          \* when a sleeping loop wakes
    read,           \* the tree as the pass read it,
    left,           \*   the places in Names of the triggers it has still to judge,
    judging,        \*   and the instant it judges them by
    due,            \* the tick each path is next due at, or Never
    remembered,     \* the keeper's lastFired of each path, read at start; Never: none
    inFlight,       \* whether a path's run has not answered
    lastFired,      \* the last tick this process fired
    missed,         \* what the last tick fired said was missed
    taken,          \* (observed only) the ticks taken since the path's first was worked out,
    seededAt,       \*   and the instant that was worked out at,
    edited,         \*   and whether a reload changed the trigger since
    dropped,        \* (observed only) ticks not fired since the last one that was
    owed,           \*   and how many there were before that one
    reloads         \* (bounded)

passVars  == <<read, left, judging>>
seen      == <<taken, seededAt, edited>>
runVars   == <<inFlight, lastFired, missed, dropped, owed>>
tickVars  == <<timezone, triggers, now, mode, alarm, passVars, due, remembered, runVars, seen, reloads>>

-----------------------------------------------------------------------------
(* The triggers of a tree, by their places in its order.                   *)
Schedules(t) == {i \in DOMAIN Names : t[Names[i]] # Absent}

(* The next one a pass judges.                                             *)
Foremost(i) == i \in left /\ \A j \in left : i <= j

(* mutant: worked out from the instant the pass judges by, once one is late*)
NextAfterNow(schedule, at) == TickAfter(schedule, timezone, IF at < judging THEN judging ELSE at)

NextAfter(schedule, at) == TickAfter(schedule, timezone, at)

(* Those not yet due are worked out from now on.                           *)
Seeded(t, kept) == {n \in Name : t[n] # Absent /\ kept[n] = Never}

SeededAt(t, kept) == [n \in Name |-> IF n \in Seeded(t, kept) THEN NextAfter(t[n], now) ELSE kept[n]]

NoTicks == [n \in Name |-> Never]

LoopInit ==
    /\ timezone \in Zones /\ triggers \in Firsts
    /\ now = StartTime
    /\ mode = "catchUp" /\ alarm = StartTime /\ judging = StartTime
    /\ read = triggers /\ left = Schedules(triggers)
    /\ due = SeededAt(triggers, NoTicks)
    /\ remembered \in {[n \in Name |-> last] : last \in {Never} \cup Remembered}
    /\ \A n \in Name : remembered[n] # Never =>
          \E m \in Name : triggers[m] \in CatchUps
    /\ inFlight = [n \in Name |-> FALSE] /\ lastFired = NoTicks
    /\ missed = [n \in Name |-> 0] /\ owed = [n \in Name |-> 0]
    /\ taken = [n \in Name |-> <<>>] /\ dropped = [n \in Name |-> {}]
    /\ seededAt = [n \in Name |-> StartTime] /\ edited = [n \in Name |-> FALSE]
    /\ reloads = 0

-----------------------------------------------------------------------------
(* mutant: the tick that fires is itself counted                           *)
MissedWithIt(schedule, since, at) ==
    IF since = Never THEN 0 ELSE TicksBetween(schedule, timezone, since, at) + 1

(* A tick: fired, unless the run before it is still going.  `since` is the *)
(* last one fired, `before` the ticks known to have fallen in between.     *)
Missed(schedule, since, at) ==
    IF since = Never THEN 0 ELSE TicksBetween(schedule, timezone, since, at)

Later(at, since) == IF since = Never THEN at ELSE Max({at, since})

Reached(n, schedule, at, since, before) ==
    IF inFlight[n]
    THEN /\ dropped' = [dropped EXCEPT ![n] = before \cup {at}]
         /\ lastFired' = [lastFired EXCEPT ![n] = since]
         /\ UNCHANGED <<inFlight, missed, owed>>
    ELSE /\ inFlight' = [inFlight EXCEPT ![n] = TRUE]
         /\ lastFired' = [lastFired EXCEPT ![n] = Later(at, since)]
         /\ missed' = [missed EXCEPT ![n] = Missed(schedule, since, at)]
         /\ owed' = [owed EXCEPT ![n] = IF since = Never THEN 0 ELSE Cardinality(before)]
         /\ dropped' = [dropped EXCEPT ![n] = {}]

(* At start: the last tick that fell while no process ran, where a keeper  *)
(* remembers one before it.                                                *)
CatchUp ==
    /\ mode = "catchUp"
    /\ \E i \in left :
        /\ Foremost(i)
        /\ left' = left \ {i}
        /\ LET n        == Names[i]
               schedule == read[n]
               last     == remembered[n]
               recent   == TickBefore(schedule, timezone, judging, last)
           IN  IF schedule \in CatchUps /\ last # Never /\ recent # Never /\ last < recent
               THEN Reached(n, schedule, recent, last, TicksIn(schedule, timezone, last, recent))
               ELSE UNCHANGED runVars
    /\ UNCHANGED <<timezone, triggers, now, mode, alarm, read, judging, due, remembered, seen, reloads>>

Kept(t) == [n \in Name |-> IF t[n] = Absent THEN Never ELSE due[n]]

Wake ==
    /\ left = {}
    /\ \/ mode = "catchUp"
       \/ mode = "asleep" /\ now >= alarm
    /\ mode' = "ticks" /\ judging' = now
    /\ read' = triggers /\ left' = Schedules(triggers)
    /\ due' = SeededAt(triggers, Kept(triggers))
    /\ LET fresh == Seeded(triggers, Kept(triggers)) IN
       /\ taken' = [n \in Name |-> IF n \in fresh THEN <<>> ELSE taken[n]]
       /\ seededAt' = [n \in Name |-> IF n \in fresh THEN now ELSE seededAt[n]]
       /\ edited' = [n \in Name |-> edited[n] /\ n \notin fresh]
    /\ UNCHANGED <<timezone, triggers, now, alarm, remembered, runVars, reloads>>

IsDue(n) == due[n] # Never /\ due[n] <= judging

(* One tick that has come due, and the next worked out from it.            *)
Advance ==
    /\ mode = "ticks"
    /\ \E i \in left : LET n == Names[i] IN
        /\ Foremost(i) /\ IsDue(n)
        /\ Reached(n, read[n], due[n], lastFired[n], dropped[n])
        /\ taken' = [taken EXCEPT ![n] = Append(@, due[n])]
        /\ due' = [due EXCEPT ![n] = NextAfter(read[n], @)]
    /\ UNCHANGED <<timezone, triggers, now, mode, alarm, passVars, remembered, seededAt, edited, reloads>>

NoneIsDue ==
    /\ mode = "ticks"
    /\ \E i \in left : Foremost(i) /\ ~IsDue(Names[i]) /\ left' = left \ {i}
    /\ UNCHANGED <<timezone, triggers, now, mode, alarm, read, judging, due, remembered, runVars, seen, reloads>>

(* Until the earliest tick due, or a minute.                               *)
Sleep ==
    /\ mode = "ticks" /\ left = {}
    /\ mode' = "asleep"
    /\ alarm' = Min({now + 1} \cup {Max({due[n], now}) : n \in {m \in Name : due[m] # Never}})
    /\ UNCHANGED <<timezone, triggers, now, passVars, due, remembered, runVars, seen, reloads>>

-----------------------------------------------------------------------------
(* The world.                                                              *)

RunAnswers(n) ==
    /\ inFlight[n]
    /\ inFlight' = [inFlight EXCEPT ![n] = FALSE]
    /\ UNCHANGED <<timezone, triggers, now, mode, alarm, passVars, due, remembered>>
    /\ UNCHANGED <<lastFired, missed, dropped, owed, seen, reloads>>

Clock ==
    /\ now < EndTime
    /\ now' = now + 1
    /\ UNCHANGED <<timezone, triggers, mode, alarm, passVars, due, remembered, runVars, seen, reloads>>

Reload ==
    /\ reloads < MaxReloads
    /\ reloads' = reloads + 1
    /\ \E edit \in Edits : edit[1] = triggers /\ triggers' = edit[2]
    /\ edited' = [n \in Name |-> edited[n] \/ triggers'[n] # triggers[n]]
    /\ UNCHANGED <<timezone, now, mode, alarm, passVars, due, remembered, runVars, taken, seededAt>>

LoopNext ==
    \/ CatchUp \/ Wake \/ Advance \/ NoneIsDue \/ Sleep \/ Clock \/ Reload
    \/ \E n \in Name : RunAnswers(n)

LoopSpec == LoopInit /\ [][LoopNext]_tickVars

-----------------------------------------------------------------------------
(* From the moment a trigger's first tick is worked out, as long as no     *)
(* reload changes it, every instant its schedule names before the tick next*)
(* due has been taken, once and in order, and no other -- across an hour   *)
(* the zone skips or repeats, whatever the other triggers do, and however  *)
(* late the loop wakes (RFC 0010:264-271, scheduler.ts:178-192).           *)
EveryTickOnce == \A n \in Name :
    triggers[n] # Absent /\ ~edited[n] /\ due[n] # Never =>
        /\ ToSet(taken[n]) = TicksIn(triggers[n], timezone, seededAt[n], due[n])
        /\ \A i, j \in DOMAIN taken[n] : i < j => taken[n][i] < taken[n][j]

(* What a fired tick says was missed is the ticks that were dropped or     *)
(* fell while no process ran, since the last one that fired: the number is *)
(* worked out from the expression alone, and the drops are the loop's      *)
(* (README of plugin-schedule:66-68, RFC 0010:317-323).                    *)
MissedAreTheDropped == reloads = 0 => \A n \in Name : missed[n] = owed[n]
=============================================================================
