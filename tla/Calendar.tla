------------------------------- MODULE Calendar --------------------------------
(***************************************************************************)
(* A calendar of two-minute hours, three-hour days, three-day weeks and    *)
(* years of a two-day and a three-day month; in it each kind of expression,*)
(* and zones that jump back two hours or half of one, or ahead by one.     *)
(***************************************************************************)
EXTENDS TickLoop, TLC

HourLength  == 2
DayLength   == 3
WeekLength  == 3
MonthLength == 3
YearLength  == 2
Dates       == <<[month |-> 1, day |-> 1], [month |-> 1, day |-> 2],
                 [month |-> 2, day |-> 1], [month |-> 2, day |-> 2], [month |-> 2, day |-> 3]>>
HORIZON     == 36
CountMax    == 10
WalkMax     == 10

Expressions == INSTANCE Cron

Paths  == <<"a", "b">>
NoTick == Expressions!Undefined

Star(step)      == [star |-> TRUE, low |-> 0, high |-> 0, step |-> step]
Span(low, high) == [star |-> FALSE, low |-> low, high |-> high, step |-> 1]
Only(v)         == Span(v, v)

AtAll  == [name \in DOMAIN Expressions!Ranges |-> {Star(1)}]
Hourly == [AtAll EXCEPT !.minute = {Only(0)}]
Daily  == [Hourly EXCEPT !.hour = {Only(1)}]

Texts ==
    "hourly"       :> Hourly
 @@ "daily"        :> Daily
 @@ "everyOther"   :> [Hourly EXCEPT !.hour = {Star(2)}]
 @@ "list"         :> [AtAll EXCEPT !.hour = {Only(0), Span(2, 2)}]
 @@ "onADay"       :> [Hourly EXCEPT !.day = {Only(2)}]
 @@ "onSundays"    :> [Daily EXCEPT !.weekday = {Only(WeekLength)}]
 @@ "eitherDay"    :> [Daily EXCEPT !.day = {Only(2)}, !.weekday = {Only(0)}]
 @@ "inAMonth"     :> [Daily EXCEPT !.day = {Span(2, 3)}, !.month = {Only(2)}]
 @@ "noSuchDay"    :> [Daily EXCEPT !.day = {Only(3)}, !.month = {Only(1)}]
 @@ "noStep"       :> [Daily EXCEPT !.minute = {Star(0)}]
 @@ "backwards"    :> [Daily EXCEPT !.hour = {Span(2, 1)}]

(* Only an expression that parses passes the check (X251).                 *)
Passing == {text \in DOMAIN Texts : Expressions!Parses(Texts[text])}

Settings ==
    [text \in Passing |-> [every |-> 0, cron |-> Expressions!ParseCron(Texts[text])]]
    @@ "by3" :> [every |-> 3, cron |-> Expressions!ParseCron(AtAll)]
    @@ "by4" :> [every |-> 4, cron |-> Expressions!ParseCron(AtAll)]

CaughtUp == DOMAIN Settings \ {"daily", "by3"}

At(one, two) == "a" :> one @@ "b" :> two

FirstTrees == {At(one, Absent) : one \in DOMAIN Settings \ {"by3"}} \cup {At("by3", "hourly")}
Reloads == {<<At("by3", "hourly"), At("by4", Absent)>>, <<At("daily", Absent), At(Absent, Absent)>>,
           <<At(Absent, Absent), At("daily", Absent)>>, <<At("daily", Absent), At("by3", "daily")>>}
SampleZones == [at : {StartTime + 3}, shift : {-4, -1, 2}]

(* The ticks, worked out once: TLC keeps the values of a function it       *)
(* merges.                                                                 *)
Asks(last) == (DOMAIN Settings) \X SampleZones \X (0 .. last)
NextTicks  == [ask \in Asks(EndTime) |-> Expressions!NextOf(Settings[ask[1]], ask[2], ask[3])] @@ <<>>
ToFire     == [ask \in Asks(EndTime + HORIZON) |-> Expressions!Promised(Settings[ask[1]], ask[2], ask[3])] @@ <<>>

NextTickOf(s, z, t)      == NextTicks[<<s, z, t>>]
FiresAt(s, z, t)         == ToFire[<<s, z, t>>]
Between(s, z, from, to)  == Expressions!BetweenOf(Settings[s], z, from, to)
Recent(s, z, at, since)  == Expressions!LastBefore(Settings[s], z, at, since)
=============================================================================
