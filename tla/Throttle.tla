------------------------------- MODULE Throttle --------------------------------
(***************************************************************************)
(* The gate in front of one connection of plugin-http (throttle.ts): at    *)
(* most `concurrency` requests in flight, at most `perSecond` started in   *)
(* any one second, the rest waiting for a slot or asleep until the rate    *)
(* lets one more go.                                                       *)
(*                                                                         *)
(* Times are kept as how long ago a request started and how long one still *)
(* sleeps, in moments of which a second has Second; a request starts once, *)
(* so the list of start times is the set of the requests that started.     *)
(***************************************************************************)
EXTENDS Naturals, Sequences, FiniteSets

CONSTANTS
    Request,
    InFlightMax,    \* the connection's `concurrency`
    PerSecond,      \* its `perSecond`, 0 where it has none
    Second

ASSUME LimitsAssumption == InFlightMax \in Nat \ {0} /\ PerSecond \in Nat
ASSUME SecondAssumption == Second \in Nat \ {0}
ASSUME RequestAssumption == IsFiniteSet(Request)

VARIABLES
    request,    \* each: "new", "queued" (for a slot), "woken", "asleep", "flying" or "done"
    inFlight,   \* the gate's count
    queue,      \* those queued, in order
    started,    \* the requests whose start it remembers
    sleep,      \* how long each of those asleep still sleeps
    ago         \* how long ago each started, Second where not in the last one

throttleVars == <<request, inFlight, queue, started, sleep, ago>>

Flying == {r \in Request : request[r] = "flying"}

ThrottleInit ==
    /\ request = [r \in Request |-> "new"]
    /\ inFlight = 0 /\ queue = <<>> /\ started = {}
    /\ sleep = [r \in Request |-> 0]
    /\ ago = [r \in Request |-> Second]

-----------------------------------------------------------------------------
(* A mutant: a start stops counting a moment early.                        *)
RecentUntil(age) == age + 1 < Second

(* The starts that still count; a limit of starts reached means waiting    *)
(* for the oldest of them to be a second ago.                              *)
Recent(age) == age < Second
Remembered  == {r \in started : PerSecond = 0 \/ Recent(ago[r])}
Full        == inFlight >= InFlightMax
TooMany     == PerSecond # 0 /\ Cardinality(Remembered) >= PerSecond

Oldest(r) == \A q \in Remembered : ago[q] <= ago[r]

(* One turn of the loop: queue for a slot, sleep, or go.                   *)
Try(r) ==
    \/ /\ Full
       /\ request' = [request EXCEPT ![r] = "queued"]
       /\ queue' = Append(queue, r)
       /\ UNCHANGED <<inFlight, started, sleep, ago>>
    \/ /\ ~Full /\ TooMany
       /\ request' = [request EXCEPT ![r] = "asleep"]
       /\ \E q \in Remembered : Oldest(q) /\ sleep' = [sleep EXCEPT ![r] = Second - ago[q]]
       /\ started' = Remembered
       /\ UNCHANGED <<inFlight, queue, ago>>
    \/ /\ ~Full /\ ~TooMany
       /\ request' = [request EXCEPT ![r] = "flying"]
       /\ inFlight' = inFlight + 1
       /\ started' = Remembered \cup {r}
       /\ ago' = [ago EXCEPT ![r] = 0]
       /\ UNCHANGED <<queue, sleep>>

Arrive(r) == request[r] = "new" /\ Try(r)
GoOn(r)   == request[r] = "woken" /\ Try(r)
Alarm(r)  == request[r] = "asleep" /\ sleep[r] = 0 /\ Try(r)

(* Mutants: a slot freed wakes nobody while another request flies, or ever.*)
WakesOnceEmpty == queue # <<>> /\ inFlight = 1
WakesNever == FALSE

(* A request is answered or fails: its slot is free, and the first queued  *)
(* looks again.                                                            *)
Wakes == queue # <<>>

Finish(r) ==
    /\ request[r] = "flying"
    /\ inFlight' = inFlight - 1
    /\ IF Wakes
       THEN /\ request' = [request EXCEPT ![r] = "done", ![Head(queue)] = "woken"]
            /\ queue' = Tail(queue)
       ELSE /\ request' = [request EXCEPT ![r] = "done"]
            /\ UNCHANGED queue
    /\ UNCHANGED <<started, sleep, ago>>

(* Time passes once whoever was woken has looked.  An alarm may be late.   *)
Older(age) == IF age < Second THEN age + 1 ELSE age

Moment ==
    /\ \A r \in Request : request[r] # "woken"
    /\ sleep' = [r \in Request |-> IF sleep[r] = 0 THEN 0 ELSE sleep[r] - 1]
    /\ ago' = [r \in Request |-> Older(ago[r])]
    /\ UNCHANGED <<request, inFlight, queue, started>>

ThrottleNext ==
    \/ Moment
    \/ \E r \in Request : Arrive(r) \/ GoOn(r) \/ Alarm(r) \/ Finish(r)

(* Time passes, requests are answered, and whoever is woken or whose alarm *)
(* is due looks.                                                           *)
ThrottleSpec ==
    /\ ThrottleInit /\ [][ThrottleNext]_throttleVars
    /\ WF_throttleVars(Moment)
    /\ \A r \in Request : WF_throttleVars(GoOn(r)) /\ WF_throttleVars(Alarm(r)) /\ WF_throttleVars(Finish(r))

-----------------------------------------------------------------------------
(* At most `concurrency` requests are in flight at once (throttle.ts:2).   *)
AtMostInFlight == Cardinality(Flying) <= InFlightMax

(* At most `perSecond` start in any one second (throttle.ts:3).            *)
AtMostPerSecond == PerSecond # 0 => Cardinality({r \in Request : ago[r] < Second}) <= PerSecond

(* No slot is left idle while one waits for it: who was handed a slot and  *)
(* had to sleep, or was overtaken, has not lost it to nobody.              *)
About == {r \in Request : request[r] \in {"flying", "woken", "asleep"}}

NoSlotIdles == queue # <<>> => Cardinality(About) >= InFlightMax

(* Nothing is dropped: every request is let through in the end.            *)
NothingDropped == \A r \in Request : request[r] # "new" ~> request[r] = "done"
=============================================================================
