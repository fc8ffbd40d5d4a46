------------------------------ MODULE TableQueue ------------------------------
(***************************************************************************)
(* One queue of the table broker: rows of wilanis_queue                    *)
(* (plugin-storage-postgres/src/queue-table.ts) and the consumers that work*)
(* it from several processes (consumer.ts, renewal.ts).                    *)
(*                                                                         *)
(* A statement is one step and its reply another, so a stop, a crash or a  *)
(* lapsed lock may come between.  Time is a fact about a row -- it fell    *)
(* due, its lock lapsed -- not a number; Renewal has the clock.            *)
(***************************************************************************)
EXTENDS Integers, FiniteSets

CONSTANTS
    Message,
    Consumer,       \* one `consume` each, in a process of its own
    Concurrency,
    MaxAttempts,    \* the queue trigger's: a `retry` of the last one is `dead`
    MaxFaults       \* bound: how often the world misbehaves in one behaviour

(* The options are numbers, and a table has so many rows.                  *)
ASSUME SizesAssumption == Concurrency \in Nat /\ MaxFaults \in Nat /\ IsFiniteSet(Message)

VARIABLES
    \* the row of each message
    kept,           \* "unpublished", "kept", "gone" (deleted) or "dead" (dead_at)
    attempts,
    due,            \* available_at <= now()
    lock,           \* locked_until: "free" (null), "held", or "lapsed" (in the past)
    \* each consumer
    phase,          \* "starting", "on", "stopping", "off", or "failed": its start was refused
    look,           \* the look under way: [at, room, taken, more]
    again,          \* something woke it while it was looking
    timer,          \* its one timer is armed
    session,        \* its listening session: "quiet", "told" (a wake is due to it) or "down"
    out,            \* inFlight: deliveries [of, attempt, at], at "running" or the answer on its way
    \* observed only
    handed,         \* the deliveries ever handed out: <<message, attempt>>
    faults

rows == <<kept, attempts, due, lock>>
vars == <<rows, phase, look, again, timer, session, out, handed, faults>>

Take     == [of : Message, attempt : Nat]
Outcomes == {"ack", "retry", "dead"}
Idle     == [at |-> "idle", room |-> 0, taken |-> {}, more |-> FALSE]

(* What each variable holds.                                               *)
TypeOK ==
    /\ kept \in [Message -> {"unpublished", "kept", "gone", "dead"}]
    /\ attempts \in [Message -> Nat]
    /\ due \in [Message -> BOOLEAN]
    /\ lock \in [Message -> {"free", "held", "lapsed"}]
    /\ phase \in [Consumer -> {"starting", "on", "stopping", "off", "failed"}]
    /\ look \in [Consumer -> [at : {"idle", "asked", "answered"}, room : 0 .. Concurrency,
                              taken : SUBSET Take, more : BOOLEAN]]
    /\ again \in [Consumer -> BOOLEAN]
    /\ timer \in [Consumer -> BOOLEAN]
    /\ session \in [Consumer -> {"quiet", "told", "down"}]
    /\ out \in [Consumer -> SUBSET [of : Message, attempt : Nat, at : {"running"} \cup Outcomes]]
    /\ handed \in SUBSET (Message \X Nat)
    /\ faults \in 0 .. MaxFaults

-----------------------------------------------------------------------------
Asked(room) == [at |-> "asked", room |-> room, taken |-> {}, more |-> FALSE]

(* A consumer listens, then looks once before its start answers.           *)
Init ==
    /\ kept = [m \in Message |-> "unpublished"]
    /\ attempts = [m \in Message |-> 0]
    /\ due = [m \in Message |-> FALSE]
    /\ lock = [m \in Message |-> "free"]
    /\ phase = [c \in Consumer |-> "starting"]
    /\ look = [c \in Consumer |-> Asked(Concurrency)]
    /\ again = [c \in Consumer |-> FALSE]
    /\ timer = [c \in Consumer |-> FALSE]
    /\ session = [c \in Consumer |-> "quiet"]
    /\ out = [c \in Consumer |-> {}]
    /\ handed = {}
    /\ faults = 0

Consuming(c) == phase[c] \in {"starting", "on"}

(* pg_notify reaches every session that is up.                             *)
Notify == session' = [c \in Consumer |-> IF Consuming(c) /\ session[c] = "quiet"
                                         THEN "told" ELSE session[c]]

(* mutant: off by one                                                      *)
RoomOneMore(busy) == Concurrency - busy + 1

Room(busy) == Concurrency - busy

(* A look begins: nothing where every slot is busy, not even a timer.      *)
Begin(c, busy) ==
    /\ look' = [look EXCEPT ![c] = IF busy < Concurrency THEN Asked(Room(busy)) ELSE Idle]
    /\ again' = [again EXCEPT ![c] = FALSE]
    /\ timer' = [timer EXCEPT ![c] = FALSE]

(* mutant: what wakes a consumer while it is looking is dropped            *)
WakeUnlessLooking(c, busy) ==
    \/ (~Consuming(c) \/ look[c].at # "idle") /\ UNCHANGED <<look, again, timer>>
    \/ Consuming(c) /\ look[c].at = "idle" /\ Begin(c, busy)

Wake(c, busy) ==
    \/ ~Consuming(c) /\ UNCHANGED <<look, again, timer>>
    \/ /\ Consuming(c) /\ look[c].at # "idle"
       /\ again' = [again EXCEPT ![c] = TRUE]
       /\ UNCHANGED <<look, timer>>
    \/ Consuming(c) /\ look[c].at = "idle" /\ Begin(c, busy)

Busy(c) == Cardinality(out[c])

(* One more thing the world does that it need not.                         *)
Fault == faults < MaxFaults /\ faults' = faults + 1

-----------------------------------------------------------------------------
(* Publishing, and time.                                                   *)

Publish(m) ==
    /\ kept[m] = "unpublished"
    /\ kept' = [kept EXCEPT ![m] = "kept"]
    /\ \E now \in BOOLEAN : due' = [due EXCEPT ![m] = now]
    /\ Notify
    /\ UNCHANGED <<attempts, lock, phase, look, again, timer, out, handed, faults>>

FallsDue(m) ==
    /\ kept[m] = "kept"
    /\ ~due[m]
    /\ due' = [due EXCEPT ![m] = TRUE]
    /\ UNCHANGED <<kept, attempts, lock, phase, look, again, timer, session, out, handed, faults>>

Delivered(d) == [of |-> d.of, attempt |-> d.attempt]
Running(c) == {Delivered(d) : d \in out[c]}
TakenBy(c) == look[c].taken \cup Running(c)

(* The lock's window passes.  It need not while somebody has the delivery: *)
(* its renewal keeps the lock (Renewal), unless the process stalls.        *)
Lapse(m) ==
    /\ lock[m] = "held"
    /\ lock' = [lock EXCEPT ![m] = "lapsed"]
    /\ IF \E c \in Consumer : [of |-> m, attempt |-> attempts[m]] \in TakenBy(c)
       THEN Fault ELSE UNCHANGED faults
    /\ UNCHANGED <<kept, attempts, due, phase, look, again, timer, session, out, handed>>

-----------------------------------------------------------------------------
(* The one listening session, the one timer.                               *)

Told(c) ==
    /\ session[c] = "told"
    /\ Consuming(c)
    /\ session' = [session EXCEPT ![c] = "quiet"]
    /\ Wake(c, Busy(c))
    /\ UNCHANGED <<rows, phase, out, handed, faults>>

(* What is notified while the session is down is not heard.                *)
SessionLost(c) ==
    /\ Consuming(c)
    /\ session[c] # "down"
    /\ Fault
    /\ session' = [session EXCEPT ![c] = "down"]
    /\ UNCHANGED <<rows, phase, look, again, timer, out, handed>>

Reopen(c) ==
    /\ Consuming(c)
    /\ session[c] = "down"
    /\ session' = [session EXCEPT ![c] = "told"]
    /\ UNCHANGED <<rows, phase, look, again, timer, out, handed, faults>>

TimerFires(c) ==
    /\ timer[c]
    /\ \/ Consuming(c) /\ Wake(c, Busy(c))
       \/ ~Consuming(c) /\ timer' = [timer EXCEPT ![c] = FALSE] /\ UNCHANGED <<look, again>>
    /\ UNCHANGED <<rows, phase, session, out, handed, faults>>

-----------------------------------------------------------------------------
(* A look: takeDue, and what the consumer does with its reply.             *)

(* mutant: a lock is no hindrance                                          *)
FreeIgnoringLocks == {m \in Message : kept[m] = "kept" /\ due[m]}

(* mutant: a parked message is due like any other                          *)
FreeEvenParked == {m \in Message : kept[m] \in {"kept", "dead"} /\ due[m] /\ lock[m] # "held"}

(* Due, and nobody's: never locked, or locked until a moment that passed.  *)
Free == {m \in Message : kept[m] = "kept" /\ due[m] /\ lock[m] # "held"}

Min2(a, b) == IF a < b THEN a ELSE b

(* lockDue and nextDue in one transaction.  `more`: some row not taken here*)
(* waits, so the reply says how long until the next could be handed out.   *)
TakeDue(c) ==
    /\ look[c].at = "asked"
    /\ \E ms \in SUBSET Free :
        /\ Cardinality(ms) = Min2(look[c].room, Cardinality(Free))
        /\ attempts' = [m \in Message |-> IF m \in ms THEN attempts[m] + 1 ELSE attempts[m]]
        /\ lock' = [m \in Message |-> IF m \in ms THEN "held" ELSE lock[m]]
        /\ look' = [look EXCEPT ![c] =
            [at |-> "answered", room |-> look[c].room,
             taken |-> {[of |-> m, attempt |-> attempts[m] + 1] : m \in ms},
             more |-> \E m \in Message \ ms : kept[m] = "kept"]]
    /\ UNCHANGED <<kept, due, phase, again, timer, session, out, handed, faults>>

(* What follows a look that is over, `busy` slots in use: another, where   *)
(* something woke the consumer meanwhile.                                  *)
LookOver(c, busy, arms) ==
    IF again[c] /\ Consuming(c)
    THEN Begin(c, busy)
    ELSE /\ look' = [look EXCEPT ![c] = Idle]
         /\ timer' = [timer EXCEPT ![c] = arms]
         /\ UNCHANGED again

Started(c) == IF phase[c] = "starting" /\ look'[c].at = "idle" THEN "on" ELSE phase[c]

(* A timer for what waits, while a slot is free.                           *)
Sleeps(c) == look[c].more /\ Cardinality(look[c].taken) < look[c].room

(* The reply: every message taken is handed to the handle.                 *)
HandOut(c) ==
    /\ look[c].at = "answered"
    /\ Consuming(c)
    /\ LET taken == look[c].taken
           now   == {[of |-> t.of, attempt |-> t.attempt, at |-> "running"] : t \in taken}
       IN  /\ out' = [out EXCEPT ![c] = @ \cup now]
           /\ handed' = handed \cup {<<t.of, t.attempt>> : t \in taken}
           /\ LookOver(c, Busy(c) + Cardinality(taken), Sleeps(c))
    /\ phase' = [phase EXCEPT ![c] = Started(c)]
    /\ UNCHANGED <<rows, session, faults>>

Mine(t) == attempts[t.of] = t.attempt

(* mutant: the attempt a message was taken as is not compared              *)
AnyonesRow(t) == kept[t.of] \in {"kept", "dead"}

(* The row a statement about one delivery matches: `id` and `attempts`.    *)
RowOf(t) == kept[t.of] \in {"kept", "dead"} /\ Mine(t)

(* The reply came as a stop began: each message is given back as if it had *)
(* never been taken.  A statement that fails leaves it to its lock, and is *)
(* the end of the look, as of one that failed: the others are then waited  *)
(* for by nobody.                                                          *)
Untake(c, t) ==
    /\ phase[c] \in {"stopping", "off"}
    /\ t \in look[c].taken
    /\ \/ /\ look' = [look EXCEPT ![c].taken = @ \ {t}]
          /\ \/ /\ RowOf(t)
                /\ attempts' = [attempts EXCEPT ![t.of] = @ - 1]
                /\ lock' = [lock EXCEPT ![t.of] = "free"]
             \/ ~RowOf(t) /\ UNCHANGED <<attempts, lock>>
          /\ UNCHANGED <<timer, faults>>
       \/ /\ Fault
          /\ look' = [look EXCEPT ![c].at = "idle", ![c].taken = @ \ {t}]
          /\ timer' = [timer EXCEPT ![c] = @ \/ look[c].at = "answered"]
          /\ UNCHANGED <<attempts, lock>>
    /\ UNCHANGED <<kept, due, phase, again, session, out, handed>>

GivenBack(c) ==
    /\ look[c].at = "answered"
    /\ phase[c] = "stopping"
    /\ look[c].taken = {}
    /\ LookOver(c, Busy(c), timer[c])
    /\ UNCHANGED <<rows, phase, session, out, handed, faults>>

(* The look failed, or its reply was lost after the rows were locked: the  *)
(* consumer looks again after a pause, but a start fails.                  *)
LookFails(c) ==
    /\ look[c].at # "idle"
    /\ phase[c] # "stopping" \/ look[c].at = "asked"
    /\ Fault
    /\ look' = [look EXCEPT ![c] = Idle]
    /\ timer' = [timer EXCEPT ![c] = phase[c] # "starting"]
    /\ phase' = [phase EXCEPT ![c] = IF @ = "starting" THEN "failed" ELSE @]
    /\ UNCHANGED <<rows, again, session, out, handed>>

-----------------------------------------------------------------------------
(* A delivery: the renewal of its lock, its answer, what the answer says.  *)

(* mutant: an extension relocks a row that is not locked                   *)
ExtendsAny(t) == Mine(t) /\ kept[t.of] = "kept"

Extends(t) == Mine(t) /\ kept[t.of] = "kept" /\ lock[t.of] # "free"

(* A beat of a running delivery's renewal.  Where it finds the row no      *)
(* longer its own it stops, and no later beat would match either.          *)
Extend(c, d) ==
    /\ d \in out[c]
    /\ d.at = "running"
    /\ Extends(d)
    /\ lock[d.of] # "held"
    /\ lock' = [lock EXCEPT ![d.of] = "held"]
    /\ UNCHANGED <<kept, attempts, due, phase, look, again, timer, session, out, handed, faults>>

(* A retry of the last attempt allowed is dead (outcome.ts, attempted).    *)
Attempted(d, answer) == IF answer = "retry" /\ d.attempt >= MaxAttempts THEN "dead" ELSE answer

(* The handle answers -- its own failure is a retry, whatever the attempt, *)
(* here a fault -- and the renewal is stopped.                             *)
Answer(c, d) ==
    /\ d \in out[c]
    /\ d.at = "running"
    /\ \/ /\ \E answer \in Outcomes :
              out' = [out EXCEPT ![c] = (@ \ {d}) \cup {[d EXCEPT !.at = Attempted(d, answer)]}]
          /\ UNCHANGED faults
       \/ Fault /\ out' = [out EXCEPT ![c] = (@ \ {d}) \cup {[d EXCEPT !.at = "retry"]}]
    /\ UNCHANGED <<rows, phase, look, again, timer, session, handed>>

(* The answer reaches the row, if it is still this delivery's.             *)
Kept(d) ==
    \/ ~RowOf(d) /\ UNCHANGED <<rows, session>>
    \/ /\ RowOf(d) /\ d.at = "ack"                           \* forget
       /\ kept' = [kept EXCEPT ![d.of] = "gone"]
       /\ lock' = [lock EXCEPT ![d.of] = "free"]
       /\ UNCHANGED <<attempts, due, session>>
    \/ /\ RowOf(d) /\ d.at = "dead"                          \* park
       /\ kept' = [kept EXCEPT ![d.of] = "dead"]
       /\ lock' = [lock EXCEPT ![d.of] = "free"]
       /\ UNCHANGED <<attempts, due, session>>
    \/ /\ RowOf(d) /\ d.at = "retry"                         \* release
       /\ \E now \in BOOLEAN : due' = [due EXCEPT ![d.of] = now]
       /\ lock' = [lock EXCEPT ![d.of] = "free"]
       /\ Notify
       /\ UNCHANGED <<kept, attempts>>

(* Its slot is free once the statement has answered or failed; one that    *)
(* failed is left to the lock.                                             *)
Settle(c, d) ==
    /\ d \in out[c]
    /\ d.at \in Outcomes
    /\ \/ Kept(d) /\ UNCHANGED faults
       \/ Fault /\ UNCHANGED <<rows, session>>
    /\ out' = [out EXCEPT ![c] = @ \ {d}]
    /\ Wake(c, Busy(c) - 1)
    /\ UNCHANGED <<phase, handed>>

-----------------------------------------------------------------------------
(* Stopping, and dying.                                                    *)

Stop(c) ==
    /\ phase[c] = "on"
    /\ phase' = [phase EXCEPT ![c] = "stopping"]
    /\ timer' = [timer EXCEPT ![c] = FALSE]
    /\ session' = [session EXCEPT ![c] = "quiet"]
    /\ UNCHANGED <<rows, look, again, out, handed, faults>>

(* mutant: a stop waits for the deliveries, and not for the look           *)
DrainedOut(c) == out[c] = {}

Drained(c) == look[c].at = "idle" /\ out[c] = {}

Stopped(c) ==
    /\ phase[c] = "stopping"
    /\ Drained(c)
    /\ phase' = [phase EXCEPT ![c] = "off"]
    /\ UNCHANGED <<rows, look, again, timer, session, out, handed, faults>>

Crash(c) ==
    /\ phase[c] # "off"
    /\ Fault
    /\ phase' = [phase EXCEPT ![c] = "off"]
    /\ look' = [look EXCEPT ![c] = Idle]
    /\ again' = [again EXCEPT ![c] = FALSE]
    /\ timer' = [timer EXCEPT ![c] = FALSE]
    /\ session' = [session EXCEPT ![c] = "quiet"]
    /\ out' = [out EXCEPT ![c] = {}]
    /\ UNCHANGED <<rows, handed>>

-----------------------------------------------------------------------------
Time(m)   == FallsDue(m) \/ Lapse(m)
Listen(c) == Told(c) \/ Reopen(c) \/ TimerFires(c)
Look(c)   == TakeDue(c) \/ HandOut(c) \/ GivenBack(c) \/ \E t \in look[c].taken : Untake(c, t)
Deliver(c) == \E d \in out[c] : Answer(c, d) \/ Settle(c, d)

Quiet == (\A c \in Consumer : ~Consuming(c)) /\ UNCHANGED vars

Next ==
    \/ Quiet
    \/ \E m \in Message : Publish(m) \/ Time(m)
    \/ \E c \in Consumer :
        \/ Listen(c) \/ Look(c) \/ Deliver(c)
        \/ SessionLost(c) \/ LookFails(c)
        \/ Stop(c) \/ Stopped(c) \/ Crash(c)
        \/ \E d \in out[c] : Extend(c, d)

(* Time passes, a timer fires, a statement answers, a promise callback     *)
(* runs, a lost session is opened again, and a handle answers.             *)
Fairness ==
    /\ \A m \in Message : WF_vars(FallsDue(m)) /\ WF_vars(Lapse(m))
    /\ \A c \in Consumer :
        /\ WF_vars(Told(c)) /\ WF_vars(Reopen(c)) /\ WF_vars(TimerFires(c))
        /\ WF_vars(Look(c)) /\ WF_vars(Deliver(c))

Spec == Init /\ [][Next]_vars /\ Fairness

-----------------------------------------------------------------------------
(* However locks lapse and takes are given back, no two takes of a message *)
(* that are still about are the same attempt, and none is ahead of the row:*)
(* at most one of them can match it.                                       *)
NoSharedAttempt ==
    /\ \A c \in Consumer : \A t \in TakenBy(c) : t.attempt <= attempts[t.of]
    /\ \A c1, c2 \in Consumer : c1 # c2 => TakenBy(c1) \cap TakenBy(c2) = {}
    /\ \A c \in Consumer : look[c].taken \cap Running(c) = {}
    /\ \A c \in Consumer : \A d, e \in out[c] : Delivered(d) = Delivered(e) => d = e

(* Never more at once than `concurrency`, the messages a look has taken and*)
(* not yet handed out included.                                            *)
BoundedInFlight == \A c \in Consumer : Busy(c) + Cardinality(look[c].taken) <= Concurrency

(* Two deliveries of a message are under way at once only because something*)
(* failed or stalled: a retry, a stop or a wake never brings it about.     *)
OnceUnlessFaulty ==
    faults = 0 => \A m \in Message :
        Cardinality({t \in UNION {TakenBy(c) : c \in Consumer} : t.of = m}) <= 1

(* Once a stop has begun nothing is handed out, also where a look that was *)
(* under way comes back with messages; one that has answered left nothing  *)
(* behind, neither a delivery nor a look nor, unless something failed, a   *)
(* message that it took and did not give back (consumer.ts:74).            *)
DrainsOnly == \A c \in Consumer :
    /\ phase[c] = "stopping" => \A d \in out'[c] : Delivered(d) \in Running(c)
    /\ phase'[c] = "off" => /\ out'[c] = {} /\ look'[c].at = "idle"
                            /\ faults' = 0 => look'[c].taken = {}

StopDrains == [][DrainsOnly]_vars

(* A row somebody let go of is locked again only by being taken anew: a    *)
(* late extension never relocks it (queue-table.ts:166-168).               *)
LocksByTaking == \A m \in Message :
    lock[m] = "free" /\ lock'[m] # "free" => attempts'[m] = attempts[m] + 1

NeverRelocked == [][LocksByTaking]_vars

(* What is in flight, as @queue's Broker has it; and the broker keeps what *)
(* the Broker promises (brokers.ts): at least once, each delivery an       *)
(* attempt of its own, no answer counting but the latest one's.            *)
Deliveries == UNION {{<<d.of, d.attempt>> : d \in out[c]} : c \in Consumer}

Abstract == INSTANCE Delivery WITH running <- Deliveries

ImplementsDelivery == Abstract!Spec
=============================================================================
