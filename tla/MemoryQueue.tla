----------------------------- MODULE MemoryQueue ------------------------------
(***************************************************************************)
(* One queue of the memory broker and the consumer that works it:          *)
(* packages/plugin-queue-memory/src (queue.ts, consumer.ts, broker.ts).    *)
(*                                                                         *)
(* All of it is one process: an action is what runs between two turns of   *)
(* the event loop, and a `put` pumps the consumer before it returns.       *)
(***************************************************************************)
EXTENDS Integers, Sequences, FiniteSets

CONSTANTS
    Message,
    Concurrency,
    MaxAttempts,    \* the queue trigger's: a `retry` of the last one is `dead`
    MaxFaults       \* bound: acknowledgements dropped and handles that throw

VARIABLES
    kept,           \* each message: "unpublished", "kept", "gone" or "dead"
    waiting,        \* the waiting list, oldest first
    attempt,        \* the attempt each message has, waiting or in flight
    due,            \* availableAt <= now
    phase,          \* the consumer: "none", "on", "stopping" or "off"
    timer,          \* its one timer is armed
    out,            \* inFlight: [of, attempt, at], "running" or "settled" and not yet deleted
    \* observed only
    handed,         \* the deliveries ever handed out: <<message, attempt>>
    faults

vars == <<kept, waiting, attempt, due, phase, timer, out, handed, faults>>

Waiting == {waiting[i] : i \in DOMAIN waiting}

(* What each variable holds.                                               *)
TypeOK ==
    /\ kept \in [Message -> {"unpublished", "kept", "gone", "dead"}]
    /\ waiting \in Seq(Message)
    /\ attempt \in [Message -> Nat]
    /\ due \in [Message -> BOOLEAN]
    /\ phase \in {"none", "on", "stopping", "off"}
    /\ timer \in BOOLEAN
    /\ out \in SUBSET [of : Message, attempt : Nat, at : {"running", "settled"}]
    /\ handed \in SUBSET (Message \X Nat)
    /\ faults \in 0 .. MaxFaults

Init ==
    /\ kept = [m \in Message |-> "unpublished"]
    /\ waiting = <<>>
    /\ attempt = [m \in Message |-> 0]
    /\ due = [m \in Message |-> FALSE]
    /\ phase = "none"
    /\ timer = FALSE
    /\ out = {}
    /\ handed = {}
    /\ faults = 0

-----------------------------------------------------------------------------
Room(busy) == Concurrency - Cardinality(busy)

(* The messages of a list that are due, the first `n` of them.             *)
FirstDue(list, dueNow, n) ==
    {list[i] : i \in {i \in DOMAIN list :
        dueNow[list[i]] /\ Cardinality({j \in 1 .. i : dueNow[list[j]]}) <= n}}

(* The others, in the order they were in.                                  *)
LeftOver(list, taken) ==
    LET left   == {i \in DOMAIN list : list[i] \notin taken}
        Nth(k) == CHOOSE i \in left : Cardinality({j \in left : j <= i}) = k
    IN  [k \in 1 .. Cardinality(left) |-> list[Nth(k)]]

(* The timer is armed for what waits, or else for the idle beat.           *)
Sleeps(list) == TRUE

(* Hand out what is due while there is room, then sleep.                   *)
Pump(list, attempts, dueNow, busy) ==
    LET taken == IF phase' = "on" THEN FirstDue(list, dueNow, Room(busy)) ELSE {}
    IN  /\ waiting' = LeftOver(list, taken)
        /\ out' = busy \cup {[of |-> m, attempt |-> attempts[m], at |-> "running"] : m \in taken}
        /\ handed' = handed \cup {<<m, attempts[m]>> : m \in taken}
        /\ timer' = IF phase' = "on" THEN Sleeps(waiting') ELSE timer

(* A message is put on the list, and the consumer pumped: it is due now, or*)
(* after its delay.                                                        *)
Put(m, n, kind, busy) ==
    /\ kept' = [kept EXCEPT ![m] = kind]
    /\ attempt' = [attempt EXCEPT ![m] = n]
    /\ UNCHANGED phase
    /\ \E now \in BOOLEAN :
        /\ due' = [due EXCEPT ![m] = now]
        /\ Pump(Append(waiting, m), attempt', due', busy)

Publish(m) ==
    /\ kept[m] = "unpublished"
    /\ Put(m, 1, "kept", out)
    /\ UNCHANGED faults

(* Time passes: nobody is woken for it but by the timer.                   *)
FallsDue(m) ==
    /\ m \in Waiting
    /\ ~due[m]
    /\ due' = [due EXCEPT ![m] = TRUE]
    /\ UNCHANGED <<kept, waiting, attempt, phase, timer, out, handed, faults>>

Consume ==
    /\ phase = "none"
    /\ phase' = "on"
    /\ Pump(waiting, attempt, due, out)
    /\ UNCHANGED <<kept, attempt, due, faults>>

TimerFires ==
    /\ timer
    /\ UNCHANGED phase
    /\ Pump(waiting, attempt, due, out)
    /\ UNCHANGED <<kept, attempt, due, faults>>

-----------------------------------------------------------------------------
Fault == faults < MaxFaults /\ faults' = faults + 1

Settled(d) == (out \ {d}) \cup {[d EXCEPT !.at = "settled"]}

Ends(d, kind) ==
    /\ kept' = [kept EXCEPT ![d.of] = kind]
    /\ out' = Settled(d)
    /\ UNCHANGED <<waiting, attempt, due, phase, timer, handed>>

(* mutant: put back as the attempt it was                                  *)
RedeliverAsItWas(d) == Put(d.of, d.attempt, "kept", Settled(d))

(* Put back one attempt higher; its slot is still taken as it is.          *)
Redeliver(d) == Put(d.of, d.attempt + 1, "kept", Settled(d))

(* The handle answers, and the queue does what the answer says.  A retry of*)
(* the last attempt is dead (outcome.ts, attempted).  Two things need not  *)
(* happen: an acknowledgement may be dropped, and the handle may throw.    *)
Answer(d) ==
    /\ d \in out
    /\ d.at = "running"
    /\ \/ Ends(d, "gone") /\ UNCHANGED faults
       \/ Ends(d, "dead") /\ UNCHANGED faults
       \/ d.attempt < MaxAttempts /\ Redeliver(d) /\ UNCHANGED faults
       \/ Fault /\ Redeliver(d)

(* The slot of a delivery that was answered is freed, and pumped into.     *)
Freed(d) ==
    /\ d \in out
    /\ d.at = "settled"
    /\ UNCHANGED phase
    /\ Pump(waiting, attempt, due, out \ {d})
    /\ UNCHANGED <<kept, attempt, due, faults>>

Stop ==
    /\ phase = "on"
    /\ phase' = "stopping"
    /\ timer' = FALSE
    /\ UNCHANGED <<kept, waiting, attempt, due, out, handed, faults>>

Stopped ==
    /\ phase = "stopping"
    /\ out = {}
    /\ phase' = "off"
    /\ UNCHANGED <<kept, waiting, attempt, due, timer, out, handed, faults>>

Quiet == phase = "off" /\ UNCHANGED vars

Deliver == \E d \in out : Answer(d) \/ Freed(d)
Next ==
    \/ Consume \/ TimerFires \/ Deliver \/ Stop \/ Stopped \/ Quiet
    \/ \E m \in Message : Publish(m) \/ FallsDue(m)

(* Time passes, the timer fires, and a handle answers.                     *)
Fairness ==
    /\ \A m \in Message : WF_vars(FallsDue(m))
    /\ WF_vars(TimerFires) /\ WF_vars(Deliver)

Spec == Init /\ [][Next]_vars /\ Fairness

-----------------------------------------------------------------------------
(* A message kept is in one place: once on the waiting list, or in flight  *)
(* and nowhere else (queue.ts:2-4).  Neither lost nor there twice.         *)
InOnePlace ==
    \A m \in Message :
        LET places == Cardinality({i \in DOMAIN waiting : waiting[i] = m})
                      + Cardinality({d \in out : d.of = m /\ d.at = "running"})
        IN  places = IF kept[m] = "kept" THEN 1 ELSE 0

(* What is in flight, as @queue's Broker has it (Delivery); and the broker *)
(* keeps what the Broker promises (brokers.ts).                            *)
Deliveries == {<<d.of, d.attempt>> : d \in {e \in out : e.at = "running"}}

Abstract == INSTANCE Delivery WITH running <- Deliveries

ImplementsDelivery == Abstract!Spec

(* Both: the broker in memory keeps what a Broker promises (brokers.ts) of *)
(* each message, and the message itself in one place (queue.ts:2-4).       *)
MemoryKeepsThePromise == []InOnePlace /\ ImplementsDelivery
=============================================================================
