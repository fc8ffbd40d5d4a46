------------------------------- MODULE Renewal --------------------------------
(***************************************************************************)
(* The lock of one delivery of the table broker against the clock: taken   *)
(* for one visibility window, extended every half window while the run     *)
(* goes on, then answered (plugin-storage-postgres/src: renewal.ts, with   *)
(* takeDue, extend and the answers of queue-table.ts).                     *)
(*                                                                         *)
(* Times are the database's.  `Latency` bounds each leg between process and*)
(* database, a late timer included, as long as nothing fails.              *)
(***************************************************************************)
EXTENDS Naturals

CONSTANTS
    Window,         \* visibilityMs
    Latency,
    MaxFailures,    \* bound: extensions that fail in one behaviour
    Horizon         \* bound: the last moment looked at

ASSUME WindowAssumption  == Window \in Nat /\ Window > 1
ASSUME LatencyAssumption == Latency \in Nat
ASSUME BoundsAssumption  == MaxFailures \in Nat /\ Horizon \in Nat

(* A database near enough that a beat reaches it before the lock lapses.   *)
ASSUME HealthyAssumption == Window \div 2 + 2 * Latency < Window

VARIABLES
    now,
    owner,          \* whose the row is: "mine", "theirs" (taken since), "free" (answered)
    until,          \* locked_until
    stage,          \* the delivery: "taken" (the reply is on its way), "running",
                    \* "stopping" (the renewal is), "settling" (the answer is sent), "over"
    beat,           \* the moment the renewal's timer fires, if `timer` is armed
    timer,          \* the renewal's: "armed" or "off"
    extending,      \* the extension under way: "none", "sent", "kept", "lost" or "failed"
    since,          \* when the message under way was sent
    failures        \* (bounded)

vars == <<now, owner, until, stage, beat, timer, extending, since, failures>>

TypeOK ==
    /\ now \in Nat
    /\ owner \in {"mine", "theirs", "free"}
    /\ until \in Nat
    /\ stage \in {"taken", "running", "stopping", "settling", "over"}
    /\ beat \in Nat
    /\ timer \in {"armed", "off"}
    /\ extending \in {"none", "sent", "kept", "lost", "failed"}
    /\ since \in Nat
    /\ failures \in 0 .. MaxFailures

-----------------------------------------------------------------------------
(* The row was just taken and its lock committed.                          *)
Init ==
    /\ now = 0
    /\ owner = "mine"
    /\ until = Window
    /\ stage = "taken"
    /\ beat = 0
    /\ timer = "off"
    /\ extending = "none"
    /\ since = 0
    /\ failures = 0

OnItsWay == stage \in {"taken", "settling"} \/ extending \in {"sent", "kept", "lost", "failed"}

(* A moment passes: unless something must happen first.                    *)
Tick ==
    /\ now < Horizon
    /\ OnItsWay => now < since + Latency
    /\ timer = "armed" => now < beat
    /\ ~(stage = "stopping" /\ extending = "none")
    /\ now' = now + 1
    /\ UNCHANGED <<owner, until, stage, beat, timer, extending, since, failures>>

(* mutant: the beat is the window                                          *)
WholeWindow == Window

HalfWindow == Window \div 2

Arm == timer' = "armed" /\ beat' = now + HalfWindow

(* The reply of takeDue: the handle runs, and the renewal is made.         *)
HandOut ==
    /\ stage = "taken"
    /\ stage' = "running"
    /\ Arm
    /\ UNCHANGED <<now, owner, until, extending, since, failures>>

Beat ==
    /\ timer = "armed"
    /\ now >= beat
    /\ timer' = "off"
    /\ extending' = "sent"
    /\ since' = now
    /\ UNCHANGED <<now, owner, until, stage, beat, failures>>

(* The statement runs.  A row no longer this delivery's matches nothing.   *)
Extend ==
    /\ extending = "sent"
    /\ \/ owner = "mine" /\ extending' = "kept" /\ until' = now + Window
       \/ owner # "mine" /\ extending' = "lost" /\ UNCHANGED until
    /\ since' = now
    /\ UNCHANGED <<now, owner, stage, beat, timer, failures>>

(* It does not, or the process never hears that it did.                    *)
ExtendFails ==
    /\ extending \in {"sent", "kept"}
    /\ failures < MaxFailures
    /\ failures' = failures + 1
    /\ extending' = "failed"
    /\ UNCHANGED <<now, owner, until, stage, beat, timer, since>>

(* The next beat, where the row is still ours or nobody knows.             *)
BeatsAgain == extending \in {"kept", "failed"} /\ stage = "running"

Heard ==
    /\ extending \in {"kept", "lost", "failed"}
    /\ extending' = "none"
    /\ \/ BeatsAgain /\ Arm
       \/ ~BeatsAgain /\ UNCHANGED <<timer, beat>>
    /\ UNCHANGED <<now, owner, until, stage, since, failures>>

(* The handle answers: the renewal is stopped, its timer cleared.          *)
Answer ==
    /\ stage = "running"
    /\ stage' = "stopping"
    /\ timer' = "off"
    /\ UNCHANGED <<now, owner, until, beat, extending, since, failures>>

Stopped == stage = "stopping" /\ extending = "none"

Send ==
    /\ Stopped
    /\ stage' = "settling"
    /\ since' = now
    /\ UNCHANGED <<now, owner, until, beat, timer, extending, failures>>

Settle ==
    /\ stage = "settling"
    /\ stage' = "over"
    /\ owner' = IF owner = "mine" THEN "free" ELSE owner
    /\ UNCHANGED <<now, until, beat, timer, extending, since, failures>>

(* Another worker's look, once the lock has lapsed.                        *)
TakenSince ==
    /\ owner = "mine"
    /\ until <= now
    /\ owner' = "theirs"
    /\ UNCHANGED <<now, until, stage, beat, timer, extending, since, failures>>

Done == now = Horizon /\ UNCHANGED vars

Step == HandOut \/ Beat \/ Extend \/ ExtendFails \/ Heard \/ Answer \/ Send \/ Settle \/ TakenSince
Next == Tick \/ Step \/ Done

Spec == Init /\ [][Next]_vars

-----------------------------------------------------------------------------
(* A healthy run, however many windows long, is never handed to a second   *)
(* worker: until it is answered its lock has not lapsed, unless an         *)
(* extension failed (consumer.ts:13-15, renewal.ts:1-5).                   *)
HealthyHoldsItsLock == failures = 0 /\ stage # "over" => owner = "mine" /\ now < until

(* No extension lands after the answer it would undo (renewal.ts:34).     *)
NoneLandsLate == stage \in {"settling", "over"} => extending = "none" /\ timer = "off"

(* While the run goes on and the row is its own, the next extension is     *)
(* always on its way or its timer armed, whatever failed before.           *)
BeatsWhileMine == stage = "running" /\ owner = "mine" => timer = "armed" \/ extending # "none"
=============================================================================
