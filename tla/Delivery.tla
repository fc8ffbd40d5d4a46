------------------------------- MODULE Delivery -------------------------------
(***************************************************************************)
(* What a queue promises the worker of @queue (plugin-queue's `Broker`,    *)
(* brokers.ts): at least once, each time as an attempt of its own, and no  *)
(* answer counts but that of the highest attempt handed out.  TableQueue   *)
(* and MemoryQueue implement it.                                           *)
(***************************************************************************)
EXTENDS Naturals

CONSTANTS Message

VARIABLES
    kept,       \* each message: "unpublished", "kept", "gone" (acknowledged) or "dead" (parked)
    handed,     \* the deliveries ever handed out: <<message, attempt>>
    running     \* those not answered yet

vars == <<kept, handed, running>>

Init ==
    /\ kept = [m \in Message |-> "unpublished"]
    /\ handed = {}
    /\ running = {}

(* Any step may hand some out.  One that was on its way to a worker when   *)
(* the message was answered arrives all the same; none arrives twice.      *)
HandsOut(left) ==
    LET new == handed' \ handed
    IN  /\ handed \subseteq handed'
        /\ new \subseteq Message \X Nat
        /\ \A d \in new : kept'[d[1]] # "unpublished"
        /\ running' = left \cup new

Publish(m) ==
    /\ kept[m] = "unpublished"
    /\ kept' = [kept EXCEPT ![m] = "kept"]
    /\ HandsOut(running)

HandOut == UNCHANGED kept /\ HandsOut(running)

Latest(d) == \A e \in handed : e[1] = d[1] => e[2] <= d[2]

(* The answer of the latest delivery says what becomes of the message --   *)
(* kept, it is to be handed out again -- unless it is lost on the way.  Any*)
(* other answer changes nothing.                                           *)
Answer(d) ==
    /\ d \in running
    /\ HandsOut(running \ {d})
    /\ \/ UNCHANGED kept
       \/ /\ Latest(d)
          /\ kept[d[1]] = "kept"
          /\ \E outcome \in {"gone", "dead"} : kept' = [kept EXCEPT ![d[1]] = outcome]

(* A worker died: its deliveries are never answered.                       *)
Die ==
    /\ running' \subseteq running
    /\ UNCHANGED <<kept, handed>>

Next ==
    \/ \E m \in Message : Publish(m)
    \/ HandOut
    \/ \E d \in running : Answer(d)
    \/ Die

Spec == Init /\ [][Next]_vars
=============================================================================
