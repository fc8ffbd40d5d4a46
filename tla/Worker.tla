-------------------------------- MODULE Worker --------------------------------
(***************************************************************************)
(* The `consume` step of a startup list (plugin-queue/src: worker.ts,      *)
(* deliver.ts): the queues of several connections consumed one after the   *)
(* other, one hold per connection, the deliveries that come meanwhile, and *)
(* the stop of a start that failed or of a process that served.            *)
(*                                                                         *)
(* A broker's consumer hands out messages from its start until its stop,   *)
(* and its stop waits for those in flight (Delivery).                      *)
(***************************************************************************)
EXTENDS SequencesExt

CONSTANTS Connections, Queues       \* in the order of the tree; a queue is one connection's

ASSUME OrderAssumption ==
    /\ Connections \in Seq(DOMAIN Queues)
    /\ \A c \in DOMAIN Queues : Queues[c] \in Seq({Queues[c][i] : i \in DOMAIN Queues[c]})

VARIABLES
    start,      \* "starting", "undoing" (a consume failed), "failed", "serving"
    toHold,     \* the connections not held yet, the one being consumed first
    toConsume,  \* the queues of that one still to consume
    consumed,   \* the queues a broker's consumer works
    ended,      \* those told to stop
    flying,     \* the queues with a delivery in flight
    holds,      \* the connections held, in order
    receiving,  \* the queues a trigger of the tree now served receives from
    byeing      \* whether the process stops

workerVars == <<start, toHold, toConsume, consumed, ended, flying, holds, receiving, byeing>>

QueuesOf(cs) == IF cs = <<>> THEN <<>> ELSE Queues[Head(cs)]
InQueues(c)  == {Queues[c][i] : i \in DOMAIN Queues[c]}
AllQueues    == UNION {InQueues(Connections[i]) : i \in DOMAIN Connections}

(* Every broker was found.                                                 *)
WorkerInit ==
    /\ start = "starting"
    /\ toHold = Connections /\ toConsume = QueuesOf(Connections)
    /\ consumed = {} /\ ended = {} /\ flying = {} /\ holds = <<>>
    /\ receiving = AllQueues /\ byeing = FALSE

-----------------------------------------------------------------------------
ConsumeNext ==
    /\ start = "starting" /\ toConsume # <<>>
    /\ consumed' = consumed \cup {Head(toConsume)}
    /\ toConsume' = Tail(toConsume)
    /\ UNCHANGED <<start, toHold, ended, flying, holds, receiving, byeing>>

(* Every queue of the connection is consumed: it is held.                  *)
HoldNext ==
    /\ start = "starting" /\ toHold # <<>> /\ toConsume = <<>>
    /\ holds' = Append(holds, Head(toHold))
    /\ toHold' = Tail(toHold) /\ toConsume' = QueuesOf(Tail(toHold))
    /\ UNCHANGED <<start, consumed, ended, flying, receiving, byeing>>

Serve ==
    /\ start = "starting" /\ toHold = <<>>
    /\ start' = "serving"
    /\ UNCHANGED <<toHold, toConsume, consumed, ended, flying, holds, receiving, byeing>>

(* A mutant: what the connection already consumed is left consuming.       *)
UndoesNone == {}

(* A consume fails: nothing holds what this connection consumed so far.    *)
Undoes == InQueues(Head(toHold)) \cap consumed

ConsumeFails ==
    /\ start = "starting" /\ toConsume # <<>>
    /\ start' = "undoing"
    /\ ended' = ended \cup Undoes
    /\ UNCHANGED <<toHold, toConsume, consumed, flying, holds, receiving, byeing>>

Undone ==
    /\ start = "undoing" /\ ended \cap consumed = {}
    /\ start' = "failed"
    /\ UNCHANGED <<toHold, toConsume, consumed, ended, flying, holds, receiving, byeing>>

-----------------------------------------------------------------------------
(* A message: run by the trigger found now, or answered without a run      *)
(* where a reload left its queue none.                                     *)
Deliver(q) ==
    /\ q \in consumed \ (ended \cup flying) /\ q \in receiving
    /\ flying' = flying \cup {q}
    /\ UNCHANGED <<start, toHold, toConsume, consumed, ended, holds, receiving, byeing>>

Delivered(q) ==
    /\ q \in flying /\ flying' = flying \ {q}
    /\ UNCHANGED <<start, toHold, toConsume, consumed, ended, holds, receiving, byeing>>

(* A reload changes the triggers, never what is consumed.                  *)
ReloadTriggers(qs) ==
    /\ start = "serving" /\ ~byeing
    /\ receiving' = qs
    /\ UNCHANGED <<start, toHold, toConsume, consumed, ended, flying, holds, byeing>>

(* A broker's stop of one consumer resolves.                               *)
Ends(q) ==
    /\ q \in (ended \cap consumed) \ flying
    /\ consumed' = consumed \ {q}
    /\ UNCHANGED <<start, toHold, toConsume, ended, flying, holds, receiving, byeing>>

-----------------------------------------------------------------------------
(* The process stops, and so does a start that failed: each hold in        *)
(* reverse, every consumer of it at once, then the rest of the tree.       *)
Bye ==
    /\ start \in {"serving", "failed"} /\ ~byeing
    /\ byeing' = TRUE
    /\ UNCHANGED <<start, toHold, toConsume, consumed, ended, flying, holds, receiving>>

LastHeld == InQueues(Last(holds))

StopHold ==
    /\ byeing /\ holds # <<>> /\ ~ LastHeld \subseteq ended
    /\ ended' = ended \cup LastHeld
    /\ UNCHANGED <<start, toHold, toConsume, consumed, flying, holds, receiving, byeing>>

HoldStopped ==
    /\ byeing /\ holds # <<>>
    /\ LastHeld \subseteq ended /\ LastHeld \cap consumed = {}
    /\ holds' = Front(holds)
    /\ UNCHANGED <<start, toHold, toConsume, consumed, ended, flying, receiving, byeing>>

Starting == ConsumeNext \/ HoldNext \/ Serve \/ Undone
Stops    == Bye \/ StopHold \/ HoldStopped \/ \E q \in AllQueues : Ends(q)

WorkerNext ==
    \/ Starting \/ ConsumeFails \/ Stops
    \/ \E q \in AllQueues : Deliver(q) \/ Delivered(q)
    \/ \E qs \in SUBSET AllQueues : ReloadTriggers(qs)

WorkerSpec == WorkerInit /\ [][WorkerNext]_workerVars

-----------------------------------------------------------------------------
(* Once the stop has gone past the holds and tears the tree down, no queue *)
(* is consumed and nothing is in flight: of a start that failed half way   *)
(* nothing is left half-held (worker.ts:9-10).                             *)
NothingHalfHeld == byeing /\ holds = <<>> => consumed = {} /\ flying = {}
=============================================================================
