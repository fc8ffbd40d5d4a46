------------------------------- MODULE MCQueues -------------------------------
(***************************************************************************)
(* The two brokers of the repository under the one contract of @queue, by  *)
(* kind: two consumers of the table broker on one message, each in a       *)
(* process of its own ("pair"); one consumer on all the messages ("slots");*)
(* the memory broker, for which the table stays as it began.  A behaviour  *)
(* is one kind's.  TableQueue, MemoryQueue and Delivery state and explain  *)
(* the properties.                                                         *)
(***************************************************************************)
EXTENDS TableQueue, Sequences

CONSTANTS
    First,              \* the message of "pair"
    One,                \* the consumer of "slots", and the one that is stopped in "pair"
    MaxSlotsFaults      \* bound: faults in "slots" and "memory"

VARIABLES
    kind,               \* never written
    stored, waiting, attempt, ripe, stage, alarm, flying, told, mishaps   \* the memory broker's

Memory == INSTANCE MemoryQueue WITH
    kept <- stored, due <- ripe, phase <- stage, timer <- alarm, out <- flying, handed <- told,
    faults <- mishaps, MaxFaults <- MaxSlotsFaults

memoryVars == <<stored, waiting, attempt, ripe, stage, alarm, flying, told, mishaps>>
allVars    == <<kind, vars, memoryVars>>

QueuesInit == kind \in {"pair", "slots", "memory"} /\ Init /\ Memory!Init

(* In "pair" only the first message is published, one consumer stops and no*)
(* session is lost.  In "slots" the database never answers any consumer but*)
(* one, and nothing is asked to be tried again.                            *)
Unasked(c) == look'[c] = look[c] /\ again'[c] = again[c] /\ phase'[c] = phase[c]

PairStep(A) ==
    /\ kind = "pair" /\ A /\ UNCHANGED <<kind, memoryVars>>
    /\ \A m \in Message \ {First} : kept'[m] = kept[m]
    /\ \A c \in Consumer \ {One} : phase'[c] # "stopping"
    /\ \A c \in Consumer : session'[c] # "down"

SlotsStep(A) ==
    /\ kind = "slots" /\ A /\ UNCHANGED <<kind, memoryVars>>
    /\ faults' <= MaxSlotsFaults
    /\ \A d \in out'[One] : d.at # "retry"
    /\ \A c \in Consumer \ {One} : Unasked(c) /\ session'[c] # "down"

MemoryStep(A) == kind = "memory" /\ A /\ UNCHANGED <<kind, vars>>

OneIsQuiet == kind # "memory" /\ ~Consuming(One) /\ UNCHANGED allVars

QueuesNext == PairStep(Next) \/ SlotsStep(Next) \/ OneIsQuiet \/ MemoryStep(Memory!Next)

(* The fairness of the two kinds with a liveness property.                 *)
QueuesSpec ==
    /\ QueuesInit /\ [][QueuesNext]_allVars
    /\ \A m \in Message :
          /\ WF_allVars(SlotsStep(FallsDue(m))) /\ WF_allVars(SlotsStep(Lapse(m)))
          /\ WF_allVars(MemoryStep(Memory!FallsDue(m)))
    /\ WF_allVars(SlotsStep(Told(One))) /\ WF_allVars(SlotsStep(Reopen(One)))
    /\ WF_allVars(SlotsStep(TimerFires(One))) /\ WF_allVars(SlotsStep(Look(One)))
    /\ WF_allVars(SlotsStep(Deliver(One)))
    /\ WF_allVars(MemoryStep(Memory!TimerFires)) /\ WF_allVars(MemoryStep(Memory!Deliver))

-----------------------------------------------------------------------------
(* The memory broker too keeps what the Broker promises (brokers.ts), and a*)
(* message it keeps is in one place (queue.ts:2-4).                        *)
MemoryKeepsThePromise == Memory!MemoryKeepsThePromise

(* While a consumer stays up, a message published is acknowledged or parked*)
(* in the end, whatever wakes or answers were lost.  (Messages are alike.) *)
Waits   == (kind = "slots" /\ kept[First] = "kept") \/ (stored[First] = "kept" /\ stage = "on")
Settled == \/ kept[First] \in {"gone", "dead"} \/ stored[First] \in {"gone", "dead"}
           \/ kind = "slots" /\ ~Consuming(One)
           \/ kind = "memory" /\ stage # "on"

NoneForgotten == Waits ~> Settled
=============================================================================
