------------------------------- MODULE Exporter --------------------------------
(***************************************************************************)
(* The exporter of plugin-otel (exporter.ts): spans wait for a batch, a    *)
(* batch goes to a sender that answers or not, and a stop waits for what   *)
(* is left no longer than its deadline.  Spans are counted, never looked   *)
(* at.                                                                     *)
(*                                                                         *)
(* The sender (external, OTLP) takes a bounded number of batches at once,  *)
(* and refuses one more outright.  Its shutdown may settle at any time.    *)
(***************************************************************************)
EXTENDS Integers

CONSTANTS
    Batch, Ceiling,     \* how many make a batch, how many may wait
    Trace,              \* how many spans a trace may have
    Batches,            \* the batches that may be handed to the sender, by a name each
    MaxSpans            \* bound

ASSUME SizesAssumption == Batch \in Nat \ {0} /\ Ceiling \in Nat /\ Trace \subseteq Nat /\ MaxSpans \in Nat

VARIABLES
    taken,          \* history: the spans of every trace taken
    spans,          \* how many wait
    alarm,          \* the timer: "off" or "armed"
    batch,          \* each batch: how many spans, 0 before it is handed over and once answered
    sending,        \* the exporter's count of them
    stopping,       \* "no", "flushing" (waiting for the last batch and the shutdown), "closed"
                    \* or "left" (gave up, and nothing more is said)
    final,          \* the batch a stop handed over, if any
    exported, said  \* history: the spans exported, and those said lost

exporterVars == <<taken, spans, alarm, batch, sending, stopping, final, exported, said>>

ExporterTypeOK ==
    /\ taken \in Nat /\ spans \in Nat /\ sending \in Int /\ exported \in Nat /\ said \in Int
    /\ alarm \in {"off", "armed"}
    /\ batch \in [Batches -> Nat]
    /\ stopping \in {"no", "flushing", "closed", "left"} /\ final \subseteq Batches

ExporterInit ==
    /\ taken = 0 /\ spans = 0 /\ sending = 0 /\ exported = 0 /\ said = 0
    /\ alarm = "off"
    /\ batch = [b \in Batches |-> 0]
    /\ stopping = "no" /\ final = {}

-----------------------------------------------------------------------------
(* What waits is handed to the sender as one batch, and the timer is off.  *)
(* `lost` are said lost with it, and a batch refused outright is.          *)
Free == {b \in Batches : batch[b] = 0}

Flush(n, lost) ==
    /\ alarm' = "off" /\ spans' = 0
    /\ \/ /\ n # 0 /\ \E b \in Free : batch' = [batch EXCEPT ![b] = n]
          /\ sending' = sending + n /\ said' = said + lost
       \/ /\ n = 0 \/ Free = {}
          /\ said' = said + lost + n
          /\ UNCHANGED <<batch, sending>>

(* A trace is taken: what passes the ceiling is dropped, oldest first, and *)
(* said; a batch is sent at once, fewer wait for the timer.                *)
Kept(n) == IF n > Ceiling THEN Ceiling ELSE n

TakeTrace ==
    /\ stopping = "no"
    /\ \E n \in Trace :
          /\ taken + n <= MaxSpans
          /\ taken' = taken + n
          /\ LET now  == Kept(spans + n)
                 lost == spans + n - now
             IN  IF now >= Batch
                 THEN Flush(now, lost)
                 ELSE /\ spans' = now /\ alarm' = "armed" /\ said' = said + lost
                      /\ UNCHANGED <<batch, sending>>
    /\ UNCHANGED <<stopping, final, exported>>

TimerFires ==
    /\ alarm = "armed"
    /\ Flush(spans, 0)
    /\ UNCHANGED <<taken, stopping, final, exported>>

(* The sender answers for a batch.  A refusal is said, unless a stop has   *)
(* already said what became of it.                                         *)
Exported(b) ==
    /\ batch[b] # 0
    /\ batch' = [batch EXCEPT ![b] = 0]
    /\ sending' = sending - batch[b]
    /\ exported' = IF stopping = "left" THEN exported ELSE exported + batch[b]
    /\ UNCHANGED <<taken, spans, alarm, stopping, final, said>>

Refused(b) ==
    /\ batch[b] # 0
    /\ batch' = [batch EXCEPT ![b] = 0]
    /\ sending' = sending - batch[b]
    /\ said' = IF stopping = "left" THEN said ELSE said + batch[b]
    /\ UNCHANGED <<taken, spans, alarm, stopping, final, exported>>

(* A stop: nothing more is taken, what waits is flushed.                   *)
StopExport ==
    /\ stopping = "no" /\ stopping' = "flushing"
    /\ Flush(spans, 0)
    /\ final' = {b \in Free : batch'[b] # 0}
    /\ UNCHANGED <<taken, exported>>

(* Its batch is answered, and the sender closed or failed to: batches from *)
(* before the stop may still be on their way.                              *)
Closed ==
    /\ stopping = "flushing" /\ stopping' = "closed"
    /\ \A b \in final : batch[b] = 0
    /\ UNCHANGED <<taken, spans, alarm, batch, sending, final, exported, said>>

(* A mutant: what is unsent is not said.                                   *)
UnsentNone == 0

(* The deadline comes first: what is unsent is said and left behind.       *)
Unsent == sending

Deadline ==
    /\ stopping = "flushing" /\ stopping' = "left"
    /\ said' = said + Unsent
    /\ UNCHANGED <<taken, spans, alarm, batch, sending, final, exported>>

ExporterNext ==
    \/ TakeTrace \/ TimerFires \/ StopExport \/ Closed \/ Deadline
    \/ \E b \in Batches : Exported(b) \/ Refused(b)

(* A timer fires and a deadline passes; the sender may never answer.       *)
ExporterSpec ==
    /\ ExporterInit /\ [][ExporterNext]_exporterVars
    /\ WF_exporterVars(TimerFires) /\ WF_exporterVars(Deadline)

-----------------------------------------------------------------------------
(* Every span taken is waiting, being sent, exported or said lost, and     *)
(* none is said lost that is told otherwise: of those a stop left behind   *)
(* nothing more is said.                                                   *)
Accounted == taken = spans + exported + said + (IF stopping = "left" THEN 0 ELSE sending)

(* Nothing waits without a timer that will send it, and nothing waits at   *)
(* all once stopped.                                                       *)
NothingWaitsAlone == spans > 0 => alarm = "armed" /\ stopping = "no"

=============================================================================
