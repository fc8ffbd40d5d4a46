-------------------------------- MODULE MCParts --------------------------------
(***************************************************************************)
(* The small concurrent parts beside the kernel and the queues, by kind:   *)
(* a delivery's lock and its renewal, the turns of a SQLite file, a        *)
(* connection's gate, the exporter, a listening session, a served tree and *)
(* its reloads, the worker's start.  They share nothing here, so a         *)
(* behaviour is one part's, and the others never begin.  The module of     *)
(* each states and explains its properties.                                *)
(***************************************************************************)
EXTENDS Renewal, Turns, Throttle, Exporter, Served, Worker

CONSTANTS
    Consumer, MaxSessions, MaxLosses,       \* Listener
    c1, c2, q1, q2, q3                      \* Worker

VARIABLES
    kind,   \* never written
    consumer, joins, session, client, opening, pause, retired, notes, owed, losses, doubled

Listener == INSTANCE Listener

listenerVars == <<consumer, joins, session, client, opening, pause, retired, notes, owed, losses, doubled>>
allVars == <<kind, vars, turnsVars, throttleVars, exporterVars, listenerVars, servedVars, workerVars>>

PartsInit ==
    /\ kind \in {"renewal", "turns", "throttle", "exporter", "listener", "served", "worker"}
    /\ Init /\ TurnsInit /\ ThrottleInit /\ ExporterInit /\ Listener!Init /\ WorkerInit
    /\ ServedInit /\ (kind = "served" \/ steps = <<"watch", "consume">>)

RenewalStep(A)  == kind = "renewal" /\ A /\ UNCHANGED
    <<kind, turnsVars, throttleVars, exporterVars, listenerVars, servedVars, workerVars>>
TurnsStep(A)    == kind = "turns" /\ A /\ UNCHANGED
    <<kind, vars, throttleVars, exporterVars, listenerVars, servedVars, workerVars>>
ThrottleStep(A) == kind = "throttle" /\ A /\ UNCHANGED
    <<kind, vars, turnsVars, exporterVars, listenerVars, servedVars, workerVars>>
ExporterStep(A) == kind = "exporter" /\ A /\ UNCHANGED
    <<kind, vars, turnsVars, throttleVars, listenerVars, servedVars, workerVars>>
ListenerStep(A) == kind = "listener" /\ A /\ UNCHANGED
    <<kind, vars, turnsVars, throttleVars, exporterVars, servedVars, workerVars>>
ServedStep(A)   == kind = "served" /\ A /\ UNCHANGED
    <<kind, vars, turnsVars, throttleVars, exporterVars, listenerVars, workerVars>>
WorkerStep(A)   == kind = "worker" /\ A /\ UNCHANGED
    <<kind, vars, turnsVars, throttleVars, exporterVars, listenerVars, servedVars>>

PartsNext ==
    \/ RenewalStep(Next) \/ TurnsStep(TurnsNext) \/ ThrottleStep(ThrottleNext)
    \/ ExporterStep(ExporterNext) \/ ListenerStep(Listener!Next)
    \/ ServedStep(ServedNext) \/ WorkerStep(WorkerNext)

(* The fairness of each part, as its module states it.                     *)
PartsSpec ==
    /\ PartsInit /\ [][PartsNext]_allVars
    /\ \A n \in Turn : WF_allVars(TurnsStep(TurnMoves(n))) /\ WF_allVars(TurnsStep(End(n)))
    /\ WF_allVars(ThrottleStep(Moment))
    /\ \A r \in Request :
          /\ WF_allVars(ThrottleStep(GoOn(r))) /\ WF_allVars(ThrottleStep(Alarm(r)))
          /\ WF_allVars(ThrottleStep(Finish(r)))
    /\ WF_allVars(ExporterStep(TimerFires)) /\ WF_allVars(ExporterStep(Deadline))
    /\ WF_allVars(ListenerStep(Listener!Again))
    /\ \A s \in Listener!Session : WF_allVars(ListenerStep(Listener!Connected(s)))
    /\ \A s \in Listener!Session : WF_allVars(ListenerStep(Listener!Refused(s)))
    /\ \A s \in Listener!Session, c \in Consumer : WF_allVars(ListenerStep(Listener!Note(<<s, c>>)))
    /\ WF_allVars(ServedStep(Reload)) /\ WF_allVars(ServedStep(StopOne))

-----------------------------------------------------------------------------
(* A consumer whose queue changed looks at it in the end (listener.ts).    *)
HeardInTheEnd == Listener!HeardInTheEnd

-----------------------------------------------------------------------------
(* The worker's connections and their queues.                              *)
WorkerConnections == <<c1, c2>>
WorkerQueues      == (c1 :> <<q1, q2>>) @@ (c2 :> <<q3>>)
=============================================================================
