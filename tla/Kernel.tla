-------------------------------- MODULE Kernel --------------------------------
(***************************************************************************)
(* One run of a graph: packages/engine/src/run.ts, and the report and      *)
(* outcome read from it (report.ts, kernel.ts).                            *)
(*                                                                         *)
(* The scheduler is one async function.  It looks over the nodes, starts   *)
(* every ready one in declared order, looks again, and suspends once       *)
(* nothing is ready (`phase` "wait").  Everything else -- a handler        *)
(* answering or throwing, the promise callbacks of a node that settled,    *)
(* the abort listener -- runs only while it is suspended.  A switch routes *)
(* inside the pass that starts it, before the next ready node is started.  *)
(***************************************************************************)
EXTENDS Graph, Sequences

CONSTANT Graphs       \* the graphs a run may be given

ASSUME GraphsAssumption == \A g \in Graphs : g \in Graph /\ Judged(g)

VARIABLES
    graph,      \* the spec this run was given; never written
    plan,       \* what planOf says of it; never written
    phase,      \* where the scheduler is: "look", "start", "wait" or "over"
    ready,      \* the nodes this pass still has to start
    woken,      \* the scheduler's wake promise is resolved
    status,     \* report.status of each node
    refused,    \* nodes whose report carries a reason
    caught,     \* report.caught: the switch holding the node's fault
    selected,   \* report.selected of a switch
    settling,   \* nodes whose outcome is written and whose `finally` is to come
    settled,    \* nodes in the order their `finally` ran: report.order is the index
    ending,     \* how the run ended before quiescence: "none", "failed" or "cancelled"
    aborted,    \* the run's signal has fired
    enders      \* (observed only) the nodes whose fault or refusal ended the run

vars == <<graph, plan, phase, ready, woken, status, refused, caught, selected, settling,
          settled, ending, aborted, enders>>

Statuses == {"pending", "seeded", "running", "done", "failed", "cancelled"}

Members(s) == {s[i] : i \in DOMAIN s}

TypeOK ==
    /\ graph \in Graph
    /\ plan \in Plan
    /\ phase \in {"look", "start", "wait", "over"}
    /\ ready \in SUBSET Node
    /\ woken \in BOOLEAN
    /\ status \in [Node -> Statuses]
    /\ refused \in SUBSET Node
    /\ caught \in [Node -> Node \cup {None}]
    /\ selected \in [Node -> Node \cup {None}]
    /\ settling \in Seq(Node)
    /\ settled \in Seq(Node)
    /\ ending \in {"none", "failed", "cancelled"}
    /\ aborted \in BOOLEAN
    /\ enders \in SUBSET Node

-----------------------------------------------------------------------------
(* Readiness.                                                              *)

Answered(n) == status[n] \in {"done", "seeded"}

DependenciesSettled(n) ==
    \A d \in plan.dependencies[n] : Answered(d) \/ caught[d] = n

RoutedTo(n) == plan.routedBy[n] = None \/ selected[plan.routedBy[n]] = n

(* mutant: one settled dependency is enough                                *)
IsReadyOnAny(n) ==
    /\ ending = "none"
    /\ status[n] = "pending"
    /\ plan.dependencies[n] = {} \/ \E d \in plan.dependencies[n] : Answered(d) \/ caught[d] = n
    /\ RoutedTo(n)
    /\ n \notin graph.unsupplied

IsReady(n) ==
    /\ ending = "none"
    /\ status[n] = "pending"
    /\ DependenciesSettled(n)
    /\ RoutedTo(n)
    /\ n \notin graph.unsupplied

Running == {n \in Node : status[n] = "running"} \cup Members(settling)

-----------------------------------------------------------------------------
(* The ways a run stops starting nodes.                                    *)

CancelPending(st) == [n \in Node |-> IF st[n] = "pending" THEN "cancelled" ELSE st[n]]

Ended(how) == IF ending = "none" THEN how ELSE ending

(* end(): whatever is still pending in `st` never starts.  `by` are the    *)
(* nodes whose fault or refusal it is.                                     *)
End(st, by) ==
    /\ ending' = Ended("failed")
    /\ status' = CancelPending(st)
    /\ enders' = IF ending = "none" THEN by ELSE enders

(* cancelRun(): the signal fired.                                          *)
CancelRun ==
    /\ ending' = Ended("cancelled")
    /\ status' = CancelPending(status)

-----------------------------------------------------------------------------
Init ==
    /\ graph \in Graphs
    /\ plan = PlanOf(graph)
    /\ phase = "look"
    /\ ready = {}
    /\ woken = FALSE
    /\ status = [n \in Node |-> IF n \in graph.seeded THEN "seeded" ELSE "pending"]
    /\ refused = {}
    /\ caught = [n \in Node |-> None]
    /\ selected = [n \in Node |-> None]
    /\ settling = <<>>
    /\ settled = <<>>
    /\ ending = "none"
    /\ aborted \in BOOLEAN
    /\ enders = {}

(* The top of the loop.  An aborted signal cancels what is pending, so     *)
(* nothing is ready then.                                                  *)
Look ==
    /\ phase = "look"
    /\ IF aborted THEN CancelRun ELSE UNCHANGED <<ending, status>>
    /\ ready' = IF aborted THEN {} ELSE {n \in Node : IsReady(n)}
    /\ phase' = IF ready' # {} THEN "start" ELSE IF Running # {} THEN "wait" ELSE "over"
    /\ UNCHANGED <<graph, plan, woken, refused, caught, selected, settling, settled, aborted, enders>>

(* Where a switch may go: a fault it holds decides -- the first in its     *)
(* `catch` -- and its rules are tried only when it holds none.             *)
HeldBy(s) == {x \in Node : caught[x] = s}

CaughtRoute(s) == {graph.catch[s][x] : x \in {y \in HeldBy(s) : \A z \in HeldBy(s) : y <= z}}

RoutesOf(s) == IF HeldBy(s) # {} THEN CaughtRoute(s) ELSE graph.rules[s]

PendingBut(s) == {n \in Node \ {s} : status[n] = "pending"}

(* mutant: a target is cancelled, what waits for it is not                 *)
CancelledAlone(s, to) == (TargetsOf(graph, s) \ {to}) \cap PendingBut(s)

(* What a switch cancels when it routes to `to`: its other targets, and    *)
(* whatever pending waits for them.                                        *)
CancelledBy(s, to) ==
    Downstream(plan, (TargetsOf(graph, s) \ {to}) \cap PendingBut(s), PendingBut(s))

(* A switch cancelled while it holds faults lets go of them and the run    *)
(* ends; nothing is pending then, so which of several such switches still  *)
(* lets go depends on the order of the walk: any nonempty part of them may.*)
Route(s, to) ==
    LET gone    == CancelledBy(s, to)
        holders == {caught[x] : x \in Node} \cap gone
        after   == [n \in Node |-> IF n = s THEN "done"
                                   ELSE IF n \in gone THEN "cancelled" ELSE status[n]]
    IN  /\ selected' = [selected EXCEPT ![s] = to]
        /\ settling' = Append(settling, s)
        /\ \/ /\ holders = {}
              /\ status' = after
              /\ UNCHANGED <<caught, ending, enders>>
           \/ \E letGo \in (SUBSET holders) \ {{}} :
                 LET lost == {x \in Node : caught[x] \in letGo}
                 IN  /\ caught' = [x \in Node |-> IF x \in lost THEN None ELSE caught[x]]
                     /\ End(after, lost)

(* A call runs until its handler settles; so does a switch whose rule      *)
(* throws, until the rejection is handled.                                 *)
Begin(n) ==
    /\ status' = [status EXCEPT ![n] = "running"]
    /\ UNCHANGED <<selected, settling, caught, ending, enders>>

Start(n) ==
    /\ phase = "start"
    /\ n \in ready
    /\ \A m \in ready : n <= m
    /\ ready' = ready \ {n}
    /\ phase' = IF ready = {n} THEN "look" ELSE "start"
    /\ \/ n \notin graph.switches /\ Begin(n)
       \/ n \in graph.switches /\ HeldBy(n) = {} /\ Begin(n)
       \/ n \in graph.switches /\ \E to \in RoutesOf(n) : Route(n, to)
    /\ UNCHANGED <<graph, plan, woken, refused, settled, aborted>>

-----------------------------------------------------------------------------
(* While the scheduler is suspended.                                       *)

(* A handler answered.                                                     *)
Finish(n) ==
    /\ phase = "wait"
    /\ status[n] = "running"
    /\ n \notin graph.switches
    /\ status' = [status EXCEPT ![n] = "done"]
    /\ settling' = Append(settling, n)
    /\ UNCHANGED <<graph, plan, phase, ready, woken, refused, caught, selected, settled, ending,
                   aborted, enders>>

(* mutant: a switch whose branch was not chosen takes the fault too        *)
CatcherEver(n) == {plan.catchers[n]} \ {None}

(* The switch that takes a node's fault: one still to route, or any once   *)
(* the run is cancelled.                                                   *)
CatcherOf(n) ==
    {s \in {plan.catchers[n]} \ {None} : status[s] = "pending" \/ ending = "cancelled"}

(* A node broke: a switch holds the fault, or the run ends.                *)
Fault(n) ==
    /\ phase = "wait"
    /\ status[n] = "running"
    /\ settling' = Append(settling, n)
    /\ \/ \E s \in CatcherOf(n) :
            /\ caught' = [caught EXCEPT ![n] = s]
            /\ status' = [status EXCEPT ![n] = "failed"]
            /\ UNCHANGED <<ending, enders>>
       \/ /\ CatcherOf(n) = {}
          /\ End([status EXCEPT ![n] = "failed"], {n})
          /\ UNCHANGED caught
    /\ UNCHANGED <<graph, plan, phase, ready, woken, refused, selected, settled, aborted>>

(* A handler refused: no switch ever catches that.                         *)
Refuse(n) ==
    /\ phase = "wait"
    /\ status[n] = "running"
    /\ n \notin graph.switches
    /\ refused' = refused \cup {n}
    /\ settling' = Append(settling, n)
    /\ End([status EXCEPT ![n] = "failed"], {n})
    /\ UNCHANGED <<graph, plan, phase, ready, woken, caught, selected, settled, aborted>>

(* mutant: the scheduler is not woken                                      *)
SettleUnheard ==
    /\ phase = "wait"
    /\ settling # <<>>
    /\ settled' = Append(settled, Head(settling))
    /\ settling' = Tail(settling)
    /\ UNCHANGED <<graph, plan, phase, ready, woken, status, refused, caught, selected, ending,
                   aborted, enders>>

(* The `finally` of a node: it takes its place and wakes the scheduler.    *)
(* Callbacks run in the order their promises settled.  (A node that broke  *)
(* and one that answered at once may come one microtask out of this order; *)
(* nothing reads the place of one that answered.)                          *)
Settle ==
    /\ phase = "wait"
    /\ settling # <<>>
    /\ settled' = Append(settled, Head(settling))
    /\ settling' = Tail(settling)
    /\ woken' = TRUE
    /\ UNCHANGED <<graph, plan, phase, ready, status, refused, caught, selected, ending, aborted,
                   enders>>

(* The scheduler's await returns.                                          *)
Resume ==
    /\ phase = "wait"
    /\ woken
    /\ woken' = FALSE
    /\ phase' = "look"
    /\ UNCHANGED <<graph, plan, ready, status, refused, caught, selected, settling, settled, ending,
                   aborted, enders>>

(* The abort listener.                                                     *)
Abort ==
    /\ phase = "wait"
    /\ ~aborted
    /\ aborted' = TRUE
    /\ woken' = TRUE
    /\ CancelRun
    /\ UNCHANGED <<graph, plan, phase, ready, refused, caught, selected, settling, settled, enders>>

(* The run is over: its report stands.                                     *)
Over == phase = "over" /\ UNCHANGED vars

Handler(n) == Finish(n) \/ Fault(n) \/ Refuse(n)

Scheduler == Look \/ Settle \/ Resume \/ \E n \in Node : Start(n)

Next == Scheduler \/ Abort \/ Over \/ \E n \in Node : Handler(n)

(* The event loop runs what is due, and a handler that was called settles  *)
(* sooner or later; nothing obliges the signal to fire.                    *)
Fairness == WF_vars(Scheduler) /\ \A n \in Node : WF_vars(Handler(n))

Spec == Init /\ [][Next]_vars /\ Fairness

-----------------------------------------------------------------------------
(* The report (reportOf) and what is read from it (outcomeOf, failure).    *)

Candidates == {n \in graph.output : Answered(n)}

ReportStatus ==
    IF ending # "none" THEN ending
    ELSE IF graph.output = {} \/ Candidates # {} THEN "done" ELSE "blocked"

(* The nodes whose missing roots a blocked report lists as its needs.      *)
Needing == {n \in graph.unsupplied : status[n] = "pending"}

Failed == {n \in Node : status[n] = "failed"}

(* mutant: a caught fault counts                                           *)
CulpritsAll == IF refused # {} THEN refused ELSE Failed

(* The nodes a failed run may answer for: those that refused, else those   *)
(* that broke and were not caught.                                         *)
Culprits == IF refused # {} THEN refused ELSE {n \in Failed : caught[n] = None}

(* Of these, the first that settled.                                       *)
Blamed == {n \in Culprits : \E i \in DOMAIN settled :
                               /\ settled[i] = n
                               /\ \A j \in DOMAIN settled : settled[j] \in Culprits => i <= j}

-----------------------------------------------------------------------------
Ran(n) == status[n] \in {"running", "done", "failed"}

(* A node that has run did so behind everything it waits for: each node it *)
(* reads answered, or broke with a fault this switch was handed; and its   *)
(* switch chose it.                                                        *)
RanInOrder == \A n \in Node : Ran(n) => DependenciesSettled(n) /\ RoutedTo(n)

(* While the run goes on, no fault is dropped: a node that failed broke    *)
(* (never refused), and a switch holds its fault -- one still to route, or *)
(* one that went where its `catch` sends the first fault it holds.         *)
FaultsHeld ==
    ending = "none" =>
        \A n \in Failed :
            /\ n \notin refused
            /\ caught[n] \in graph.switches
            /\ \/ status[caught[n]] = "pending"
               \/ /\ status[caught[n]] = "done"
                  /\ selected[caught[n]] \in CaughtRoute(caught[n])

(* Nothing that waits, however far behind, for a branch a switch did not   *)
(* choose ever runs (a seeded node stands for one that ran in another run).*)
OneBranchRuns ==
    graph.seeded = {} =>
        \A s \in {n \in graph.switches : status[n] = "done"} :
            \A n \in Downstream(plan, TargetsOf(graph, s) \ {selected[s]}, Node) : ~Ran(n)

(* The faults a switch holds beside the first: it went where that one goes.*)
Overlooked ==
    {x \in Failed : /\ caught[x] \in graph.switches
                    /\ selected[caught[x]] \notin {None, graph.catch[caught[x]][x]}}

(* At quiescence every node still pending waits, however far behind, on a  *)
(* root the run was not given or on a fault its switch overlooked: a run   *)
(* given its roots leaves nothing hanging -- no node behind a broken one,  *)
(* no fault a switch never got to route.  (A node pre-supplied behind a    *)
(* switch may stand on a branch the switch leaves: what waits for it and   *)
(* for a broken node is not cancelled then.)                               *)
StuckOnlyOnRoots ==
    (phase = "over" /\ ending = "none"
       /\ graph.seeded \cap Downstream(plan, graph.switches, Node) = {}) =>
        {n \in Node : status[n] = "pending"}
            \subseteq Downstream(plan, graph.unsupplied \cup Overlooked, Node)

(* A failed run in which nothing refused answers for the node whose fault  *)
(* ended it, not for one that broke afterwards (kernel.ts:53-56).          *)
BlamesTheEnder ==
    (phase = "over" /\ ReportStatus = "failed") =>
        /\ Blamed # {}
        /\ refused = {} => Blamed \subseteq enders

(* A blocked run is waiting for a root it was not given, and says which    *)
(* (report.ts:41-45; kernel.ts: "`blocked` with the roots nothing          *)
(* supplied").                                                             *)
BlockedNamesNeeds == (phase = "over" /\ ReportStatus = "blocked") => Needing # {}

(* The run is over: nothing still pending starts (run.ts:184-186, 200).    *)
NothingStartsOnceEnded ==
    [][ending # "none" => \A n \in Node : status'[n] = "running" => status[n] = "running"]_vars

(* Every run answers: no wake-up is lost and the loop reaches quiescence.  *)
RunAnswers == <>(phase = "over")
=============================================================================
