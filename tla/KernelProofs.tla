---------------------------- MODULE KernelProofs ----------------------------
(***************************************************************************)
(* What holds of every run of every judged graph, however many nodes it    *)
(* has.  Three inductive invariants, each beside those before it: IInv (its*)
(* conjuncts TypeOK and RanInOrder), RoutingInv (where faults and choices  *)
(* lead: FaultsHeld, and with the judge's rules OneBranchRuns and          *)
(* StuckOnlyOnRoots), BlameInv (the order of settling: BlamesTheEnder).    *)
(***************************************************************************)
EXTENDS Kernel, SequenceTheorems, FiniteSetTheorems, WellFoundedInduction, TLAPS

(* The run's graph is one of those the judge let through.                  *)
GraphJudged == graph \in Graphs /\ plan = PlanOf(graph)

(* A fault is held only of a node that failed, a choice only made by a     *)
(* switch that is done: neither is written of a node still to start.       *)
HeldOnlyOfFailed == \A n \in Node : caught[n] # None => status[n] = "failed"

ChosenOnlyByDone == \A n \in Node : selected[n] # None => status[n] = "done"

(* What this pass has still to start has not started, and whatever it was  *)
(* found ready by still holds -- also after another node of the pass ended *)
(* the run.                                                                *)
ReadyStands ==
    \A n \in ready : /\ status[n] \in {"pending", "cancelled"}
                     /\ DependenciesSettled(n)
                     /\ RoutedTo(n)

IInv == TypeOK /\ GraphJudged /\ HeldOnlyOfFailed /\ ChosenOnlyByDone /\ ReadyStands /\ RanInOrder

-----------------------------------------------------------------------------
(* About the plan.                                                         *)

(* The last of a set of nodes is one of them, and none where there is none.*)
LEMMA LastMember ==
    ASSUME NEW S \in SUBSET Node, \A s, t \in S : s = t
    PROVE  /\ S = {} => Last(S) = None
           /\ \A s \in S : Last(S) = s
           /\ Last(S) \in Node \cup {None}
<1>1. CASE S = {}
  BY <1>1 DEF Last
<1>2. CASE S # {}
  <2>1. PICK s \in S : S = {s}
    BY <1>2
  <2>2. s \in Nat /\ s <= s
    BY <2>1, NAssumption DEF Node
  <2>3. \E m \in S : \A t \in S : t <= m
    BY <2>1, <2>2
  <2>4. Last(S) \in S
    BY <2>3, <1>2 DEF Last
  <2> QED
    BY <2>1, <2>4
<1> QED
  BY <1>1, <1>2

(* A member of a downstream set is one it started from, or waits for       *)
(* another member; all of them are nodes the walk was allowed.             *)
LEMMA DownstreamStep ==
    ASSUME NEW p, NEW from, NEW among, NEW n \in Downstream(p, from, among)
    PROVE  /\ n \in from \cup among
           /\ n \in from \/ p.dependencies[n] \cap Downstream(p, from, among) # {}
<1> DEFINE all == from \cup among
           D == Downstream(p, from, among)
           Closed(S) == /\ from \subseteq S
                        /\ \A d \in among \ S : p.dependencies[d] \cap S = {}
<1>0. D = {m \in all : \A S \in SUBSET all : Closed(S) => m \in S}
  BY DEF Downstream
<1>1. n \in all
  BY <1>0
<1>2. SUFFICES ASSUME n \notin from, p.dependencies[n] \cap D = {}
               PROVE  FALSE
  BY <1>1
<1>3. D \subseteq all /\ from \subseteq D
  BY <1>0
<1>4. \A d \in among \ D : p.dependencies[d] \cap D = {}
  <2> SUFFICES ASSUME NEW d \in among \ D, NEW e \in D, e \in p.dependencies[d]
               PROVE  FALSE
    OBVIOUS
  <2>1. PICK S \in SUBSET all : Closed(S) /\ d \notin S
    BY <1>0
  <2>2. e \in S
    BY <1>0, <2>1
  <2> QED
    BY <2>1, <2>2
<1>5. Closed(D \ {n})
  BY <1>2, <1>3, <1>4
<1>6. D \ {n} \in SUBSET all
  BY <1>3
<1> QED
  BY <1>0, <1>5, <1>6

(* A target of a switch is a node that waits for that switch, and the      *)
(* switch is the one that routes it.                                       *)
LEMMA TargetsWait ==
    ASSUME GraphJudged, NEW s \in graph.switches, NEW t \in TargetsOf(graph, s)
    PROVE  t \in Node /\ plan.routedBy[t] = s /\ s \in plan.dependencies[t]
<1>1. graph \in Graph /\ Judged(graph)
  BY GraphsAssumption DEF GraphJudged
<1>2. s \in Node /\ s # None
  BY <1>1, NAssumption DEF Graph, Node, None
<1>3. t \in Node
  BY <1>1, <1>2 DEF TargetsOf, Caught, Graph
<1>4. s \in RoutersOf(graph, t) /\ RoutersOf(graph, t) \in SUBSET Node
  BY <1>1 DEF RoutersOf, Graph
<1>5. \A a, b \in RoutersOf(graph, t) : a = b
  BY <1>1, <1>3 DEF Judged
<1>6. Last(RoutersOf(graph, t)) = s
  BY <1>4, <1>5, LastMember
<1> QED
  BY <1>2, <1>3, <1>6 DEF GraphJudged, PlanOf, WaitsFor

(* What planOf makes of a judged graph is a plan.                          *)
LEMMA PlanType == ASSUME GraphJudged PROVE graph \in Graph /\ plan \in Plan
<1>1. graph \in Graph /\ Judged(graph)
  BY GraphsAssumption DEF GraphJudged
<1>2. \A n \in Node : Last(RoutersOf(graph, n)) \in Node \cup {None}
  <2> TAKE n \in Node
  <2>1. RoutersOf(graph, n) \in SUBSET Node
    BY <1>1 DEF RoutersOf, Graph
  <2>2. \A a, b \in RoutersOf(graph, n) : a = b
    BY <1>1 DEF Judged
  <2> QED
    BY <2>1, <2>2, LastMember
<1>3. \A n \in Node : Last(CatchersOf(graph, n)) \in Node \cup {None}
  <2> TAKE n \in Node
  <2>1. CatchersOf(graph, n) \in SUBSET Node
    BY <1>1 DEF CatchersOf, Graph
  <2>2. \A a, b \in CatchersOf(graph, n) : a = b
    BY <1>1 DEF Judged, CatchJudged, CatchersOf
  <2> QED
    BY <2>1, <2>2, LastMember
<1>4. \A n \in Node : WaitsFor(graph, n) \in SUBSET Node
  BY <1>1, <1>2 DEF WaitsFor, Caught, Graph
<1> QED
  BY <1>1, <1>2, <1>3, <1>4 DEF GraphJudged, PlanOf, Plan

(* The switch a plan names as a node's catcher is the only one that       *)
(* catches it.                                                             *)
LEMMA CatcherCatches ==
    ASSUME GraphJudged, NEW n \in Node, plan.catchers[n] # None
    PROVE  /\ plan.catchers[n] \in graph.switches
           /\ plan.catchers[n] \in Node
           /\ n \in Caught(graph, plan.catchers[n])
           /\ \A s \in CatchersOf(graph, n) : s = plan.catchers[n]
<1>1. graph \in Graph /\ Judged(graph)
  BY GraphsAssumption DEF GraphJudged
<1>2. CatchersOf(graph, n) \in SUBSET Node
  BY <1>1 DEF CatchersOf, Graph
<1>3. \A s, t \in CatchersOf(graph, n) : s = t
  BY <1>1 DEF Judged, CatchJudged, CatchersOf
<1>4. plan.catchers[n] = Last(CatchersOf(graph, n))
  BY DEF GraphJudged, PlanOf
<1>5. \A s \in CatchersOf(graph, n) : s = plan.catchers[n]
  BY <1>2, <1>3, <1>4, LastMember
<1>6. PICK s \in CatchersOf(graph, n) : s = plan.catchers[n]
  BY <1>2, <1>3, <1>4, <1>5, LastMember
<1> QED
  BY <1>2, <1>5, <1>6 DEF CatchersOf

(* A downstream set has what it started from, and of the nodes the walk    *)
(* was allowed every one that waits for a member.                          *)
LEMMA DownstreamClosed ==
    ASSUME NEW p, NEW from, NEW among
    PROVE  /\ from \subseteq Downstream(p, from, among)
           /\ \A n \in among : p.dependencies[n] \cap Downstream(p, from, among) # {}
                                 => n \in Downstream(p, from, among)
<1> DEFINE all == from \cup among
           D == Downstream(p, from, among)
           Closed(S) == /\ from \subseteq S
                        /\ \A d \in among \ S : p.dependencies[d] \cap S = {}
<1>0. D = {m \in all : \A S \in SUBSET all : Closed(S) => m \in S}
  BY DEF Downstream
<1>1. from \subseteq D
  BY <1>0
<1>2. ASSUME NEW n \in among, n \notin D, NEW e \in D, e \in p.dependencies[n]
      PROVE  FALSE
  <2>1. PICK S \in SUBSET all : Closed(S) /\ n \notin S
    BY <1>0, <1>2
  <2>2. e \in S
    BY <1>0, <1>2, <2>1
  <2> QED
    BY <1>2, <2>1, <2>2
<1> QED
  BY <1>1, <1>2

(* A set that no such step leaves contains whatever is downstream of its   *)
(* members.                                                                *)
LEMMA DownstreamLeast ==
    ASSUME NEW p, NEW from, NEW among, NEW S, from \subseteq S,
           \A d \in among \ S : p.dependencies[d] \cap S = {}
    PROVE  Downstream(p, from, among) \subseteq S
<1> DEFINE all == from \cup among
           Closed(T) == /\ from \subseteq T
                        /\ \A d \in among \ T : p.dependencies[d] \cap T = {}
<1>0. Downstream(p, from, among) = {m \in all : \A T \in SUBSET all : Closed(T) => m \in T}
  BY DEF Downstream
<1>1. S \cap all \in SUBSET all /\ Closed(S \cap all)
  OBVIOUS
<1> QED
  BY <1>0, <1>1

(* The same of what is behind one node.                                    *)
LEMMA BehindLeast ==
    ASSUME NEW t, NEW S, t \in S, \A d \in Node : plan.dependencies[d] \cap S # {} => d \in S
    PROVE  Behind(plan, t) \subseteq S
<1>1. {t} \subseteq S /\ \A d \in Node \ S : plan.dependencies[d] \cap S = {}
  OBVIOUS
<1> QED
  BY <1>1, DownstreamLeast DEF Behind

(* Of some nodes of a judged graph, one waits for no other of them.        *)
LEMMA FirstOf ==
    ASSUME GraphJudged, NEW S \in SUBSET Node, S # {}
    PROVE  \E n \in S : plan.dependencies[n] \cap S = {}
BY GraphsAssumption DEF GraphJudged, Judged, Acyclic

(* Of some nodes of a judged graph, one is behind no other of them.        *)
LEMMA Foremost ==
    ASSUME GraphJudged, NEW S \in SUBSET Node, S # {}
    PROVE  \E n \in S : \A m \in S : n \in Behind(plan, m) => m = n
<1> DEFINE R == Downstream(plan, S, Node)
<1>1. S \subseteq R /\ \A n \in Node : plan.dependencies[n] \cap R # {} => n \in R
  BY DownstreamClosed
<1>2. \A n \in R : n \in S \cup Node /\ (n \in S \/ plan.dependencies[n] \cap R # {})
  BY DownstreamStep
<1>3. R \in SUBSET Node /\ R # {}
  BY <1>1, <1>2
<1>4. PICK n \in R : plan.dependencies[n] \cap R = {}
  BY <1>3, FirstOf
<1>5. n \in S
  BY <1>2, <1>4
<1>6. ASSUME NEW m \in S, n \in Behind(plan, m) PROVE m = n
  <2> DEFINE B == Downstream(plan, {m}, Node)
  <2>1. B \subseteq R
    BY <1>1, DownstreamLeast
  <2>2. n \in {m} \/ plan.dependencies[n] \cap B # {}
    BY <1>6, DownstreamStep DEF Behind
  <2> QED
    BY <1>4, <2>1, <2>2
<1> QED
  BY <1>5, <1>6

(* Whatever waits for a caught node, its switch apart, is behind a target  *)
(* of that switch, and not where the fault goes.                           *)
LEMMA ReadersBehind ==
    ASSUME GraphJudged, NEW s \in graph.switches, NEW x \in Caught(graph, s),
           NEW n \in Node, x \in plan.dependencies[n], n # s
    PROVE  /\ x \notin graph.switches
           /\ graph.catch[s][x] \in TargetsOf(graph, s)
           /\ n \notin Behind(plan, graph.catch[s][x])
           /\ \E t \in TargetsOf(graph, s) : n \in Behind(plan, t)
<1>1. graph \in Graph /\ Judged(graph) /\ plan = PlanOf(graph)
  BY GraphsAssumption DEF GraphJudged
<1>2. CatchJudged(graph, plan, s, x)
  BY <1>1 DEF Judged
<1>3. x \notin graph.switches /\ x \in Node
  BY <1>1, <1>2 DEF CatchJudged, Graph
<1>4. x # Last(RoutersOf(graph, n))
  <2>1. RoutersOf(graph, n) \in SUBSET Node /\ \A a, b \in RoutersOf(graph, n) : a = b
    BY <1>1 DEF RoutersOf, Graph, Judged
  <2>2. CASE RoutersOf(graph, n) = {}
    BY <1>3, <2>1, <2>2, LastMember, NAssumption DEF Node, None
  <2>3. CASE RoutersOf(graph, n) # {}
    <3>1. PICK r \in RoutersOf(graph, n) : TRUE
      BY <2>3
    <3>2. Last(RoutersOf(graph, n)) = r /\ r \in graph.switches
      BY <2>1, <3>1, LastMember DEF RoutersOf
    <3> QED
      BY <1>3, <3>2
  <2> QED
    BY <2>2, <2>3
<1>5. n \in graph.switches => x \notin Caught(graph, n)
  BY <1>2 DEF CatchJudged, CatchersOf
<1>6. x \in graph.reads[n]
  BY <1>1, <1>4, <1>5 DEF PlanOf, WaitsFor
<1> QED
  BY <1>2, <1>3, <1>6 DEF CatchJudged, TargetsOf, Caught

-----------------------------------------------------------------------------
(* The invariant.                                                          *)

LEMMA InitIInv == Init => IInv
<1> SUFFICES ASSUME Init PROVE IInv
  OBVIOUS
<1>1. GraphJudged
  BY DEF Init, GraphJudged
<1>2. TypeOK
  <2>1. graph \in Graph /\ plan \in Plan
    BY <1>1, PlanType
  <2>2. <<>> \in Seq(Node)
    OBVIOUS
  <2> QED
    BY <2>1, <2>2 DEF Init, TypeOK, Statuses
<1>3. HeldOnlyOfFailed /\ ChosenOnlyByDone /\ ReadyStands
  BY DEF Init, HeldOnlyOfFailed, ChosenOnlyByDone, ReadyStands
<1>4. RanInOrder
  BY DEF Init, RanInOrder, Ran
<1> QED
  BY <1>1, <1>2, <1>3, <1>4 DEF IInv

(* The steps that leave every report as it is.                             *)
LEMMA QuietIInv ==
    ASSUME IInv, TypeOK',
           UNCHANGED <<graph, plan, status, caught, selected>>, ready' \subseteq ready
    PROVE  IInv'
BY DEF IInv, GraphJudged, HeldOnlyOfFailed, ChosenOnlyByDone, ReadyStands, RanInOrder, Ran,
       DependenciesSettled, RoutedTo, Answered

(* A node that had neither answered nor been handed over changes; what the *)
(* other nodes waited for stays as it was for them.                        *)
LEMMA SettledStays ==
    ASSUME IInv, NEW n \in Node, DependenciesSettled(n), RoutedTo(n),
           UNCHANGED <<graph, plan>>,
           \A d \in Node : Answered(d) => status'[d] = status[d],
           \A d \in Node : caught[d] = n => caught'[d] = n,
           \A s \in Node : selected[s] # None => selected'[s] = selected[s]
    PROVE  DependenciesSettled(n)' /\ RoutedTo(n)'
<1>1. plan.dependencies[n] \subseteq Node /\ plan.routedBy[n] \in Node \cup {None}
  BY DEF IInv, TypeOK, Plan
<1>2. DependenciesSettled(n)'
  BY <1>1 DEF DependenciesSettled, Answered
<1>3. n # None
  BY NAssumption DEF Node, None
<1>4. RoutedTo(n)'
  BY <1>1, <1>3 DEF RoutedTo
<1> QED
  BY <1>2, <1>4

(* A step that takes no answer, choice or held fault from a node that has  *)
(* run or is still to start, and starts only what was ready.               *)
LEMMA StepIInv ==
    ASSUME IInv, TypeOK', UNCHANGED <<graph, plan>>, HeldOnlyOfFailed', ChosenOnlyByDone',
           \A d \in Node : Answered(d) => status'[d] = status[d],
           \A s \in Node : selected[s] # None => selected'[s] = selected[s],
           \A n \in ready' : n \in ready /\ status'[n] \in {"pending", "cancelled"},
           \A n \in Node : Ran(n)' => Ran(n) \/ n \in ready,
           \A n \in Node : (Ran(n)' \/ n \in ready') =>
                              \A d \in Node : caught[d] = n => caught'[d] = n
    PROVE  IInv'
<1>1. ASSUME NEW n \in Node, Ran(n)' \/ n \in ready'
      PROVE  DependenciesSettled(n)' /\ RoutedTo(n)'
  <2>1. DependenciesSettled(n) /\ RoutedTo(n)
    BY <1>1 DEF IInv, ReadyStands, RanInOrder
  <2> QED
    BY <1>1, <2>1, SettledStays
<1>2. ready' \subseteq Node
  BY DEF TypeOK
<1> QED
  BY <1>1, <1>2 DEF IInv, GraphJudged, ReadyStands, RanInOrder

LEMMA LookIInv == ASSUME IInv, Look PROVE IInv'
<1>1. TypeOK'
  <2>1. status' \in [Node -> Statuses] /\ ending' \in {"none", "failed", "cancelled"}
    BY DEF IInv, TypeOK, Look, CancelRun, CancelPending, Ended, Statuses
  <2>2. ready' \in SUBSET Node /\ phase' \in {"look", "start", "wait", "over"}
    BY DEF Look
  <2> QED
    BY <2>1, <2>2 DEF IInv, TypeOK, Look
<1>2. \A n \in Node : /\ status[n] # "pending" => status'[n] = status[n]
                      /\ Ran(n)' => Ran(n)
  BY DEF IInv, TypeOK, Look, CancelRun, CancelPending, Ran
<1>3. \A n \in Node : Ran(n)' => DependenciesSettled(n)' /\ RoutedTo(n)'
  <2> SUFFICES ASSUME NEW n \in Node, Ran(n)' PROVE DependenciesSettled(n)' /\ RoutedTo(n)'
    OBVIOUS
  <2>1. DependenciesSettled(n) /\ RoutedTo(n)
    BY <1>2 DEF IInv, RanInOrder
  <2>2. \A d \in Node : Answered(d) => status'[d] = status[d]
    BY <1>2 DEF Answered
  <2> QED
    BY <2>1, <2>2, SettledStays DEF Look
<1>4. ReadyStands'
  <2> SUFFICES ASSUME NEW n \in ready', ~aborted
               PROVE  /\ status'[n] = "pending"
                      /\ DependenciesSettled(n)'
                      /\ RoutedTo(n)'
    BY DEF ReadyStands, Look
  <2> QED
    BY DEF Look, IsReady, DependenciesSettled, RoutedTo, Answered
<1> QED
  BY <1>1, <1>2, <1>3, <1>4
  DEF IInv, GraphJudged, HeldOnlyOfFailed, ChosenOnlyByDone, RanInOrder, Look

(* Beginning a node that was ready.                                        *)
LEMMA BeginIInv ==
    ASSUME IInv, NEW n \in Node, Start(n), Begin(n)
    PROVE  IInv'
<1>1. TypeOK'
  BY DEF IInv, TypeOK, Start, Begin, Statuses
<1>2. status[n] \in {"pending", "cancelled"}
  BY DEF IInv, ReadyStands, Start
<1>3. status' = [status EXCEPT ![n] = "running"] /\ status \in [Node -> Statuses]
  BY DEF Begin, IInv, TypeOK
<1> QED
  BY <1>1, <1>2, <1>3, StepIInv
  DEF IInv, ReadyStands, HeldOnlyOfFailed, ChosenOnlyByDone, Start, Begin, Answered, Ran

(* A switch that routes cancels only pending nodes, none of them ready: a  *)
(* target waits for the switch, and whatever is behind waits for a pending *)
(* node.                                                                   *)
LEMMA RouteIInv ==
    ASSUME IInv, NEW s \in Node, Start(s), s \in graph.switches,
           NEW to \in RoutesOf(s), Route(s, to)
    PROVE  IInv'
<1> DEFINE pending == PendingBut(s)
           from    == (TargetsOf(graph, s) \ {to}) \cap pending
           gone    == CancelledBy(s, to)
           after   == [n \in Node |-> IF n = s THEN "done"
                                      ELSE IF n \in gone THEN "cancelled" ELSE status[n]]
<1> USE DEF PendingBut
<1>1. gone \subseteq pending
  BY DownstreamStep DEF CancelledBy
<1>2. graph \in Graph /\ Judged(graph)
  BY GraphsAssumption DEF IInv, GraphJudged
<1>3. to \in Node \cup {None}
  <2>1. CASE HeldBy(s) # {}
    <3>1. PICK x \in HeldBy(s) : to = graph.catch[s][x]
      BY <2>1 DEF RoutesOf, CaughtRoute
    <3> QED
      BY <1>2, <3>1 DEF Graph, HeldBy
  <2>2. CASE HeldBy(s) = {}
    BY <1>2, <2>2 DEF RoutesOf, Graph
  <2> QED
    BY <2>1, <2>2
<1>4. /\ selected' = [selected EXCEPT ![s] = to]
      /\ settling' = Append(settling, s)
      /\ \/ status' = after /\ UNCHANGED <<caught, ending, enders>>
         \/ \E lost \in SUBSET Node :
              /\ \A x \in lost : caught[x] \in gone
              /\ caught' = [x \in Node |-> IF x \in lost THEN None ELSE caught[x]]
              /\ End(after, lost)
  <2>1. \A g \in SUBSET gone : {x \in Node : caught[x] \in g} \in SUBSET Node
    OBVIOUS
  <2> QED
    BY <2>1 DEF Route
<1>5. TypeOK'
  <2>1. selected' \in [Node -> Node \cup {None}] /\ settling' \in Seq(Node)
    BY <1>3, <1>4 DEF IInv, TypeOK
  <2>2. after \in [Node -> Statuses]
    BY DEF IInv, TypeOK, Statuses
  <2>3. /\ status' \in [Node -> Statuses] /\ caught' \in [Node -> Node \cup {None}]
        /\ ending' \in {"none", "failed", "cancelled"} /\ enders' \in SUBSET Node
    <3>1. CASE status' = after /\ UNCHANGED <<caught, ending, enders>>
      BY <3>1, <2>2 DEF IInv, TypeOK
    <3>2. ASSUME NEW lost \in SUBSET Node, End(after, lost),
                 caught' = [x \in Node |-> IF x \in lost THEN None ELSE caught[x]]
          PROVE  <2>3
      <4>1. status' \in [Node -> Statuses]
        BY <2>2, <3>2 DEF End, CancelPending, Statuses
      <4>2. caught' \in [Node -> Node \cup {None}]
        BY <3>2 DEF IInv, TypeOK
      <4> QED
        BY <3>2, <4>1, <4>2 DEF IInv, TypeOK, End, Ended
    <3> QED
      BY <1>4, <3>1, <3>2
  <2>4. ready' \in SUBSET Node /\ phase' \in {"look", "start", "wait", "over"}
    BY DEF IInv, TypeOK, Start
  <2> QED
    BY <2>1, <2>3, <2>4 DEF IInv, TypeOK, Start
<1>6. status[s] \in {"pending", "cancelled"}
  BY DEF IInv, ReadyStands, Start
<1>7. \A n \in Node \ {s} : /\ status[n] # "pending" => status'[n] = status[n]
                            /\ status[n] = "pending" => status'[n] \in {"pending", "cancelled"}
  BY <1>1, <1>4 DEF End, CancelPending
<1>8. status'[s] = "done"
  BY <1>4 DEF End, CancelPending
<1>9. ASSUME NEW n \in ready \ {s} PROVE n \notin gone
  <2>1. n \in Node /\ DependenciesSettled(n)
    BY DEF IInv, TypeOK, ReadyStands
  <2>2. plan.dependencies[n] \subseteq Node
    BY <2>1 DEF IInv, TypeOK, Plan
  <2>3. \A d \in plan.dependencies[n] : d # s /\ d \notin pending
    BY <1>6, <2>1, <2>2 DEF DependenciesSettled, Answered, IInv, HeldOnlyOfFailed, Node, None
  <2>4. n \notin from
    BY <2>1, <2>3, TargetsWait DEF IInv
  <2> QED
    BY <1>1, <2>3, <2>4, DownstreamStep DEF CancelledBy
<1>10. \A n \in Node : n \notin gone => \A d \in Node : caught[d] = n => caught'[d] = n
  BY <1>4
<1>11. HeldOnlyOfFailed'
  <2>1. \A n \in Node : caught'[n] # None => caught'[n] = caught[n]
    BY <1>4
  <2> QED
    BY <1>6, <1>7, <2>1 DEF IInv, HeldOnlyOfFailed
<1>12. ChosenOnlyByDone'
  BY <1>4, <1>7, <1>8 DEF IInv, TypeOK, ChosenOnlyByDone
<1>13. \A n \in Node : selected[n] # None => selected'[n] = selected[n]
  BY <1>4, <1>6 DEF IInv, TypeOK, ChosenOnlyByDone
<1>14. \A d \in Node : Answered(d) => status'[d] = status[d]
  BY <1>6, <1>7 DEF Answered
<1>15. \A n \in ready' : n \in ready \ {s} /\ status'[n] \in {"pending", "cancelled"}
  BY <1>7 DEF Start, IInv, TypeOK, ReadyStands
<1>16. \A n \in Node : Ran(n)' => n = s \/ Ran(n)
  BY <1>7 DEF Ran
<1>17. \A n \in Node : Ran(n)' \/ n \in ready' => n \notin gone
  BY <1>1, <1>9, <1>15, <1>16 DEF Ran
<1> QED
  BY <1>5, <1>10, <1>11, <1>12, <1>13, <1>14, <1>15, <1>16, <1>17, StepIInv DEF Start

(* A handler that settled: only the running node is written, beside what   *)
(* end() cancels, and nothing is still to start.                           *)
WritesOnly(n) ==
    /\ UNCHANGED <<graph, plan, ready, selected>>
    /\ status[n] = "running"
    /\ status'[n] = "failed" \/ (status'[n] = "done" /\ caught'[n] = None)
    /\ \A m \in Node \ {n} : /\ caught'[m] = caught[m]
                             /\ \/ status'[m] = status[m]
                                \/ status[m] = "pending" /\ status'[m] = "cancelled"

LEMMA SettleIInv == ASSUME IInv, TypeOK', NEW n \in Node, WritesOnly(n) PROVE IInv'
<1> USE DEF WritesOnly
<1>1. caught[n] = None /\ n \notin ready
  BY DEF IInv, HeldOnlyOfFailed, ReadyStands
<1>2. HeldOnlyOfFailed' /\ ChosenOnlyByDone'
  BY DEF IInv, HeldOnlyOfFailed, ChosenOnlyByDone
<1>3. \A m \in ready : m \in Node /\ status[m] \in {"pending", "cancelled"}
  BY DEF IInv, TypeOK, ReadyStands
<1>4. \A m \in Node : Ran(m)' => Ran(m)
  BY DEF Ran
<1>5. \A d \in Node : Answered(d) => status'[d] = status[d]
  BY DEF Answered
<1>6. \A m, d \in Node : caught[d] = m => caught'[d] = m
  BY <1>1, NAssumption DEF Node, None
<1>7. \A m \in ready' : m \in ready /\ status'[m] \in {"pending", "cancelled"}
  BY <1>1, <1>3
<1> QED
  BY <1>2, <1>4, <1>5, <1>6, <1>7, StepIInv

LEMMA HandlerIInv == ASSUME IInv, NEW n \in Node, Handler(n) PROVE IInv'
<1>1. CASE Finish(n)
  <2>1. TypeOK'
    BY <1>1 DEF IInv, TypeOK, Finish, Statuses
  <2>2. caught[n] = None
    BY <1>1 DEF IInv, HeldOnlyOfFailed, Finish
  <2>3. WritesOnly(n)
    BY <1>1, <2>2 DEF IInv, TypeOK, Finish, WritesOnly
  <2> QED
    BY <2>1, <2>3, SettleIInv
<1>2. CASE Fault(n)
  <2>1. plan.catchers[n] \in Node \cup {None}
    BY DEF IInv, TypeOK, Plan
  <2>2. TypeOK'
    <3>1. CatcherOf(n) \subseteq Node
      BY <2>1 DEF CatcherOf
    <3>2. settling' \in Seq(Node)
      BY <1>2 DEF IInv, TypeOK, Fault
    <3>3. /\ status' \in [Node -> Statuses] /\ caught' \in [Node -> Node \cup {None}]
          /\ ending' \in {"none", "failed", "cancelled"} /\ enders' \in SUBSET Node
      BY <1>2, <3>1 DEF IInv, TypeOK, Fault, End, Ended, CancelPending, Statuses
    <3> QED
      BY <1>2, <3>2, <3>3 DEF IInv, TypeOK, Fault
  <2>3. WritesOnly(n)
    BY <1>2 DEF IInv, TypeOK, Fault, End, CancelPending, WritesOnly
  <2> QED
    BY <2>2, <2>3, SettleIInv
<1>3. CASE Refuse(n)
  <2>1. TypeOK'
    BY <1>3 DEF IInv, TypeOK, Refuse, End, Ended, CancelPending, Statuses
  <2>2. WritesOnly(n)
    BY <1>3 DEF IInv, TypeOK, Refuse, End, CancelPending, WritesOnly
  <2> QED
    BY <2>1, <2>2, SettleIInv
<1> QED
  BY <1>1, <1>2, <1>3 DEF Handler

(* The abort listener cancels only pending nodes.                          *)
LEMMA AbortIInv == ASSUME IInv, Abort PROVE IInv'
<1>1. TypeOK'
  BY DEF IInv, TypeOK, Abort, CancelRun, CancelPending, Ended, Statuses
<1>2. \A n \in Node : \/ status'[n] = status[n]
                      \/ status[n] = "pending" /\ status'[n] = "cancelled"
  BY DEF IInv, TypeOK, Abort, CancelRun, CancelPending
<1>3. HeldOnlyOfFailed' /\ ChosenOnlyByDone'
  BY <1>2 DEF IInv, HeldOnlyOfFailed, ChosenOnlyByDone, Abort
<1>4. \A n \in Node : (Ran(n)' => Ran(n)) /\ (Answered(n) => status'[n] = status[n])
  BY <1>2 DEF Ran, Answered
<1>5. \A n \in ready : status'[n] \in {"pending", "cancelled"}
  BY <1>2 DEF IInv, TypeOK, ReadyStands
<1> QED
  BY <1>1, <1>3, <1>4, <1>5, StepIInv DEF Abort

LEMMA NextIInv == IInv /\ [Next]_vars => IInv'
<1> SUFFICES ASSUME IInv, [Next]_vars PROVE IInv'
  OBVIOUS
<1>1. CASE Look
  BY <1>1, LookIInv
<1>2. ASSUME NEW n \in Node, Start(n) PROVE IInv'
  <2>1. CASE Begin(n)
    BY <1>2, <2>1, BeginIInv
  <2>2. CASE n \in graph.switches /\ \E to \in RoutesOf(n) : Route(n, to)
    BY <1>2, <2>2, RouteIInv
  <2> QED
    BY <1>2, <2>1, <2>2 DEF Start
<1>3. CASE Settle
  <2>1. Head(settling) \in Node /\ Tail(settling) \in Seq(Node)
    BY <1>3 DEF Settle, IInv, TypeOK
  <2>2. TypeOK'
    BY <1>3, <2>1 DEF Settle, IInv, TypeOK
  <2> QED
    BY <1>3, <2>2, QuietIInv DEF Settle
<1>4. CASE Resume
  <2>1. TypeOK'
    BY <1>4 DEF Resume, IInv, TypeOK
  <2> QED
    BY <1>4, <2>1, QuietIInv DEF Resume
<1>5. CASE Abort
  BY <1>5, AbortIInv
<1>6. ASSUME NEW n \in Node, Handler(n) PROVE IInv'
  BY <1>6, HandlerIInv
<1>7. CASE UNCHANGED vars
  <2>1. TypeOK'
    BY <1>7 DEF vars, IInv, TypeOK
  <2> QED
    BY <1>7, <2>1, QuietIInv DEF vars
<1> QED
  BY <1>1, <1>2, <1>3, <1>4, <1>5, <1>6, <1>7 DEF Next, Scheduler, Over

(* Every state of every run has its type (run.ts: a node's report is only  *)
(* ever one of the statuses spec.ts names).                                *)
THEOREM TypeCorrect == Spec => []TypeOK
<1>1. IInv => TypeOK
  BY DEF IInv
<1> QED
  BY <1>1, InitIInv, NextIInv, PTL DEF Spec

(* Whatever the graph, the handlers' timing and the aborts: a node that ran*)
(* did so after everything it waits for had answered, or had broken with a *)
(* fault handed to it, and only where its switch sent the run.             *)
THEOREM RunsInOrder == Spec => []RanInOrder
<1>1. IInv => RanInOrder
  BY DEF IInv
<1> QED
  BY <1>1, InitIInv, NextIInv, PTL DEF Spec

-----------------------------------------------------------------------------
(* Where faults and choices lead: a second invariant, inductive beside the *)
(* first.  A fault is held by the switch the plan names.                   *)
CaughtByItsCatcher == \A n \in Node : caught[n] # None => caught[n] = plan.catchers[n]

(* A run that ended has cancelled whatever was pending.                    *)
NonePendingOnceEnded == ending # "none" => \A n \in Node : status[n] # "pending"

(* A switch that is done chose one of its targets.                         *)
DoneChose ==
    \A s \in graph.switches : status[s] = "done" => selected[s] \in TargetsOf(graph, s)

(* A node the run will not start, or was spared.                           *)
Left(n) == status[n] \in {"cancelled", "seeded"}

(* While the run goes on, what a switch did not choose is left, and so is  *)
(* whatever waits for a cancelled node.                                    *)
UnchosenLeft ==
    ending = "none" =>
        \A s \in graph.switches : status[s] = "done" =>
            \A t \in TargetsOf(graph, s) \ {selected[s]} : Left(t)

BehindCancelledLeft ==
    ending = "none" =>
        \A n \in Node : \A d \in plan.dependencies[n] : status[d] = "cancelled" => Left(n)

(* Who refused, failed; who is seeded was so from the start.               *)
RefusedFailed == refused \subseteq Failed

SeededWere == \A n \in Node : status[n] = "seeded" => n \in graph.seeded

(* A run is over only at quiescence.                                       *)
NothingReadyOnceOver == phase = "over" => Running = {} /\ \A n \in Node : ~IsReady(n)

RoutingInv ==
    /\ CaughtByItsCatcher /\ NonePendingOnceEnded /\ DoneChose /\ FaultsHeld
    /\ UnchosenLeft /\ BehindCancelledLeft
    /\ RefusedFailed /\ SeededWere
    /\ NothingReadyOnceOver

(* A switch routes to one of its targets.                                  *)
LEMMA RoutesAreTargets ==
    ASSUME GraphJudged, CaughtByItsCatcher, NEW s \in graph.switches, NEW to \in RoutesOf(s)
    PROVE  to \in TargetsOf(graph, s)
<1>1. CASE HeldBy(s) # {}
  <2>1. PICK x \in HeldBy(s) : to = graph.catch[s][x]
    BY <1>1 DEF RoutesOf, CaughtRoute
  <2>2. s # None
    BY GraphsAssumption, NAssumption DEF GraphJudged, Graph, Node, None
  <2>3. x \in Node /\ plan.catchers[x] = s
    BY <2>1, <2>2 DEF HeldBy, CaughtByItsCatcher
  <2>4. x \in Caught(graph, s)
    BY <2>2, <2>3, CatcherCatches
  <2> QED
    BY <2>1, <2>4 DEF TargetsOf
<1>2. CASE HeldBy(s) = {}
  BY <1>2 DEF RoutesOf, TargetsOf
<1> QED
  BY <1>1, <1>2

LEMMA InitRoutingInv == Init => RoutingInv
<1> SUFFICES ASSUME Init PROVE RoutingInv
  OBVIOUS
<1>1. graph \in Graph /\ plan \in Plan
  BY PlanType DEF Init, GraphJudged
<1> QED
  BY <1>1
  DEF Graph, Plan, Init, RoutingInv, CaughtByItsCatcher, NonePendingOnceEnded, DoneChose,
       FaultsHeld, Failed,
       UnchosenLeft, BehindCancelledLeft, SeededWere, RefusedFailed, NothingReadyOnceOver

(* Looking again writes nothing, or cancels what is pending.               *)
LEMMA LookRoutingInv == ASSUME IInv, RoutingInv, Look PROVE RoutingInv'
<1> USE DEF RoutingInv
<1>1. UNCHANGED <<graph, plan, caught, selected, refused, settling>>
  BY DEF Look
<1>2. status \in [Node -> Statuses] /\ ending \in {"none", "failed", "cancelled"}
  BY DEF IInv, TypeOK
<1>3. CASE aborted
  <2>1. ending' # "none" /\ status' = CancelPending(status)
    BY <1>2, <1>3 DEF Look, CancelRun, Ended
  <2>2. \A n \in Node : /\ status'[n] # "pending"
                        /\ status'[n] \in {"done", "seeded", "running"} => status'[n] = status[n]
                        /\ status[n] # "pending" => status'[n] = status[n]
    BY <1>2, <2>1 DEF CancelPending
  <2>3. CaughtByItsCatcher' /\ NonePendingOnceEnded' /\ SeededWere' /\ RefusedFailed'
    BY <1>1, <2>2 DEF CaughtByItsCatcher, NonePendingOnceEnded, SeededWere, RefusedFailed, Failed
  <2>4. DoneChose'
    <3>1. graph.switches \subseteq Node
      BY PlanType DEF IInv, Graph
    <3> QED
      BY <1>1, <2>2, <3>1 DEF DoneChose
  <2>5. FaultsHeld' /\ UnchosenLeft' /\ BehindCancelledLeft'
    BY <2>1 DEF FaultsHeld, UnchosenLeft, BehindCancelledLeft
  <2>6. NothingReadyOnceOver'
    <3>1. phase' = "over" => Running = {}
      BY <1>3 DEF Look
    <3>2. Running = {} => Running' = {}
      BY <1>1, <2>2 DEF Running
    <3> QED
      BY <2>1, <3>1, <3>2 DEF NothingReadyOnceOver, IsReady
  <2> QED
    BY <2>3, <2>4, <2>5, <2>6
<1>4. CASE ~aborted
  <2>1. UNCHANGED <<ending, status>>
    BY <1>4 DEF Look
  <2>2. NothingReadyOnceOver'
    <3>1. phase' = "over" => Running = {} /\ {n \in Node : IsReady(n)} = {}
      BY <1>4 DEF Look
    <3>2. Running' = Running
      BY <1>1, <2>1 DEF Running
    <3>3. \A n \in Node : IsReady(n)' <=> IsReady(n)
      BY <1>1, <2>1 DEF IsReady, DependenciesSettled, RoutedTo, Answered
    <3> QED
      BY <3>1, <3>2, <3>3 DEF NothingReadyOnceOver
  <2> QED
    BY <1>1, <2>1, <2>2
    DEF CaughtByItsCatcher, NonePendingOnceEnded, DoneChose, FaultsHeld, Failed,
        CaughtRoute, HeldBy, UnchosenLeft, BehindCancelledLeft, Left, SeededWere, RefusedFailed
<1> QED
  BY <1>3, <1>4

(* A node that begins had not run; a switch that begins holds no fault.    *)
LEMMA BeginRoutingInv ==
    ASSUME IInv, RoutingInv, NEW n \in Node, Start(n), Begin(n),
           n \in graph.switches => HeldBy(n) = {}
    PROVE  RoutingInv'
<1> USE DEF RoutingInv
<1>1. UNCHANGED <<graph, plan, caught, selected, refused, ending>>
  BY DEF Start, Begin
<1>2. /\ status \in [Node -> Statuses] /\ graph.switches \subseteq Node
      /\ plan.dependencies \in [Node -> SUBSET Node]
  BY PlanType DEF IInv, TypeOK, Graph, Plan
<1>3. status' = [status EXCEPT ![n] = "running"]
  BY DEF Begin
<1>4. n \in ready /\ status[n] \in {"pending", "cancelled"} /\ DependenciesSettled(n) /\ RoutedTo(n)
  BY DEF Start, IInv, ReadyStands
<1>5. CaughtByItsCatcher' /\ NonePendingOnceEnded' /\ SeededWere' /\ RefusedFailed' /\ DoneChose'
  BY <1>1, <1>2, <1>3, <1>4
  DEF CaughtByItsCatcher, NonePendingOnceEnded, SeededWere, RefusedFailed, Failed, DoneChose
<1>6. FaultsHeld'
  <2> SUFFICES ASSUME ending = "none", NEW x \in Failed'
               PROVE  /\ x \notin refused
                      /\ caught[x] \in graph.switches
                      /\ \/ status'[caught[x]] = "pending"
                         \/ /\ status'[caught[x]] = "done"
                            /\ selected[caught[x]] \in CaughtRoute(caught[x])
    BY <1>1 DEF FaultsHeld, CaughtRoute, HeldBy
  <2>1. x \in Failed
    BY <1>2, <1>3 DEF Failed
  <2>2. caught[x] # n
    BY <2>1 DEF FaultsHeld, HeldBy, Failed
  <2> QED
    BY <1>2, <1>3, <2>1, <2>2 DEF FaultsHeld
<1>7. UnchosenLeft'
  <2> SUFFICES ASSUME ending = "none", NEW s \in graph.switches, status'[s] = "done",
                      NEW t \in TargetsOf(graph, s) \ {selected[s]}
               PROVE  Left(t)'
    BY <1>1 DEF UnchosenLeft
  <2>1. t \in Node /\ plan.routedBy[t] = s
    BY TargetsWait DEF IInv
  <2>2. s # None
    BY <1>2, NAssumption DEF Node, None
  <2>3. t # n
    BY <1>4, <2>1, <2>2 DEF RoutedTo
  <2> QED
    BY <1>2, <1>3, <2>1, <2>3 DEF UnchosenLeft, Left
<1>8. BehindCancelledLeft'
  <2> SUFFICES ASSUME ending = "none", NEW m \in Node, NEW d \in plan.dependencies[m],
                      status'[d] = "cancelled"
               PROVE  Left(m)'
    BY <1>1 DEF BehindCancelledLeft
  <2>1. d \in Node /\ status[d] = "cancelled"
    BY <1>2, <1>3
  <2>2. m # n
    BY <1>4, <2>1, NAssumption DEF DependenciesSettled, Answered, IInv, HeldOnlyOfFailed, None, Node
  <2> QED
    BY <1>2, <1>3, <2>1, <2>2 DEF BehindCancelledLeft, Left
<1>9. NothingReadyOnceOver'
  BY DEF NothingReadyOnceOver, Start
<1> QED
  BY <1>5, <1>6, <1>7, <1>8, <1>9

(* A switch that routes cancels its other targets and whatever is pending  *)
(* behind them; in a run that goes on, none of these held a fault.         *)
LEMMA RouteRoutingInv ==
    ASSUME IInv, RoutingInv, IInv', NEW s \in Node, Start(s), s \in graph.switches,
           NEW to \in RoutesOf(s), Route(s, to)
    PROVE  RoutingInv'
<1> DEFINE pending == PendingBut(s)
           gone    == CancelledBy(s, to)
           after   == [n \in Node |-> IF n = s THEN "done"
                                      ELSE IF n \in gone THEN "cancelled" ELSE status[n]]
<1> USE DEF RoutingInv
<1>1. UNCHANGED <<graph, plan, refused>> /\ selected' = [selected EXCEPT ![s] = to]
  BY DEF Start, Route
<1>2. /\ status \in [Node -> Statuses] /\ graph.switches \subseteq Node
      /\ plan.dependencies \in [Node -> SUBSET Node]
      /\ selected \in [Node -> Node \cup {None}]
      /\ caught \in [Node -> Node \cup {None}]
      /\ ending \in {"none", "failed", "cancelled"}
  BY PlanType DEF IInv, TypeOK, Graph, Plan
<1>3. gone \subseteq pending
  BY DownstreamStep DEF CancelledBy
<1>4. /\ s \in ready /\ status[s] \in {"pending", "cancelled"}
      /\ DependenciesSettled(s) /\ RoutedTo(s)
  BY DEF Start, IInv, ReadyStands
<1>5. /\ \A n \in Node : caught'[n] # None => caught'[n] = caught[n]
      /\ \/ status' = after /\ ending' = ending /\ caught' = caught
            /\ \A x \in Node : caught[x] \notin gone
         \/ status' = CancelPending(after) /\ ending' = Ended("failed")
  BY <1>2 DEF Route, End
<1>6. /\ status'[s] = "done"
      /\ \A n \in Node : /\ status'[n] = "pending" => status[n] = "pending"
                         /\ n # s /\ status[n] # "pending" => status'[n] = status[n]
                         /\ status'[n] \notin {"done", "cancelled"} => status'[n] = status[n]
                         /\ n # s /\ status'[n] = "done" => status[n] = "done"
  BY <1>3, <1>5 DEF CancelPending, PendingBut
<1>7. CaughtByItsCatcher'
  BY <1>1, <1>5 DEF CaughtByItsCatcher
<1>8. NonePendingOnceEnded'
  <2>1. CASE status' = CancelPending(after)
    BY <2>1 DEF CancelPending, NonePendingOnceEnded
  <2>2. CASE ending' = ending
    BY <1>6, <2>2 DEF NonePendingOnceEnded
  <2> QED
    BY <1>5, <2>1, <2>2
<1>9. SeededWere' /\ RefusedFailed'
  BY <1>1, <1>4, <1>6 DEF SeededWere, RefusedFailed, Failed
<1>10. to \in TargetsOf(graph, s)
  BY RoutesAreTargets DEF IInv
<1>11. DoneChose'
  BY <1>1, <1>2, <1>6, <1>10 DEF DoneChose
<1>12. ASSUME ending' = "none" PROVE FaultsHeld' /\ UnchosenLeft' /\ BehindCancelledLeft'
  <2>1. /\ status' = after /\ ending = "none" /\ caught' = caught
        /\ \A x \in Node : caught[x] \notin gone
    BY <1>2, <1>5, <1>12 DEF Ended
  <2>2. FaultsHeld'
    <3> SUFFICES ASSUME NEW x \in Failed'
                 PROVE  /\ x \notin refused
                        /\ caught[x] \in graph.switches
                        /\ \/ status'[caught[x]] = "pending"
                           \/ /\ status'[caught[x]] = "done"
                              /\ selected'[caught[x]] \in CaughtRoute(caught[x])
      BY <1>1, <2>1 DEF FaultsHeld, CaughtRoute, HeldBy
    <3>1. x \in Failed /\ x \in Node
      BY <1>2, <1>4, <1>6 DEF Failed
    <3>2. CASE caught[x] = s
      <4>1. to \in CaughtRoute(s)
        BY <3>1, <3>2 DEF RoutesOf, HeldBy
      <4> QED
        BY <1>1, <1>2, <1>6, <2>1, <3>1, <3>2, <4>1 DEF FaultsHeld
    <3>3. CASE caught[x] # s
      <4>1. caught[x] \in Node /\ caught[x] \notin gone
        BY <1>2, <2>1, <3>1 DEF FaultsHeld
      <4> QED
        BY <1>1, <1>2, <2>1, <3>1, <3>3, <4>1 DEF FaultsHeld
    <3> QED
      BY <3>2, <3>3
  <2>3. UnchosenLeft'
    <3> SUFFICES ASSUME NEW r \in graph.switches, status'[r] = "done",
                        NEW t \in TargetsOf(graph, r) \ {selected'[r]}
                 PROVE  status'[t] \in {"cancelled", "seeded"}
      BY <1>1 DEF UnchosenLeft, Left
    <3>1. t \in Node /\ plan.routedBy[t] = r
      BY TargetsWait DEF IInv
    <3>2. r \in Node /\ r # None
      BY <1>2, NAssumption DEF Node, None
    <3>3. CASE r = s
      <4>1. selected'[r] # t
        OBVIOUS
      <4>2. t # s /\ ~Ran(t)
        <5>1. ~RoutedTo(t)
          BY <1>2, <1>4, <3>1, <3>2, <3>3 DEF RoutedTo, IInv, ChosenOnlyByDone, Node, None
        <5> QED
          BY <1>4, <3>1, <5>1 DEF IInv, RanInOrder
      <4>3. status[t] = "pending" => t \in gone
        BY <1>1, <1>2, <3>1, <3>3, <4>1, <4>2, DownstreamClosed DEF CancelledBy, PendingBut
      <4> QED
        BY <1>2, <2>1, <3>1, <4>2, <4>3 DEF Ran, Statuses
    <3>4. CASE r # s
      <4>1. status[r] = "done" /\ selected'[r] = selected[r]
        BY <1>1, <1>2, <1>6, <3>2, <3>4
      <4>2. Left(t)
        BY <2>1, <4>1 DEF UnchosenLeft
      <4>3. t # s
        BY <1>4, <3>1, <3>2, <4>1 DEF RoutedTo
      <4> QED
        BY <1>6, <3>1, <4>2, <4>3 DEF Left
    <3> QED
      BY <3>3, <3>4
  <2>4. BehindCancelledLeft'
    <3> SUFFICES ASSUME NEW m \in Node, NEW d \in plan.dependencies[m],
                        status'[d] = "cancelled"
                 PROVE  status'[m] \in {"cancelled", "seeded"}
      BY <1>1 DEF BehindCancelledLeft, Left
    <3>1. d \in Node /\ d # s /\ (status[d] = "cancelled" \/ d \in gone)
      BY <1>2, <1>6, <2>1
    <3>2. status[d] \in {"pending", "cancelled"}
      BY <1>3, <3>1 DEF PendingBut
    <3>3. ~DependenciesSettled(m)
      BY <3>1, <3>2, NAssumption DEF DependenciesSettled, Answered, IInv, HeldOnlyOfFailed, None, Node
    <3>4. m # s /\ ~Ran(m)
      BY <1>4, <3>3 DEF IInv, RanInOrder
    <3>5. CASE status[d] = "cancelled"
      BY <1>6, <2>1, <3>4, <3>5 DEF BehindCancelledLeft, Left
    <3>6. CASE d \in gone
      <4>1. status[m] = "pending" => m \in gone
        BY <3>4, <3>6, DownstreamClosed DEF CancelledBy, PendingBut
      <4> QED
        BY <1>2, <2>1, <3>4, <4>1 DEF Ran, Statuses
    <3> QED
      BY <3>1, <3>5, <3>6
  <2> QED
    BY <2>2, <2>3, <2>4
<1>13. FaultsHeld' /\ UnchosenLeft' /\ BehindCancelledLeft'
  BY <1>12 DEF FaultsHeld, UnchosenLeft, BehindCancelledLeft
<1>14. NothingReadyOnceOver'
  BY DEF NothingReadyOnceOver, Start
<1> QED
  BY <1>7, <1>8, <1>9, <1>11, <1>13, <1>14

(* A fault is handed to a switch that is still to route.                   *)
LEMMA HandlerRoutingInv == ASSUME IInv, RoutingInv, NEW n \in Node, Handler(n) PROVE RoutingInv'
<1> USE DEF RoutingInv
<1>1. /\ UNCHANGED <<graph, plan, selected>> /\ phase' = phase /\ phase = "wait"
      /\ status[n] = "running"
  BY DEF Handler, Finish, Fault, Refuse
<1>2. /\ status \in [Node -> Statuses] /\ graph.switches \subseteq Node
      /\ plan.dependencies \in [Node -> SUBSET Node]
      /\ caught \in [Node -> Node \cup {None}]
      /\ plan.catchers \in [Node -> Node \cup {None}]
      /\ ending \in {"none", "failed", "cancelled"}
  BY PlanType DEF IInv, TypeOK, Graph, Plan
<1>3. /\ status'[n] \in {"done", "failed"} /\ (status'[n] = "done" => n \notin graph.switches)
      /\ \A m \in Node \ {n} : \/ status'[m] = status[m]
                               \/ ending' # "none" /\ status[m] = "pending" /\ status'[m] = "cancelled"
      /\ ending # "none" => ending' # "none"
  BY <1>2 DEF Handler, Finish, Fault, Refuse, End, Ended, CancelPending
<1>4. CaughtByItsCatcher'
  BY <1>1, <1>2 DEF Handler, Finish, Fault, Refuse, CatcherOf, CaughtByItsCatcher
<1>5. NonePendingOnceEnded'
  BY <1>2, <1>3 DEF Handler, Finish, Fault, Refuse, End, CancelPending, NonePendingOnceEnded
<1>6. SeededWere' /\ DoneChose' /\ NothingReadyOnceOver'
  BY <1>1, <1>2, <1>3 DEF SeededWere, DoneChose, NothingReadyOnceOver
<1>9. RefusedFailed'
  <2>1. Failed \subseteq Failed'
    BY <1>1, <1>3 DEF Failed
  <2> QED
    BY <1>2, <2>1 DEF Handler, Finish, Fault, Refuse, End, CancelPending, RefusedFailed, Failed
<1>7. ASSUME ending' = "none" PROVE FaultsHeld' /\ UnchosenLeft' /\ BehindCancelledLeft'
  <2>1. ending = "none" /\ \A m \in Node \ {n} : status'[m] = status[m]
    BY <1>3, <1>7
  <2>2. FaultsHeld'
    <3>1. \A x \in Failed : caught[x] # n /\ x # n
      BY <1>1, <2>1 DEF FaultsHeld, Failed
    <3>2. CASE Finish(n)
      <4>1. Failed' = Failed
        BY <1>1, <1>2, <3>2 DEF Finish, Failed
      <4> QED
        BY <1>1, <1>2, <2>1, <3>1, <3>2, <4>1 DEF Finish, FaultsHeld, CaughtRoute, HeldBy
    <3>3. CASE Fault(n)
      <4>1. PICK s \in CatcherOf(n) : /\ caught' = [caught EXCEPT ![n] = s]
                                      /\ status' = [status EXCEPT ![n] = "failed"]
        BY <1>2, <1>7, <3>3 DEF Fault, End, Ended
      <4>2. s \in graph.switches /\ s \in Node /\ status[s] = "pending" /\ s # n
        BY <1>1, <2>1, CatcherCatches DEF CatcherOf, IInv
      <4>3. Failed' = Failed \cup {n}
        BY <1>2, <4>1 DEF Failed
      <4>4. n \notin refused /\ refused' = refused
        BY <1>1, <3>3 DEF Fault, RefusedFailed, Failed
      <4>5. \A x \in Failed : caught'[x] = caught[x]
        BY <1>2, <3>1, <4>1 DEF Failed
      <4>6. \A r \in Node : r # s => CaughtRoute(r)' = CaughtRoute(r)
        <5>1. caught[n] = None
          BY <1>1 DEF IInv, HeldOnlyOfFailed
        <5>2. \A r \in Node : r # s => HeldBy(r)' = HeldBy(r)
          BY <1>2, <4>1, <5>1, NAssumption DEF HeldBy, Node, None
        <5> QED
          BY <1>1, <5>2 DEF CaughtRoute
      <4> QED
        BY <1>1, <1>2, <2>1, <3>1, <4>1, <4>2, <4>3, <4>4, <4>5, <4>6 DEF FaultsHeld
    <3>4. CASE Refuse(n)
      BY <1>2, <1>7, <3>4 DEF Refuse, End, Ended
    <3> QED
      BY <3>2, <3>3, <3>4 DEF Handler
  <2>3. UnchosenLeft'
    BY <1>1, <1>2, <1>3, <2>1, TargetsWait DEF UnchosenLeft, Left, IInv
  <2>4. BehindCancelledLeft'
    BY <1>1, <1>2, <1>3, <2>1 DEF BehindCancelledLeft, Left
  <2> QED
    BY <2>2, <2>3, <2>4
<1>8. FaultsHeld' /\ UnchosenLeft' /\ BehindCancelledLeft'
  BY <1>7 DEF FaultsHeld, UnchosenLeft, BehindCancelledLeft
<1> QED
  BY <1>4, <1>5, <1>6, <1>8, <1>9

(* The abort listener cancels what is pending; the run has ended then.     *)
LEMMA AbortRoutingInv == ASSUME IInv, RoutingInv, Abort PROVE RoutingInv'
<1> USE DEF RoutingInv
<1>1. /\ UNCHANGED <<graph, plan, caught, selected, refused, phase>> /\ phase = "wait"
      /\ status \in [Node -> Statuses] /\ ending' # "none" /\ status' = CancelPending(status)
  BY DEF IInv, TypeOK, Abort, CancelRun, Ended
<1>2. \A n \in Node : /\ status'[n] # "pending"
                      /\ status'[n] \in {"done", "seeded"} => status'[n] = status[n]
                      /\ status[n] # "pending" => status'[n] = status[n]
  BY <1>1 DEF CancelPending
<1>3. CaughtByItsCatcher' /\ NonePendingOnceEnded' /\ SeededWere' /\ RefusedFailed'
  BY <1>1, <1>2 DEF CaughtByItsCatcher, NonePendingOnceEnded, SeededWere, RefusedFailed, Failed
<1>4. DoneChose'
  <2>1. graph.switches \subseteq Node
    BY PlanType DEF IInv, Graph
  <2> QED
    BY <1>1, <1>2, <2>1 DEF DoneChose
<1>5. FaultsHeld' /\ UnchosenLeft' /\ BehindCancelledLeft' /\ NothingReadyOnceOver'
  BY <1>1 DEF FaultsHeld, UnchosenLeft, BehindCancelledLeft, NothingReadyOnceOver
<1> QED
  BY <1>3, <1>4, <1>5

LEMMA NextRoutingInv == IInv /\ IInv' /\ RoutingInv /\ [Next]_vars => RoutingInv'
<1> SUFFICES ASSUME IInv, IInv', RoutingInv, [Next]_vars PROVE RoutingInv'
  OBVIOUS
<1>1. CASE Look
  BY <1>1, LookRoutingInv
<1>2. ASSUME NEW n \in Node, Start(n) PROVE RoutingInv'
  <2>1. n \in graph.switches /\ (\E to \in RoutesOf(n) : Route(n, to)) => RoutingInv'
    BY <1>2, RouteRoutingInv
  <2>2. Begin(n) /\ (n \in graph.switches => HeldBy(n) = {}) => RoutingInv'
    BY <1>2, BeginRoutingInv
  <2> QED
    BY <1>2, <2>1, <2>2 DEF Start
<1>3. ASSUME UNCHANGED <<graph, plan, status, caught, selected, refused, ending>>, phase' # "over"
      PROVE  RoutingInv'
  BY <1>3 DEF RoutingInv, CaughtByItsCatcher, NonePendingOnceEnded, DoneChose, FaultsHeld, Failed,
              CaughtRoute, HeldBy, UnchosenLeft, BehindCancelledLeft, Left, SeededWere,
              RefusedFailed, NothingReadyOnceOver
<1>4. CASE Settle
  BY <1>3, <1>4 DEF Settle
<1>5. CASE Resume
  BY <1>3, <1>5 DEF Resume
<1>6. CASE Abort
  BY <1>6, AbortRoutingInv
<1>7. ASSUME NEW n \in Node, Handler(n) PROVE RoutingInv'
  BY <1>7, HandlerRoutingInv
<1>8. CASE UNCHANGED vars
  BY <1>8 DEF vars, RoutingInv, CaughtByItsCatcher, NonePendingOnceEnded, DoneChose, FaultsHeld, Failed,
              CaughtRoute, HeldBy, UnchosenLeft, BehindCancelledLeft, Left, SeededWere,
              RefusedFailed, NothingReadyOnceOver, Running, IsReady, DependenciesSettled, RoutedTo,
              Answered
<1> QED
  BY <1>1, <1>2, <1>4, <1>5, <1>6, <1>7, <1>8 DEF Next, Scheduler, Over

(* Both invariants hold of every run.                                      *)
LEMMA BothHold == Spec => [](IInv /\ RoutingInv)
BY InitIInv, NextIInv, InitRoutingInv, NextRoutingInv, PTL DEF Spec

(* While a run goes on every node that failed broke, and a switch holds its*)
(* fault: one still to route, or one that went where its first fault goes  *)
(* (run.ts: fail, catcherOf, runSwitch).                                   *)
THEOREM NoFaultIsDropped == Spec => []FaultsHeld
<1>1. RoutingInv => FaultsHeld
  BY DEF RoutingInv
<1> QED
  BY <1>1, BothHold, PTL

(* The foremost node of an unchosen branch that ran would have run before  *)
(* its turn.                                                               *)
LEMMA BranchRuns == IInv /\ RoutingInv => OneBranchRuns
<1> SUFFICES ASSUME IInv, RoutingInv, graph.seeded = {}, NEW s \in graph.switches,
                    NEW m \in Downstream(plan, TargetsOf(graph, s) \ {selected[s]}, Node), Ran(m)
             PROVE  FALSE
  BY DEF OneBranchRuns
<1> DEFINE from == TargetsOf(graph, s) \ {selected[s]}
           D == Downstream(plan, from, Node)
           S == {x \in D : Ran(x)}
<1>1. GraphJudged /\ RanInOrder /\ HeldOnlyOfFailed
  BY DEF IInv
<1>2. from \subseteq Node /\ s \in Node
  BY <1>1, TargetsWait, PlanType DEF Graph
<1>11. /\ \A x \in D : x \in from \cup Node
       /\ \A x \in D : x \in from \/ plan.dependencies[x] \cap D # {}
  <2>1. SUFFICES ASSUME NEW x \in D
                 PROVE  x \in from \cup Node /\ (x \in from \/ plan.dependencies[x] \cap D # {})
    OBVIOUS
  <2> HIDE DEF from
  <2> QED
    BY DownstreamStep
<1>3. S \in SUBSET Node /\ S # {}
  <2>1. D \subseteq Node
    BY <1>2, <1>11
  <2>2. m \in S
    OBVIOUS
  <2> QED
    BY <2>1, <2>2
<1>4. PICK n \in S : plan.dependencies[n] \cap S = {}
  BY <1>1, <1>3, FirstOf
<1>5. n \in Node /\ DependenciesSettled(n) /\ RoutedTo(n)
  BY <1>1, <1>3, <1>4 DEF RanInOrder
<1>6. n \notin from
  BY <1>1, <1>2, <1>5, TargetsWait, NAssumption DEF RoutedTo, Node, None
<1>7. PICK d \in plan.dependencies[n] : d \in D
  BY <1>4, <1>6, <1>11
<1>8. d \in Node /\ ~Ran(d)
  BY <1>2, <1>4, <1>7, <1>11
<1>9. Answered(d) \/ caught[d] = n
  BY <1>5, <1>7 DEF DependenciesSettled
<1>10. caught[d] = n => status[d] = "failed"
  BY <1>1, <1>5, <1>8, NAssumption DEF HeldOnlyOfFailed, Node, None
<1> QED
  BY <1>8, <1>9, <1>10 DEF Ran, Answered, RoutingInv, SeededWere

(* Whatever the graph: of a switch's branches only the chosen one runs, and*)
(* nothing far behind the others does (run.ts: routedTo, isReady).         *)
THEOREM OneBranchOnly == Spec => []OneBranchRuns
BY BothHold, BranchRuns, PTL

(* Take a pending node that is behind no other unexplained one.  It waits  *)
(* for a broken node whose switch routed elsewhere (the switch, were it    *)
(* pending, would come first); by the judge it is behind a target other    *)
(* than the one the fault went to, and everything there is cancelled.      *)
LEMMA StuckOnRoots == IInv /\ RoutingInv => StuckOnlyOnRoots
<1> DEFINE pending == {n \in Node : status[n] = "pending"}
           D == Downstream(plan, graph.unsupplied \cup Overlooked, Node)
           S == pending \ D
           B == Downstream(plan, graph.switches, Node)
<1> SUFFICES ASSUME IInv, RoutingInv, phase = "over", ending = "none", graph.seeded \cap B = {},
                    S # {}
             PROVE  FALSE
  BY DEF StuckOnlyOnRoots
<1> USE DEF RoutingInv
<1>1. GraphJudged /\ graph \in Graph /\ RanInOrder /\ HeldOnlyOfFailed /\ ChosenOnlyByDone
  BY PlanType DEF IInv
<1>2. /\ status \in [Node -> Statuses] /\ graph.switches \subseteq Node
      /\ plan.dependencies \in [Node -> SUBSET Node]
      /\ plan.routedBy \in [Node -> Node \cup {None}]
      /\ None \notin Node
  BY <1>1, NAssumption DEF IInv, TypeOK, Graph, Plan, Node, None
<1>3. /\ graph.unsupplied \subseteq D /\ Overlooked \subseteq D
      /\ \A n \in Node : plan.dependencies[n] \cap D # {} => n \in D
  BY DownstreamClosed
<1>4. /\ graph.switches \subseteq B
      /\ \A n \in Node : plan.dependencies[n] \cap B # {} => n \in B
  BY DownstreamClosed
<1>5. PICK n \in S : \A m \in S : n \in Behind(plan, m) => m = n
  <2>1. S \in SUBSET Node
    OBVIOUS
  <2> HIDE DEF S
  <2> QED
    BY <1>1, <2>1, Foremost
<1>6. n \in Node /\ status[n] = "pending" /\ n \notin D
  BY <1>5
<1>7. \A m \in Node : plan.dependencies[n] \cap {m} # {} => n \in Behind(plan, m)
  <2> SUFFICES ASSUME NEW m \in Node, m \in plan.dependencies[n] PROVE n \in Behind(plan, m)
    OBVIOUS
  <2> QED
    BY <1>6, DownstreamClosed DEF Behind
<1>8. \A d \in plan.dependencies[n] : d \in Node /\ status[d] # "pending" /\ status[d] # "running"
                                      /\ status[d] # "cancelled"
  <2> SUFFICES ASSUME NEW d \in plan.dependencies[n]
               PROVE  d \in Node /\ status[d] # "pending" /\ status[d] # "running"
                                 /\ status[d] # "cancelled"
    OBVIOUS
  <2>1. d \in Node /\ d \notin D
    BY <1>2, <1>3, <1>6
  <2>2. status[d] # "running"
    BY <2>1 DEF NothingReadyOnceOver, Running
  <2>3. status[d] # "cancelled"
    BY <1>6, <2>1 DEF BehindCancelledLeft, Left
  <2>4. status[d] = "pending" => d = n
    BY <1>5, <1>7, <2>1
  <2>5. d # n
    <3>1. PICK e \in {n} : plan.dependencies[e] \cap {n} = {}
      BY <1>1, <1>6, FirstOf
    <3> QED
      BY <3>1
  <2> QED
    BY <2>1, <2>2, <2>3, <2>4, <2>5
<1>9. n \notin graph.unsupplied /\ ~IsReady(n)
  BY <1>3, <1>6 DEF NothingReadyOnceOver
<1>10. RoutedTo(n)
  <2> SUFFICES ASSUME ~RoutedTo(n) PROVE FALSE
    OBVIOUS
  <2> DEFINE s == plan.routedBy[n]
  <2>1. s \in Node /\ s # None /\ selected[s] # n
    BY <1>2, <1>6 DEF RoutedTo
  <2>2. s \in graph.switches /\ n \in TargetsOf(graph, s) /\ s \in plan.dependencies[n]
    <3>1. RoutersOf(graph, n) \in SUBSET Node /\ \A a, b \in RoutersOf(graph, n) : a = b
      BY <1>1, <1>6, GraphsAssumption DEF RoutersOf, Graph, Judged, GraphJudged
    <3>2. s = Last(RoutersOf(graph, n))
      BY <1>1, <1>6 DEF GraphJudged, PlanOf
    <3>3. PICK r \in RoutersOf(graph, n) : r = s
      BY <2>1, <3>1, <3>2, LastMember
    <3> QED
      BY <1>1, <3>3, TargetsWait DEF RoutersOf
  <2>3. status[s] \in {"done", "failed", "seeded"}
    BY <1>2, <1>8, <2>2 DEF Statuses
  <2>4. status[s] # "seeded"
    BY <1>4, <2>1, <2>2 DEF SeededWere
  <2>5. status[s] # "failed"
    <3> SUFFICES ASSUME s \in Failed PROVE FALSE
      BY <2>1 DEF Failed
    <3>1. caught[s] \in graph.switches /\ s \in Caught(graph, caught[s])
      BY <1>1, <1>2, <2>1, CatcherCatches DEF FaultsHeld, CaughtByItsCatcher
    <3>2. CatchJudged(graph, plan, caught[s], s)
      BY <1>1, <3>1, GraphsAssumption DEF GraphJudged, Judged
    <3> QED
      BY <2>2, <3>2 DEF CatchJudged
  <2>6. Left(n)
    BY <2>1, <2>2, <2>3, <2>4, <2>5 DEF UnchosenLeft
  <2> QED
    BY <1>6, <2>6 DEF Left
<1>11. PICK d \in plan.dependencies[n] : status[d] = "failed" /\ caught[d] # n
  <2>1. ~DependenciesSettled(n)
    BY <1>6, <1>9, <1>10 DEF IsReady
  <2> QED
    BY <1>2, <1>8, <2>1 DEF DependenciesSettled, Answered, Statuses
<1> DEFINE s == caught[d]
           to == graph.catch[s][d]
<1>12. d \in Node /\ d \in Failed /\ d \notin D
  BY <1>3, <1>6, <1>8, <1>11 DEF Failed
<1>13. s \in graph.switches /\ s \in Node /\ d \in Caught(graph, s)
  BY <1>1, <1>2, <1>12, CatcherCatches DEF FaultsHeld, CaughtByItsCatcher
<1>14. PICK t \in TargetsOf(graph, s) : n \in Behind(plan, t)
  BY <1>1, <1>6, <1>11, <1>13, ReadersBehind
<1>15. t # to /\ to \in TargetsOf(graph, s)
  BY <1>1, <1>6, <1>11, <1>13, <1>14, ReadersBehind
<1>16. t \in Node /\ s \in plan.dependencies[t]
  BY <1>1, <1>13, TargetsWait
<1>17. n \in Behind(plan, s)
  <2>1. \A m \in Node : plan.dependencies[m] \cap Behind(plan, s) # {} => m \in Behind(plan, s)
    BY DownstreamClosed DEF Behind
  <2>2. s \in Behind(plan, s)
    BY DownstreamClosed DEF Behind
  <2>3. Behind(plan, t) \subseteq Behind(plan, s)
    <3>1. t \in Behind(plan, s)
      BY <1>16, <2>1, <2>2
    <3> QED
      BY <2>1, <3>1, BehindLeast
  <2> QED
    BY <1>14, <2>3
<1>18. s \notin D
  <2>1. s \in D => Behind(plan, s) \subseteq D
    <3> HIDE DEF D
    <3> QED
      BY <1>3, BehindLeast
  <2> QED
    BY <1>6, <1>17, <2>1
<1>19. status[s] # "pending"
  BY <1>5, <1>11, <1>13, <1>17, <1>18
<1>20. status[s] = "done" /\ selected[s] \in CaughtRoute(s)
  BY <1>12, <1>19 DEF FaultsHeld
<1>21. selected[s] = to
  <2>1. d \notin Overlooked
    BY <1>3, <1>12
  <2>2. selected[s] \in TargetsOf(graph, s)
    BY <1>13, <1>20 DEF DoneChose
  <2>3. selected[s] # None
    BY <1>1, <1>2, <1>13, <2>2, TargetsWait
  <2> QED
    BY <1>12, <1>13, <2>1, <2>3 DEF Overlooked
<1>22. Behind(plan, t) \subseteq B
  <2>1. t \in B
    BY <1>4, <1>13, <1>16
  <2> HIDE DEF B
  <2> QED
    BY <1>4, <2>1, BehindLeast
<1> DEFINE C == {x \in Behind(plan, t) : status[x] = "cancelled"}
<1>23. t \in C
  <2>1. Left(t)
    BY <1>13, <1>15, <1>20, <1>21 DEF UnchosenLeft
  <2>2. t \in Behind(plan, t)
    BY DownstreamClosed DEF Behind
  <2> QED
    BY <1>16, <1>22, <2>1, <2>2 DEF Left, SeededWere
<1>24. \A x \in Node \ C : plan.dependencies[x] \cap C = {}
  <2> SUFFICES ASSUME NEW x \in Node, NEW e \in C, e \in plan.dependencies[x] PROVE x \in C
    OBVIOUS
  <2>1. \A m \in Node : plan.dependencies[m] \cap Behind(plan, t) # {} => m \in Behind(plan, t)
    BY DownstreamClosed DEF Behind
  <2>2. x \in Behind(plan, t)
    BY <2>1
  <2>3. Left(x)
    BY DEF BehindCancelledLeft
  <2> QED
    BY <1>22, <2>2, <2>3 DEF Left, SeededWere
<1>25. Behind(plan, t) \subseteq C
  <2> HIDE DEF C
  <2> QED
    BY <1>23, <1>24, BehindLeast
<1> QED
  BY <1>6, <1>14, <1>25

(* Whatever the graph: at quiescence every pending node waits for a root   *)
(* the run was not given, or for a fault its switch overlooked (run.ts: the*)
(* loop ends once nothing is ready; the judge's G021 to G024).             *)
THEOREM NothingLeftHanging == Spec => []StuckOnlyOnRoots
BY BothHold, StuckOnRoots, PTL

-----------------------------------------------------------------------------
(* A `finally` that runs moves the first of one queue behind the other.    *)
LEMMA AppendLine ==
    ASSUME NEW s \in Seq(Node), NEW t \in Seq(Node), NEW n \in Node
    PROVE  s \o Append(t, n) = Append(s \o t, n)
BY AppendIsConcat, ConcatAssociative

LEMMA MoveLine ==
    ASSUME NEW s \in Seq(Node), NEW t \in Seq(Node), t # <<>>
    PROVE  Append(s, Head(t)) \o Tail(t) = s \o t
<1>1. Head(t) \in Node /\ Tail(t) \in Seq(Node) /\ t = <<Head(t)>> \o Tail(t)
  BY HeadTailProperties, HeadTailAppend, ConcatProperties
<1>2. Append(s, Head(t)) = s \o <<Head(t)>>
  BY <1>1, AppendIsConcat
<1> QED
  BY <1>1, <1>2, ConcatAssociative

(* The settled nodes and those about to be, in the order they did.         *)
Line == settled \o settling

(* Faults that count: nobody holds them.                                   *)
Uncaught == {n \in Failed : caught[n] = None}

(* The line has exactly ended nodes, and every node that failed.           *)
LineSettled == \A i \in DOMAIN Line : status[Line[i]] \in {"done", "failed"}

FailedInLine == \A n \in Failed : \E i \in DOMAIN Line : Line[i] = n

(* Who ended the run failed and is held by none, and unless a node refused *)
(* nobody else of that kind is in the line before the first of them.       *)
EndedByUncaught == ending = "failed" => enders # {} /\ enders \subseteq Uncaught

EnderFirst ==
    (ending = "failed" /\ refused = {}) =>
        \A i \in DOMAIN Line :
            Line[i] \in Uncaught => \E j \in DOMAIN Line : j <= i /\ Line[j] \in enders

BlameInv == LineSettled /\ FailedInLine /\ EndedByUncaught /\ EnderFirst

LEMMA InitBlameInv == Init => BlameInv
<1> SUFFICES ASSUME Init PROVE BlameInv
  OBVIOUS
<1>1. Line = <<>>
  BY ConcatEmptySeq DEF Init, Line
<1>2. DOMAIN Line = {}
  BY <1>1
<1>3. Failed = {}
  BY DEF Init, Failed
<1> QED
  BY <1>2, <1>3 DEF Init, BlameInv, LineSettled, FailedInLine, EndedByUncaught, EnderFirst

LEMMA LineType == ASSUME TypeOK PROVE Line \in Seq(Node)
BY ConcatProperties DEF TypeOK, Line

(* A step that moves nobody in or out of the line.                         *)
LEMMA QuietBlameInv ==
    ASSUME TypeOK, BlameInv, UNCHANGED <<Line, Failed, caught, refused>>,
           (ending' = ending /\ enders' = enders) \/ ending' = "cancelled",
           \A n \in Node : status[n] \in {"done", "failed"} => status'[n] = status[n]
    PROVE  BlameInv'
<1>1. Uncaught' = Uncaught
  BY DEF Uncaught
<1>2. \A i \in DOMAIN Line : Line[i] \in Node
  BY LineType
<1> QED
  BY <1>1, <1>2 DEF BlameInv, LineSettled, FailedInLine, EndedByUncaught, EnderFirst

(* A node joins the line: it is the last there.                            *)
Joins(n) ==
    /\ settling' = Append(settling, n) /\ settled' = settled
    /\ status[n] \notin {"done", "failed"} /\ status'[n] \in {"done", "failed"}
    /\ \A m \in Node \ {n} : status[m] \in {"done", "failed"} => status'[m] = status[m]
    /\ \A m \in Node \ {n} : status'[m] = "failed" => status[m] = "failed"

LEMMA JoinsLine ==
    ASSUME TypeOK, NEW n \in Node, Joins(n), LineSettled, FailedInLine
    PROVE  /\ LineSettled' /\ FailedInLine'
           /\ DOMAIN Line' = DOMAIN Line \cup {Len(Line) + 1} /\ Len(Line) \in Nat
           /\ DOMAIN Line = 1 .. Len(Line)
           /\ Line'[Len(Line) + 1] = n
           /\ \A i \in DOMAIN Line : Line'[i] = Line[i] /\ Line[i] # n /\ Line[i] \in Node
           /\ Failed' = IF status'[n] = "failed" THEN Failed \cup {n} ELSE Failed
           /\ n \notin Failed
<1>1. Line' = Append(Line, n) /\ Line \in Seq(Node)
  BY AppendLine, LineType DEF TypeOK, Line, Joins
<1>2. /\ Len(Line) \in Nat /\ DOMAIN Line = 1 .. Len(Line) /\ DOMAIN Line' = 1 .. Len(Line) + 1
      /\ Line'[Len(Line) + 1] = n
      /\ \A i \in 1 .. Len(Line) : Line'[i] = Line[i] /\ Line[i] \in Node
  BY <1>1, AppendProperties
<1>3. \A i \in DOMAIN Line : Line[i] # n
  BY DEF Joins, LineSettled
<1>4. DOMAIN Line' = DOMAIN Line \cup {Len(Line) + 1}
  BY <1>2
<1>5. LineSettled'
  BY <1>2, <1>3, <1>4 DEF LineSettled, Joins
<1>6. Failed' = (IF status'[n] = "failed" THEN Failed \cup {n} ELSE Failed) /\ n \notin Failed
  BY DEF Failed, Joins
<1>7. FailedInLine'
  BY <1>2, <1>4, <1>6 DEF FailedInLine
<1> QED
  BY <1>2, <1>3, <1>4, <1>5, <1>6, <1>7

(* A node that joins as done, or as failed once the run has ended, was     *)
(* preceded by whoever ended it.                                           *)
LEMMA LaterBlameInv ==
    ASSUME TypeOK, BlameInv, NEW n \in Node, Joins(n), UNCHANGED <<caught, refused, ending, enders>>,
           status'[n] = "done" \/ ending # "none"
    PROVE  BlameInv'
<1> DEFINE last == Len(Line) + 1
<1>1. /\ LineSettled' /\ FailedInLine'
      /\ DOMAIN Line' = DOMAIN Line \cup {last} /\ Len(Line) \in Nat /\ DOMAIN Line = 1 .. Len(Line)
      /\ Line'[last] = n
      /\ \A i \in DOMAIN Line : Line'[i] = Line[i] /\ Line[i] # n
      /\ Failed' = IF status'[n] = "failed" THEN Failed \cup {n} ELSE Failed
      /\ n \notin Failed
  BY JoinsLine DEF BlameInv
<1>2. EndedByUncaught'
  BY <1>1 DEF BlameInv, EndedByUncaught, Uncaught
<1>3. EnderFirst'
  <2> SUFFICES ASSUME ending = "failed", refused = {}, NEW i \in DOMAIN Line', Line'[i] \in Uncaught'
               PROVE  \E j \in DOMAIN Line' : j <= i /\ Line'[j] \in enders
    BY DEF EnderFirst
  <2>1. CASE i \in DOMAIN Line
    <3>1. Line[i] \in Uncaught
      BY <1>1, <2>1 DEF Uncaught
    <3>2. PICK j \in DOMAIN Line : j <= i /\ Line[j] \in enders
      BY <2>1, <3>1 DEF BlameInv, EnderFirst
    <3> QED
      BY <1>1, <3>2
  <2>2. CASE i = last
    <3>1. PICK e \in enders : e \in Failed
      BY DEF BlameInv, EndedByUncaught, Uncaught
    <3>2. PICK j \in DOMAIN Line : Line[j] = e
      BY <3>1 DEF BlameInv, FailedInLine
    <3> QED
      BY <1>1, <2>2, <3>1, <3>2
  <2> QED
    BY <1>1, <2>1, <2>2
<1> QED
  BY <1>1, <1>2, <1>3 DEF BlameInv

(* A switch that lets go of its faults ends the run with them, and there   *)
(* was no other fault to answer for.                                       *)
LEMMA RouteBlameInv ==
    ASSUME IInv, RoutingInv, BlameInv, NEW s \in Node, Start(s), s \in graph.switches,
           NEW to \in RoutesOf(s), Route(s, to)
    PROVE  BlameInv'
<1> DEFINE gone    == CancelledBy(s, to)
           after   == [n \in Node |-> IF n = s THEN "done"
                                      ELSE IF n \in gone THEN "cancelled" ELSE status[n]]
<1>1. TypeOK /\ HeldOnlyOfFailed /\ status \in [Node -> Statuses]
      /\ caught \in [Node -> Node \cup {None}] /\ ending \in {"none", "failed", "cancelled"}
  BY DEF IInv, TypeOK
<1>2. gone \subseteq PendingBut(s)
  BY DownstreamStep DEF CancelledBy
<1>3. status[s] \in {"pending", "cancelled"}
  BY DEF Start, IInv, ReadyStands
<1>4. UNCHANGED <<refused, settled>> /\ settling' = Append(settling, s)
  BY DEF Start, Route
<1>5. CASE status' = after /\ UNCHANGED <<caught, ending, enders>>
  <2>1. Joins(s) /\ status'[s] = "done"
    BY <1>1, <1>2, <1>3, <1>4, <1>5 DEF Joins, PendingBut
  <2> QED
    BY <1>1, <1>4, <1>5, <2>1, LaterBlameInv
<1>6. ASSUME NEW lost \in SUBSET Node, lost # {}, \A x \in lost : caught[x] \in gone,
             caught' = [x \in Node |-> IF x \in lost THEN None ELSE caught[x]], End(after, lost)
      PROVE  BlameInv'
  <2>1. status' = CancelPending(after)
    BY <1>6 DEF End
  <2>2. Joins(s) /\ status'[s] = "done"
    BY <1>1, <1>2, <1>3, <1>4, <2>1 DEF Joins, PendingBut, CancelPending
  <2>3. /\ LineSettled' /\ FailedInLine'
        /\ Failed' = Failed /\ s \notin Failed
        /\ DOMAIN Line' = DOMAIN Line \cup {Len(Line) + 1}
        /\ Len(Line) \in Nat
        /\ DOMAIN Line = 1 .. Len(Line)
    BY <1>1, <2>2, JoinsLine DEF BlameInv
  <2>4. lost # {} /\ lost \subseteq Failed
    <3>1. \A g \in gone : g \in Node /\ g # None
      BY <1>2, NAssumption DEF PendingBut, Node, None
    <3> QED
      BY <1>1, <1>6, <3>1 DEF HeldOnlyOfFailed, Failed
  <2>5. ending = "none"
    BY <1>2, <1>6 DEF RoutingInv, NonePendingOnceEnded, PendingBut
  <2>6. Uncaught = {}
    <3>1. graph.switches \subseteq Node /\ None \notin Node
      BY PlanType, NAssumption DEF IInv, Graph, Node, None
    <3> QED
      BY <2>5, <3>1 DEF RoutingInv, FaultsHeld, Uncaught
  <2>7. enders' = lost /\ Uncaught' = lost
    <3>1. enders' = lost
      BY <1>6, <2>5 DEF End
    <3>2. \A x \in Failed : caught[x] # None
      BY <2>6 DEF Uncaught
    <3>3. \A x \in Failed : caught'[x] = None <=> x \in lost
      BY <1>6, <3>2 DEF Failed
    <3> QED
      BY <2>3, <2>4, <3>1, <3>3 DEF Uncaught
  <2>8. EndedByUncaught' /\ EnderFirst'
    <3>1. DOMAIN Line' \subseteq Nat
      BY <2>3
    <3> QED
      BY <2>4, <2>7, <3>1 DEF EndedByUncaught, EnderFirst
  <2> QED
    BY <2>3, <2>8 DEF BlameInv
<1>7. \/ status' = after /\ UNCHANGED <<caught, ending, enders>>
      \/ \E lost \in SUBSET Node :
           /\ lost # {} /\ \A x \in lost : caught[x] \in gone
           /\ caught' = [x \in Node |-> IF x \in lost THEN None ELSE caught[x]]
           /\ End(after, lost)
  <2>1. \A g \in (SUBSET ({caught[x] : x \in Node} \cap gone)) \ {{}} :
           /\ {x \in Node : caught[x] \in g} \in SUBSET Node
           /\ {x \in Node : caught[x] \in g} # {}
           /\ \A x \in {y \in Node : caught[y] \in g} : caught[x] \in gone
    <3> HIDE DEF gone
    <3> SUFFICES ASSUME NEW g \in SUBSET ({caught[x] : x \in Node} \cap gone), g # {}
                 PROVE  /\ {x \in Node : caught[x] \in g} # {}
                        /\ \A x \in {y \in Node : caught[y] \in g} : caught[x] \in gone
      OBVIOUS
    <3>1. PICK c \in g : TRUE
      OBVIOUS
    <3>2. PICK x \in Node : caught[x] = c
      BY <3>1
    <3> QED
      BY <3>1, <3>2
  <2> QED
    BY <2>1 DEF Route
<1> QED
  BY <1>5, <1>6, <1>7

(* The first fault nobody holds ends the run; any other joins behind it.   *)
LEMMA HandlerBlameInv ==
    ASSUME IInv, RoutingInv, BlameInv, NEW n \in Node, Handler(n)
    PROVE  BlameInv'
<1>1. /\ TypeOK /\ HeldOnlyOfFailed /\ status \in [Node -> Statuses]
      /\ caught \in [Node -> Node \cup {None}] /\ ending \in {"none", "failed", "cancelled"}
      /\ plan.catchers \in [Node -> Node \cup {None}]
  BY DEF IInv, TypeOK, Plan
<1>2. Joins(n)
  BY <1>1 DEF Handler, Finish, Fault, Refuse, End, CancelPending, Joins
<1>3. /\ LineSettled' /\ FailedInLine'
      /\ DOMAIN Line' = DOMAIN Line \cup {Len(Line) + 1} /\ Len(Line) \in Nat
      /\ DOMAIN Line = 1 .. Len(Line)
      /\ Line'[Len(Line) + 1] = n
      /\ \A i \in DOMAIN Line : Line'[i] = Line[i] /\ Line[i] # n /\ Line[i] \in Node
      /\ Failed' = IF status'[n] = "failed" THEN Failed \cup {n} ELSE Failed
      /\ n \notin Failed
  BY <1>1, <1>2, JoinsLine DEF BlameInv
<1>4. caught[n] = None
  BY <1>1, <1>3 DEF HeldOnlyOfFailed, Failed
<1>5. ending = "none" => Uncaught = {}
  <2>1. graph.switches \subseteq Node /\ None \notin Node
    BY PlanType, NAssumption DEF IInv, Graph, Node, None
  <2> QED
    BY <2>1 DEF RoutingInv, FaultsHeld, Uncaught
<1>6. CASE Finish(n)
  <2>1. status'[n] = "done" /\ UNCHANGED <<caught, refused, ending, enders>>
    BY <1>1, <1>6 DEF Finish
  <2> QED
    BY <1>1, <1>2, <2>1, LaterBlameInv
<1>7. CASE Fault(n)
  <2>1. status'[n] = "failed" /\ refused' = refused
    BY <1>1, <1>7 DEF Fault, End, CancelPending
  <2>2. CASE ending = "failed"
    <3>1. CatcherOf(n) = {}
      BY <1>1, <2>2 DEF CatcherOf, RoutingInv, NonePendingOnceEnded
    <3>2. UNCHANGED <<caught, refused, ending, enders>>
      BY <1>7, <2>2, <3>1 DEF Fault, End, Ended
    <3> QED
      BY <1>1, <1>2, <2>2, <3>2, LaterBlameInv
  <2>3. CASE ending = "none" /\ CatcherOf(n) = {}
    <3>1. enders' = {n} /\ caught' = caught
      BY <1>7, <2>3 DEF Fault, End
    <3>2. Uncaught' = {n}
      <4>1. Failed' = Failed \cup {n}
        BY <1>3, <2>1
      <4> QED
        BY <1>4, <1>5, <2>3, <3>1, <4>1 DEF Uncaught
    <3>3. DOMAIN Line' \subseteq Nat
      BY <1>3
    <3> QED
      BY <1>3, <3>1, <3>2, <3>3 DEF BlameInv, EndedByUncaught, EnderFirst
  <2>4. CASE ending' # "failed"
    BY <1>3, <2>4 DEF BlameInv, EndedByUncaught, EnderFirst
  <2>5. ending = "failed" \/ (ending = "none" /\ CatcherOf(n) = {}) \/ ending' # "failed"
    BY <1>1, <1>7 DEF Fault, End, Ended
  <2> QED
    BY <2>2, <2>3, <2>4, <2>5
<1>8. CASE Refuse(n)
  <2>1. caught' = caught /\ refused' # {} /\ status'[n] = "failed"
        /\ enders' = (IF ending = "none" THEN {n} ELSE enders) /\ ending' = Ended("failed")
    BY <1>1, <1>8 DEF Refuse, End, CancelPending
  <2>2. Failed' = Failed \cup {n}
    BY <1>3, <2>1
  <2>3. EndedByUncaught'
    BY <1>1, <1>4, <2>1, <2>2 DEF BlameInv, EndedByUncaught, Uncaught, Ended
  <2> QED
    BY <1>3, <2>1, <2>3 DEF BlameInv, EnderFirst
<1> QED
  BY <1>6, <1>7, <1>8 DEF Handler

LEMMA NextBlameInv == IInv /\ RoutingInv /\ BlameInv /\ [Next]_vars => BlameInv'
<1> SUFFICES ASSUME IInv, RoutingInv, BlameInv, [Next]_vars PROVE BlameInv'
  OBVIOUS
<1>1. TypeOK /\ status \in [Node -> Statuses] /\ ending \in {"none", "failed", "cancelled"}
  BY DEF IInv, TypeOK
<1>2. ASSUME UNCHANGED <<settling, settled, caught, refused>>,
             (ending' = ending /\ enders' = enders) \/ ending' = "cancelled",
             status' = status \/ status' = CancelPending(status)
      PROVE  BlameInv'
  <2>1. /\ \A n \in Node : status[n] \in {"done", "failed"} => status'[n] = status[n]
        /\ \A n \in Node : status'[n] = "failed" <=> status[n] = "failed"
    BY <1>1, <1>2 DEF CancelPending
  <2>2. UNCHANGED <<Line, Failed>>
    BY <1>2, <2>1 DEF Line, Failed
  <2> QED
    BY <1>1, <1>2, <2>1, <2>2, QuietBlameInv
<1>3. CASE Look
  BY <1>1, <1>2, <1>3 DEF Look, CancelRun, Ended
<1>4. ASSUME NEW n \in Node, Start(n) PROVE BlameInv'
  <2>1. CASE n \in graph.switches /\ \E to \in RoutesOf(n) : Route(n, to)
    BY <1>4, <2>1, RouteBlameInv
  <2>2. CASE Begin(n)
    <3>1. status[n] \in {"pending", "cancelled"} /\ status' = [status EXCEPT ![n] = "running"]
      BY <1>4, <2>2 DEF Start, Begin, IInv, ReadyStands
    <3>2. Failed' = Failed
      BY <1>1, <3>1 DEF Failed
    <3>3. UNCHANGED <<Line, caught, refused, ending, enders>>
      BY <1>4, <2>2 DEF Start, Begin, Line
    <3> QED
      BY <1>1, <3>1, <3>2, <3>3, QuietBlameInv
  <2> QED
    BY <1>4, <2>1, <2>2 DEF Start
<1>5. CASE Settle
  <2>1. Line' = Line
    BY <1>1, <1>5, MoveLine DEF Settle, Line, TypeOK
  <2> QED
    BY <1>1, <1>5, <2>1, QuietBlameInv DEF Settle, Failed
<1>6. CASE Resume
  BY <1>2, <1>6 DEF Resume
<1>7. CASE Abort
  BY <1>1, <1>2, <1>7 DEF Abort, CancelRun, Ended
<1>8. ASSUME NEW n \in Node, Handler(n) PROVE BlameInv'
  BY <1>8, HandlerBlameInv
<1>9. CASE UNCHANGED vars
  BY <1>2, <1>9 DEF vars
<1> QED
  BY <1>3, <1>4, <1>5, <1>6, <1>7, <1>8, <1>9 DEF Next, Scheduler, Over

(* A nonempty set of naturals has a least member: of the intervals up to   *)
(* its members one contains no other.                                      *)
LEMMA LeastNatural ==
    ASSUME NEW S \in SUBSET Nat, S # {}
    PROVE  \E m \in S : \A k \in S : m <= k
<1> DEFINE Upto(k) == 0 .. k
           F == {Upto(k) : k \in S}
<1>1. F \subseteq FiniteSubsetsOf(Nat) /\ F # {}
  <2>1. \A k \in S : IsFiniteSet(0 .. k) /\ 0 .. k \in SUBSET Nat
    BY FS_Interval
  <2> QED BY <2>1 DEF FiniteSubsetsOf
<1>2. \E x \in F : \A y \in F : ~ (<<y, x>> \in StrictSubsetOrdering(Nat))
  <2> HIDE DEF F
  <2>1. IsWellFoundedOn(StrictSubsetOrdering(Nat), FiniteSubsetsOf(Nat))
    BY FS_StrictSubsetOrderingWellFounded
  <2> QED BY <1>1, <2>1, WFMin
<1>3. PICK m \in S : \A k \in S : ~ (<<Upto(k), Upto(m)>> \in StrictSubsetOrdering(Nat))
  BY <1>2
<1>4. ASSUME NEW k \in S, k < m PROVE FALSE
  <2>1. Upto(k) \subseteq Upto(m) /\ Upto(k) # Upto(m) /\ Upto(m) \in SUBSET Nat
    BY <1>4
  <2> QED
    BY <2>1, <1>3 DEF StrictSubsetOrdering
<1> QED
  BY <1>3, <1>4

(* The first culprit in the line exists, and the ender is not behind it.   *)
LEMMA BlameIsRight == IInv /\ RoutingInv /\ BlameInv => BlamesTheEnder
<1> SUFFICES ASSUME IInv, RoutingInv, BlameInv, phase = "over", ReportStatus = "failed"
             PROVE  Blamed # {} /\ (refused = {} => Blamed \subseteq enders)
  BY DEF BlamesTheEnder
<1>1. TypeOK /\ settled \in Seq(Node) /\ settling \in Seq(Node)
  BY DEF IInv, TypeOK
<1>2. ending = "failed"
  BY DEF ReportStatus
<1>3. Line = settled
  <2>1. Members(settling) = {}
    BY DEF RoutingInv, NothingReadyOnceOver, Running
  <2>2. Len(settling) = 0
    <3>1. DOMAIN settling = {}
      BY <2>1 DEF Members
    <3>2. DOMAIN settling = 1 .. Len(settling) /\ Len(settling) \in Nat
      BY <1>1
    <3> QED
      BY <3>1, <3>2
  <2>3. settling = <<>>
    BY <1>1, <2>2, EmptySeq
  <2> QED
    BY <1>1, <2>3, ConcatEmptySeq DEF Line
<1>4. Culprits \subseteq Failed /\ Culprits # {}
  BY <1>2 DEF Culprits, RoutingInv, RefusedFailed, BlameInv, EndedByUncaught, Uncaught
<1> DEFINE I == {i \in DOMAIN settled : settled[i] \in Culprits}
<1>5. I \in SUBSET Nat /\ I # {}
  <2>1. DOMAIN settled \subseteq Nat
    BY <1>1
  <2>2. PICK c \in Culprits : c \in Failed
    BY <1>4
  <2>3. PICK i \in DOMAIN settled : settled[i] = c
    BY <1>3, <2>2 DEF BlameInv, FailedInLine
  <2> QED
    BY <2>1, <2>2, <2>3
<1>6. PICK i \in I : \A j \in I : i <= j
  <2> HIDE DEF I
  <2> QED
    BY <1>5, LeastNatural
<1>7. settled[i] \in Blamed
  BY <1>6 DEF Blamed
<1>8. ASSUME refused = {}, NEW n \in Blamed PROVE n \in enders
  <2>1. Culprits = Uncaught
    BY <1>8 DEF Culprits, Uncaught
  <2>2. PICK k \in DOMAIN settled :
           settled[k] = n /\ \A j \in DOMAIN settled : settled[j] \in Culprits => k <= j
    BY <1>8 DEF Blamed
  <2>3. n \in Uncaught
    BY <1>8, <2>1 DEF Blamed
  <2>4. PICK j \in DOMAIN settled : j <= k /\ settled[j] \in enders
    BY <1>2, <1>3, <1>8, <2>2, <2>3 DEF BlameInv, EnderFirst
  <2>5. k <= j
    BY <1>2, <2>1, <2>2, <2>4 DEF BlameInv, EndedByUncaught
  <2>6. j = k
    BY <1>1, <2>2, <2>4, <2>5
  <2> QED
    BY <2>2, <2>4, <2>6
<1> QED
  BY <1>7, <1>8

(* A failed run has somebody to answer for it, and unless a node refused   *)
(* that is a node whose fault ended it, not one that broke afterwards      *)
(* (kernel.ts: failure; report.ts: the order nodes settled in).            *)
THEOREM TheEnderIsBlamed == Spec => []BlamesTheEnder
<1>1. Init => IInv /\ RoutingInv /\ BlameInv
  BY InitIInv, InitRoutingInv, InitBlameInv
<1>2. (IInv /\ RoutingInv /\ BlameInv) /\ [Next]_vars => (IInv /\ RoutingInv /\ BlameInv)'
  BY NextIInv, NextRoutingInv, NextBlameInv
<1> QED
  BY <1>1, <1>2, BlameIsRight, PTL DEF Spec
=============================================================================
