-------------------------------- MODULE Graph --------------------------------
(***************************************************************************)
(* The graphs the kernel runs, and what its plan says of one before        *)
(* anything runs: who waits for whom, which switch routes each node, which *)
(* catches its fault (packages/engine/src/plan.ts).  Judged says which     *)
(* graphs the compiler lets through (packages/compiler/src/check).         *)
(*                                                                         *)
(* Nodes are numbered in the order the graph declares them.  What a node   *)
(* reads and what it names under `after` are one set here: the kernel      *)
(* waits for both alike.  A switch's rules are the set of nodes they can   *)
(* choose, `else` included: which rule holds is the data's business.       *)
(***************************************************************************)
EXTENDS Naturals

CONSTANT N            \* how many nodes a graph has

ASSUME NAssumption == N \in Nat \ {0}

Node == 1 .. N
None == 0

Graph == [ switches   : SUBSET Node,
           reads      : [Node -> SUBSET Node],
           rules      : [Node -> SUBSET Node],
           catch      : [Node -> [Node -> Node \cup {None}]],
           unsupplied : SUBSET Node,     \* nodes reading a root the run is not given
           seeded     : SUBSET Node,     \* nodes whose value is pre-supplied
           output     : SUBSET Node ]    \* the output candidates; none when none is declared

Caught(g, s) == {x \in Node : g.catch[s][x] # None}

TargetsOf(g, s) == IF s \in g.switches
                   THEN g.rules[s] \cup {g.catch[s][x] : x \in Caught(g, s)}
                   ELSE {}

RoutersOf(g, n) == {s \in g.switches : n \in TargetsOf(g, s)}

CatchersOf(g, n) == {s \in g.switches : n \in Caught(g, s)}

(* A table has one entry a node, and the switch declared last writes it.   *)
Last(S) == IF S = {} THEN None ELSE CHOOSE s \in S : \A t \in S : t <= s

(* What a node waits for: what it reads, the switch that routes it, and for*)
(* a switch what it catches.                                               *)
WaitsFor(g, n) ==
    (g.reads[n] \cup {Last(RoutersOf(g, n))} \cup (IF n \in g.switches THEN Caught(g, n) ELSE {}))
        \ {None}

Plan == [ dependencies : [Node -> SUBSET Node],
          routedBy     : [Node -> Node \cup {None}],
          catchers     : [Node -> Node \cup {None}] ]

PlanOf(g) == [ dependencies |-> [n \in Node |-> WaitsFor(g, n)],
               routedBy     |-> [n \in Node |-> Last(RoutersOf(g, n))],
               catchers     |-> [n \in Node |-> Last(CatchersOf(g, n))] ]

(* A set of nodes and what waits for it, through nodes of `among` only:    *)
(* the least set that no step from a member to a dependent in `among`      *)
(* leaves.                                                                 *)
Downstream(p, from, among) ==
    LET all    == from \cup among
        closed == {S \in SUBSET all :
                      /\ from \subseteq S
                      /\ \A d \in among \ S : p.dependencies[d] \cap S = {}}
    IN  {n \in all : \A S \in closed : n \in S}

-----------------------------------------------------------------------------
(* The judge: no cycle through reads and routing (G007), one router a node  *)
(* (G009), a catch names nodes its switch reads and one switch a node       *)
(* (G021), never a switch (G024), and whatever else reads a caught node     *)
(* runs behind the catching switch (G022), not where the fault goes (G023). *)

Acyclic(p) == \A S \in (SUBSET Node) \ {{}} : \E n \in S : p.dependencies[n] \cap S = {}

Behind(p, n) == Downstream(p, {n}, Node)

CatchJudged(g, p, s, x) ==
    LET to == g.catch[s][x]
    IN  /\ x \in g.reads[s] \ g.switches
        /\ CatchersOf(g, x) = {s}
        /\ to \notin {x, s}
        /\ \A reader \in Node \ {s} : x \in g.reads[reader] =>
              /\ \E t \in TargetsOf(g, s) : reader \in Behind(p, t)
              /\ reader \notin Behind(p, to)

Judged(g) ==
    LET p == PlanOf(g)
    IN  /\ Acyclic(p)
        /\ \A n \in Node : \A s, t \in RoutersOf(g, n) : s = t
        /\ \A s \in g.switches :
              g.rules[s] # {} /\ \A x \in Caught(g, s) : CatchJudged(g, p, s, x)
        /\ g.output \cap g.switches = {}
=============================================================================
