------------------------------- MODULE Atomic -------------------------------
(***************************************************************************)
(* The run of one atomic graph and the scope it carries:                   *)
(* packages/compiler/src/atomic.ts, with the part of the storage handlers  *)
(* that joins it (plugin-storage/src/handlers.ts) and of the node that     *)
(* runs the graph (compiler.ts, nestedRunner).                             *)
(*                                                                         *)
(* The run around it is Kernel's, seen from here: nodes start concurrently,*)
(* a node's fault ends the run unless a switch catches it, and the run     *)
(* answers once no node is running.  A node with `timeoutMs` may be timed  *)
(* out, and then its handler goes on unheard (Attempts).  A graph run from *)
(* inside an atomic one joins its scope, so its nodes are nodes here.      *)
(***************************************************************************)
EXTENDS Naturals, FiniteSets

CONSTANTS
    Node,           \* the graph's nodes, each one transactional call
    Connection,
    Graphs          \* [reaches, bounded, caught]: what may be said of the nodes

AtomicGraph == [reaches : [Node -> Connection], bounded : SUBSET Node, caught : SUBSET Node]

ASSUME NodeAssumption == IsFiniteSet(Node)
ASSUME GraphsAssumption == \A g \in Graphs : g \in AtomicGraph

VARIABLES
    graph,      \* never written
    node,       \* what the run says of each node
    handler,    \* where each node's handler is, the run listening or not
    connection, \* scope.connection: {the one the transaction was opened on}, {} before
    opening,    \* scope.opening: "none", "pending", "open" or "rejected"
    begun,      \* (observed only) how many transactions were begun
    written,    \* nodes whose statement the open transaction holds
    halted,     \* the run has ended: nothing more starts
    report,     \* the run's report: "none", "done" or "failed" (or cancelled)
    settle,     \* what settling came to: "none", "committed", "rolledBack", "nothing", "threw"
    caller      \* what the node that ran the graph came to

atomicVars == <<graph, node, handler, connection, opening, begun, written, halted, report, settle, caller>>

(* What each variable holds.                                               *)
AtomicTypeOK ==
    /\ graph \in AtomicGraph
    /\ node \in [Node -> {"pending", "running", "done", "failed"}]
    /\ handler \in [Node -> {"none", "joining", "writing", "over"}]
    /\ connection \in SUBSET Connection
    /\ opening \in {"none", "pending", "open", "rejected"}
    /\ begun \in 0 .. Cardinality(Node)
    /\ written \in SUBSET Node
    /\ halted \in BOOLEAN
    /\ report \in {"none", "done", "failed"}
    /\ settle \in {"none", "committed", "rolledBack", "nothing", "threw"}
    /\ caller \in {"none", "answered", "failed"}

-----------------------------------------------------------------------------
AtomicInit ==
    /\ graph \in Graphs
    /\ node = [n \in Node |-> "pending"]
    /\ handler = [n \in Node |-> "none"]
    /\ connection = {}
    /\ opening = "none"
    /\ begun = 0
    /\ written = {}
    /\ halted = FALSE
    /\ report = "none"
    /\ settle = "none"
    /\ caller = "none"

(* A node broke: caught by a switch, or the run ends.                      *)
Broke(n) ==
    /\ node' = [node EXCEPT ![n] = "failed"]
    /\ halted' = (halted \/ n \notin graph.caught)

(* mutant: a transaction still opening is not seen                         *)
JoinableOnceOpen == opening \in {"none", "pending"}

(* The scope is asked for its first transaction.                           *)
Unopened == opening = "none"

SameConnection(n) == connection = {graph.reaches[n]}

(* A node's handler joins the scope, all in the tick that starts it: it    *)
(* opens the transaction, waits for the one another opened, or is refused. *)
Start(n) ==
    /\ node[n] = "pending"
    /\ ~halted
    /\ report = "none"
    /\ \/ /\ Unopened
          /\ connection' = {graph.reaches[n]}
          /\ opening' = "pending"
          /\ begun' = begun + 1
          /\ node' = [node EXCEPT ![n] = "running"]
          /\ handler' = [handler EXCEPT ![n] = "joining"]
          /\ UNCHANGED halted
       \/ /\ ~Unopened
          /\ SameConnection(n)
          /\ node' = [node EXCEPT ![n] = "running"]
          /\ handler' = [handler EXCEPT ![n] = "joining"]
          /\ UNCHANGED <<connection, opening, begun, halted>>
       \/ /\ ~Unopened
          /\ ~SameConnection(n)
          /\ handler' = [handler EXCEPT ![n] = "over"]
          /\ Broke(n)
          /\ UNCHANGED <<connection, opening, begun>>
    /\ UNCHANGED <<graph, written, report, settle, caller>>

(* The database opens the transaction, or does not.                        *)
OpeningSettles(how) ==
    /\ opening = "pending"
    /\ opening' = how
    /\ UNCHANGED <<graph, node, handler, connection, begun, written, halted, report, settle, caller>>

(* A handler that waited for the transaction sends its statement, or hears *)
(* that there is none.                                                     *)
Joined(n) ==
    /\ handler[n] = "joining"
    /\ \/ /\ opening = "open"
          /\ handler' = [handler EXCEPT ![n] = "writing"]
          /\ UNCHANGED <<node, halted>>
       \/ /\ opening = "rejected"
          /\ handler' = [handler EXCEPT ![n] = "over"]
          /\ IF node[n] = "running" THEN Broke(n) ELSE UNCHANGED <<node, halted>>
    /\ UNCHANGED <<graph, connection, opening, begun, written, report, settle, caller>>

(* Its statement went through, or broke.  One sent to a transaction that   *)
(* has ended breaks.                                                       *)
Wrote(n) ==
    /\ handler[n] = "writing"
    /\ handler' = [handler EXCEPT ![n] = "over"]
    /\ \/ /\ settle = "none"
          /\ written' = written \cup {n}
          /\ node' = IF node[n] = "running" THEN [node EXCEPT ![n] = "done"] ELSE node
          /\ UNCHANGED halted
       \/ /\ IF node[n] = "running" THEN Broke(n) ELSE UNCHANGED <<node, halted>>
          /\ UNCHANGED written
    /\ UNCHANGED <<graph, connection, opening, begun, report, settle, caller>>

(* The bound on a node's call strikes: the node is broken, whatever its    *)
(* handler is at.                                                          *)
Timeout(n) ==
    /\ node[n] = "running"
    /\ n \in graph.bounded
    /\ Broke(n)
    /\ UNCHANGED <<graph, handler, connection, opening, begun, written, report, settle, caller>>

(* The run's signal fires: nothing more starts.                            *)
Cancel ==
    /\ report = "none"
    /\ ~halted
    /\ halted' = TRUE
    /\ UNCHANGED <<graph, node, handler, connection, opening, begun, written, report, settle, caller>>

Running == {n \in Node : node[n] = "running"}

Outcome == IF halted THEN "failed" ELSE "done"

(* The run answers at quiescence.  A switch may have left any node out.    *)
Quiesce ==
    /\ report = "none"
    /\ Running = {}
    /\ report' = Outcome
    /\ UNCHANGED <<graph, node, handler, connection, opening, begun, written, halted, settle, caller>>

-----------------------------------------------------------------------------
(* scope.settle, and the node that ran the graph.                          *)

(* mutant: a transaction is committed however the run ended                *)
CommitsAlways == TRUE

Commits == report = "done"

(* mutant: a transaction still opening is taken for none                   *)
NoneOpenedYet == opening \in {"none", "pending"}

NoneOpened == opening = "none"

ScopeFailed(how) == settle' = how /\ caller' = "failed"

ScopeAnswered(how) == settle' = how /\ caller' = IF report = "done" THEN "answered" ELSE "failed"

(* The transaction's commit or rollback, which may throw.                  *)
EndTransaction ==
    \/ Commits /\ ScopeAnswered("committed")
    \/ ~Commits /\ ScopeAnswered("rolledBack")
    \/ ScopeFailed("threw")

(* It awaits the transaction: one that never opened throws here too.       *)
SettleScope ==
    /\ report # "none"
    /\ settle = "none"
    /\ \/ NoneOpened /\ ScopeAnswered("nothing")
       \/ ~NoneOpened /\ opening = "open" /\ EndTransaction
       \/ ~NoneOpened /\ opening = "rejected" /\ ScopeFailed("threw")
    /\ UNCHANGED <<graph, node, handler, connection, opening, begun, written, halted, report>>

Over == settle # "none" /\ UNCHANGED atomicVars

Database == OpeningSettles("open") \/ OpeningSettles("rejected")
Call(n) == Joined(n) \/ Wrote(n)
AtomicNext == Quiesce \/ SettleScope \/ Cancel \/ Over \/ Database
        \/ \E n \in Node : Start(n) \/ Call(n) \/ Timeout(n)

(* The database answers, promise callbacks run, and the run quiesces.      *)
AtomicFairness ==
    /\ WF_atomicVars(Database) /\ WF_atomicVars(SettleScope)
    /\ WF_atomicVars(Quiesce)
    /\ \A n \in Node : WF_atomicVars(Call(n))

AtomicSpec == AtomicInit /\ [][AtomicNext]_atomicVars /\ AtomicFairness

-----------------------------------------------------------------------------
(* However many nodes join before it is open, one transaction is begun, on *)
(* one connection, and nothing is written but through it (atomic.ts:17-21).*)
OneTransaction ==
    /\ begun <= 1
    /\ \A n \in written : connection = {graph.reaches[n]}

(* The node that ran the graph answers only where every write of a node the*)
(* run says is done was committed, or there was none; where the run did not*)
(* answer, nothing was.                                                    *)
AnswersWhatItCommitted ==
    /\ caller = "answered" =>
          /\ report = "done"
          /\ settle = "committed" \/ (settle = "nothing" /\ written = {})
          /\ {n \in Node : node[n] = "done"} \subseteq written
    /\ settle = "committed" => report = "done"
=============================================================================
