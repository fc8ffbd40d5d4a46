------------------------------- MODULE MCCalls --------------------------------
(***************************************************************************)
(* What Kernel sees as one call, by kind: a map node, a call with `retry`  *)
(* or `timeoutMs`, the run of an atomic graph.  They share nothing, so a   *)
(* behaviour is one call of one kind, and the others never begin.  The     *)
(* module of each kind states and explains its properties.                 *)
(***************************************************************************)
EXTENDS MapNode, Atomic

CONSTANTS Policies, MaxTimes, TimerMax, first, second

VARIABLES
    kind,       \* "map", "tried" or "atomic"; never written
    policy, stage, tries, flight, sub, ending, hung, attempts, stands, aborted

Tried == INSTANCE Attempts

ASSUME PoliciesAssumption ==
    /\ TimerMax \in Nat /\ MaxTimes \in Nat
    /\ \A p \in Policies : p \in Tried!Policy

triedVars == <<policy, stage, tries, flight, sub, ending, hung, attempts, stands, aborted>>
allVars   == <<kind, vars, triedVars, atomicVars>>

CallInit ==
    /\ kind \in {"map", "tried", "atomic"}
    /\ map \in IF kind = "map" THEN Maps ELSE {CHOOSE m \in Maps : TRUE}
    /\ policy \in IF kind = "tried" THEN Policies ELSE {CHOOSE p \in Policies : TRUE}
    /\ graph \in IF kind = "atomic" THEN Graphs ELSE {CHOOSE g \in Graphs : TRUE}
    /\ Init /\ Tried!Init /\ AtomicInit

MapStep(A)    == kind = "map" /\ A /\ UNCHANGED <<kind, triedVars, atomicVars>>
TriedStep(A)  == kind = "tried" /\ A /\ UNCHANGED <<kind, vars, atomicVars>>
AtomicStep(A) == kind = "atomic" /\ A /\ UNCHANGED <<kind, vars, triedVars>>

CallNext == MapStep(Next) \/ TriedStep(Tried!Next) \/ AtomicStep(AtomicNext)

(* The fairness of each kind (MapNode, Attempts, Atomic).                  *)
CallSpec ==
    /\ CallInit /\ [][CallNext]_allVars
    /\ WF_allVars(MapStep(Work)) /\ \A i \in Element : WF_allVars(MapStep(Handler(i)))
    /\ WF_allVars(TriedStep(Tried!Wrapper))
    /\ WF_allVars(AtomicStep(Database)) /\ WF_allVars(AtomicStep(SettleScope))
    /\ WF_allVars(AtomicStep(Quiesce))
    /\ \A n \in Node : WF_allVars(AtomicStep(Call(n)))

-----------------------------------------------------------------------------
(* Once an element has broken under `fail`, or the run has ended, no       *)
(* further element starts (map.ts:4-5); once the run was cancelled nothing *)
(* is tried again and no attempt recorded (attempts.ts:100).               *)
NoLateStart ==
    [][/\ kind = "map" /\ (broken' \/ ended) =>
             \A i \in Element : status[i] = "pending" => ~Ran(i)'
       /\ aborted => tries' = tries /\ attempts' = attempts]_allVars

(* A report tells every try that did not stand, and waits that never shrink*)
(* (attempts.ts:91-93, 109-111).                                           *)
TriesAreTold == Tried!TriesAreTold

(* Every call that must come to an end does: a map settles, a bounded call *)
(* settles though no handler does, an opened transaction is ended.         *)
CallsSettle ==
    /\ kind = "map" ~> answer # Unanswered
    /\ (kind = "tried" /\ policy.bounded) ~> stage = "over"
    /\ opening = "open" ~> settle \in {"committed", "rolledBack", "threw"}

(* No handler is in flight when an atomic graph's scope commits or rolls   *)
(* back (atomic.ts:60).                                                    *)
NoHandlerInFlight ==
    [][(settle = "none" /\ settle' \in {"committed", "rolledBack"}) =>
        \A n \in Node : handler[n] \in {"none", "over"}]_allVars

-----------------------------------------------------------------------------
(* Every call of each kind.  A `limit` lets the list through or is one     *)
(* short, a `concurrency` past the length stands for none given, one       *)
(* element may have been supplied.  A wait doubles past the timer, or there*)
(* is none.  Any faults are caught, any nodes bounded, one perhaps on the  *)
(* other connection (the checker refuses that graph, L010).                *)
AllMaps ==
    {m \in [concurrency : 1 .. (Length + 1), limit : {Length - 1, Length}, collects : BOOLEAN,
            judges : BOOLEAN, calls : BOOLEAN, seeded : {{}, {2}}] :
        m.limit = Length \/ m.concurrency = 1}

AllPolicies == [times : 0 .. MaxTimes, backoff : {0, 3, 5}, when : BOOLEAN, bounded : BOOLEAN]

OneConnection == [n \in Node |-> first]
TwoConnections == [OneConnection EXCEPT ![CHOOSE n \in Node : TRUE] = second]

AllGraphs == [reaches : {OneConnection, TwoConnections}, bounded : SUBSET Node, caught : SUBSET Node]
=============================================================================
