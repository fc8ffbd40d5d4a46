------------------------------- MODULE MapNode -------------------------------
(***************************************************************************)
(* One map node of a run: packages/engine/src/map.ts.                      *)
(*                                                                         *)
(* A few workers share one cursor.  Each takes the next element, runs it,  *)
(* records what it came to and takes the next, all between two awaits, so a*)
(* worker's turn is one step.  What goes on between turns is the world: the*)
(* handlers answer, break or refuse, and the run the map is part of ends.  *)
(* To Kernel the whole of it is one call.                                  *)
(***************************************************************************)
EXTENDS Naturals, FiniteSets

CONSTANTS
    Length,     \* how many elements `over` has
    Maps        \* the map nodes a run may have

Element == 1 .. Length
NoOne   == 0

MapSpec == [concurrency : Nat \ {0}, limit : Nat, collects : BOOLEAN, judges : BOOLEAN,
            calls : BOOLEAN, seeded : SUBSET Element]

ASSUME LengthAssumption == Length \in Nat
ASSUME MapsAssumption == \A m \in Maps : m \in MapSpec

VARIABLES
    map,        \* the node; never written
    launched,   \* how many workers have been called
    on,         \* the element each worker is at, NoOne before its first and after its last
    cursor,     \* the next index a worker takes
    status,     \* each element's report: its status
    dropped,    \* elements whose report says `where` did not keep them
    refused,    \* elements whose report carries a reason
    result,     \* what came of each element, as its worker recorded it
    broken,     \* an element broke under `fail`
    ended,      \* the run the map is in has ended
    answer      \* what the node comes to: [kind, of], `of` the elements it speaks of

vars == <<map, launched, on, cursor, status, dropped, refused, result, broken, ended, answer>>

Statuses == {"pending", "seeded", "running", "done", "failed", "cancelled"}
Results  == {"none", "ok", "broke", "held", "dropped"}
Kinds    == {"none", "values", "refused", "fault"}

Unanswered == [kind |-> "none", of |-> {}]

(* As many workers as elements may run at once.                            *)
Workers == IF map.concurrency < Length THEN map.concurrency ELSE Length

(* What each variable holds.                                               *)
TypeOK ==
    /\ map \in MapSpec
    /\ launched \in 0 .. Length
    /\ on \in [Element -> Element \cup {NoOne}]
    /\ cursor \in 1 .. (Length + 1)
    /\ status \in [Element -> Statuses]
    /\ dropped \in SUBSET Element
    /\ refused \in SUBSET Element
    /\ result \in [Element -> Results]
    /\ broken \in BOOLEAN
    /\ ended \in BOOLEAN
    /\ answer \in [kind : Kinds, of : SUBSET Element]

-----------------------------------------------------------------------------
Init ==
    /\ map \in Maps
    /\ launched = 0
    /\ on = [w \in Element |-> NoOne]
    /\ cursor = 1
    /\ status = [i \in Element |-> IF i \in map.seeded THEN "seeded" ELSE "pending"]
    /\ dropped = {}
    /\ refused = {}
    /\ result = [i \in Element |-> "none"]
    /\ broken = FALSE
    /\ ended = FALSE
    /\ answer = Unanswered

(* A list longer than `limit` is a fault before any element starts.        *)
TooLong ==
    /\ answer = Unanswered
    /\ launched = 0
    /\ map.limit < Length
    /\ answer' = [kind |-> "fault", of |-> {}]
    /\ UNCHANGED <<map, launched, on, cursor, status, dropped, refused, result, broken, ended>>

-----------------------------------------------------------------------------
(* A worker's turn.                                                        *)

NextIndex == cursor

(* No element starts once one broke, or the run has ended.                 *)
HoldsBack(broke) == broke \/ ended

(* What `where` makes of a pending element that may start.  Where there is *)
(* no handler a kept element answers itself.                               *)
Judge(i) ==
    \/ /\ status' = [status EXCEPT ![i] = IF map.calls THEN "running" ELSE "done"]
       /\ UNCHANGED dropped
    \/ /\ map.judges
       /\ status' = [status EXCEPT ![i] = "cancelled"]
       /\ dropped' = dropped \cup {i}
    \/ /\ map.judges                        \* the rule threw
       /\ status' = [status EXCEPT ![i] = "failed"]
       /\ UNCHANGED dropped

(* A seeded element answers at once, a cancelled one never runs.           *)
RunElement(i, broke) ==
    \/ status[i] # "pending" /\ UNCHANGED <<status, dropped>>
    \/ /\ status[i] = "pending"
       /\ HoldsBack(broke)
       /\ status' = [status EXCEPT ![i] = "cancelled"]
       /\ UNCHANGED dropped
    \/ status[i] = "pending" /\ ~HoldsBack(broke) /\ Judge(i)

TakeNext(w, broke) ==
    \/ /\ cursor <= Length
       /\ on' = [on EXCEPT ![w] = NextIndex]
       /\ cursor' = NextIndex + 1
       /\ RunElement(NextIndex, broke)
    \/ /\ cursor > Length
       /\ on' = [on EXCEPT ![w] = NoOne]
       /\ UNCHANGED <<cursor, status, dropped>>

(* The workers are called one after the other, before any is resumed.      *)
Launch ==
    /\ answer = Unanswered
    /\ map.limit >= Length
    /\ launched < Workers
    /\ launched' = launched + 1
    /\ TakeNext(launched + 1, broken)
    /\ UNCHANGED <<map, refused, result, broken, ended, answer>>

Launched == map.limit >= Length /\ launched = Workers

(* What an element at rest came to.                                        *)
CameTo(i) == CASE status[i] \in {"seeded", "done"} -> "ok"
               [] status[i] = "failed" -> "broke"
               [] OTHER -> IF i \in dropped THEN "dropped" ELSE "held"

Failing(r) == r \in {"broke", "held"}

StopsMap(r) == Failing(r) /\ ~map.collects

(* The worker records what its element came to and takes the next.         *)
Turn(w) ==
    /\ Launched
    /\ on[w] # NoOne
    /\ status[on[w]] # "running"
    /\ result' = [result EXCEPT ![on[w]] = CameTo(on[w])]
    /\ broken' = (broken \/ StopsMap(CameTo(on[w])))
    /\ TakeNext(w, broken')
    /\ UNCHANGED <<map, launched, refused, ended, answer>>

-----------------------------------------------------------------------------
(* The handlers, and the run around the map.                               *)

Settle(i, st) ==
    /\ Launched
    /\ status[i] = "running"
    /\ status' = [status EXCEPT ![i] = st]
    /\ UNCHANGED <<map, launched, on, cursor, dropped, result, broken, ended, answer>>

Answer(i) == Settle(i, "done") /\ UNCHANGED refused
Break(i)  == Settle(i, "failed") /\ UNCHANGED refused
Refuse(i) == Settle(i, "failed") /\ refused' = refused \cup {i}

(* Another node of the run broke: the elements hear of it when reached.    *)
RunEnds ==
    /\ Launched
    /\ answer = Unanswered
    /\ ~ended
    /\ ended' = TRUE
    /\ UNCHANGED <<map, launched, on, cursor, status, dropped, refused, result, broken, answer>>

CancelPending(st) == [i \in Element |-> IF st[i] = "pending" THEN "cancelled" ELSE st[i]]

(* The run's signal fired (cancelRun): no pending element ever starts.     *)
CancelRun ==
    /\ Launched
    /\ answer = Unanswered
    /\ ended' = TRUE
    /\ status' = CancelPending(status)
    /\ status' # status
    /\ UNCHANGED <<map, launched, on, cursor, dropped, refused, result, broken, answer>>

-----------------------------------------------------------------------------
(* The node's answer (collectMap).                                         *)

(* mutant: an element held back is collected as if it had run              *)
DecisiveBroken == {i \in Element : result[i] = "broke" /\ ~map.collects}

(* The elements that leave the map without its values.                     *)
Decisive == {i \in Element : result[i] = "held" \/ (result[i] = "broke" /\ ~map.collects)}

(* mutant: the last                                                        *)
BlamedLast == {i \in Decisive : \A j \in Decisive : j <= i}

(* The first of them speaks for the node.                                  *)
Blamed == {i \in Decisive : \A j \in Decisive : i <= j}

Collect ==
    /\ Launched
    /\ answer = Unanswered
    /\ \A w \in Element : on[w] = NoOne
    /\ answer' =
        IF Decisive = {} THEN [kind |-> "values", of |-> {i \in Element : result[i] # "dropped"}]
        ELSE [kind |-> IF Blamed \subseteq refused THEN "refused" ELSE "fault", of |-> Blamed]
    /\ UNCHANGED <<map, launched, on, cursor, status, dropped, refused, result, broken, ended>>

Answered == answer # Unanswered /\ UNCHANGED vars

Handler(i) == Answer(i) \/ Break(i) \/ Refuse(i)
Work == TooLong \/ Launch \/ Collect \/ \E w \in Element : Turn(w)
Next == Work \/ RunEnds \/ CancelRun \/ Answered \/ \E i \in Element : Handler(i)

(* Workers are promise callbacks, and a handler that was called settles.   *)
Fairness == WF_vars(Work) /\ \A i \in Element : WF_vars(Handler(i))

Spec == Init /\ [][Next]_vars /\ Fairness

-----------------------------------------------------------------------------
Ran(i)  == status[i] \in {"running", "done", "failed"}
Held(i) == status[i] = "cancelled" /\ i \notin dropped

(* Never more elements in flight than `concurrency` (map.ts:2-3), whatever *)
(* order they settle in.                                                   *)
BoundedConcurrency == Cardinality({i \in Element : status[i] = "running"}) <= map.concurrency

(* Elements start in index order (spec.ts: "the rest wait for a slot, in   *)
(* index order"): none is passed over, and none is left behind one that ran*)
StartedInOrder == \A i, j \in Element : (i < j /\ Ran(j)) => status[i] # "pending"

(* An element that never started was reached after the one that stopped the*)
(* map -- a failure that is collected stops nothing -- or the run had ended*)
HeldBackBehindABreak ==
    \A i \in Element : Held(i) =>
        ended \/ (~map.collects /\ \E j \in 1 .. (i - 1) : status[j] = "failed")

(* The node answers once every element has settled; its values are those of*)
(* every element kept, and it has values only if none was held back and,   *)
(* under `fail`, none failed.                                              *)
AnswerIsWhole ==
    (answer # Unanswered /\ map.limit >= Length) =>
        /\ \A i \in Element : status[i] \notin {"pending", "running"}
        /\ answer.kind = "values" =>
              /\ answer.of = Element \ dropped
              /\ \A i \in Element : ~Held(i)
              /\ map.collects \/ \A i \in Element : status[i] # "failed"

(* A map that fails while its run goes on answers for an element that did  *)
(* break or refuse -- and refuses just when that element refused -- never  *)
(* for one the failure held back.                                          *)
BlamesABreak ==
    (answer.kind \in {"refused", "fault"} /\ map.limit >= Length /\ ~ended) =>
        \E i \in Element : /\ answer.of = {i}
                           /\ status[i] = "failed"
                           /\ answer.kind = "refused" <=> i \in refused
=============================================================================
