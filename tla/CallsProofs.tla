------------------------------ MODULE CallsProofs ------------------------------
(***************************************************************************)
(* What a call keeps to inside: proofs about MapNode (however long its list*)
(* and however many elements may run at once), about Atomic (one           *)
(* transaction on one connection, and the node that ran the graph answers  *)
(* what that transaction committed, whatever its nodes, their bounds and   *)
(* their faults), and about the three kinds together (what was ended or    *)
(* cancelled starts nothing more).                                         *)
(***************************************************************************)
EXTENDS MCCalls, FiniteSetTheorems, SequenceTheorems, WellFoundedInduction, TLAPS

(* The map node (MapNode).                                                 *)

(* A worker is at an element that was taken, and only a worker that was    *)
(* called is; one that has stopped found nothing more to take.             *)
WorkersAt ==
    /\ launched <= Workers
    /\ \A w \in Element : on[w] # NoOne => w <= launched /\ on[w] < cursor
    /\ \A w \in Element : on[w] = NoOne /\ w <= launched => cursor > Length

(* What was taken has started or never will; nothing else has begun.       *)
TakenInOrder ==
    /\ \A i \in Element : i < cursor => status[i] # "pending"
    /\ \A i \in Element : i >= cursor => status[i] \in {"pending", "seeded", "cancelled"}
    /\ \A i \in dropped : status[i] = "cancelled" /\ i < cursor

(* An element in flight has a worker waiting for it.                       *)
RunningIsAwaited == \A i \in Element : status[i] = "running" => \E w \in Element : on[w] = i

(* A map that stopped, or an element held back, has one that failed before *)
(* it, unless the run ended.                                               *)
StoppedByABreak ==
    broken => ended \/ (~map.collects /\ \E j \in Element : j < cursor /\ status[j] = "failed")

(* What a worker has left behind is recorded as it is.                     *)
Recorded ==
    \A i \in Element : i < cursor => (\E w \in Element : on[w] = i) \/ result[i] = CameTo(i)

(* The node answers when no worker is at anything.                         *)
AnsweredAtRest ==
    (answer # Unanswered /\ map.limit >= Length) =>
        launched = Workers /\ \A w \in Element : on[w] = NoOne

MapIInv ==
    /\ TypeOK /\ WorkersAt /\ TakenInOrder /\ RunningIsAwaited /\ StoppedByABreak
    /\ Recorded /\ AnsweredAtRest /\ HeldBackBehindABreak /\ AnswerIsWhole

-----------------------------------------------------------------------------
(* There are no more workers than `concurrency` or the list allows.        *)
LEMMA WorkersBound ==
    ASSUME TypeOK PROVE Workers \in 0 .. Length /\ Workers <= map.concurrency /\ (Length > 0 => Workers > 0)
  BY LengthAssumption DEF TypeOK, MapSpec, Workers

(* Before its workers are called a map has taken nothing.                  *)
LEMMA InitMapIInv == Init => MapIInv
<1> SUFFICES ASSUME Init PROVE MapIInv
  OBVIOUS
<1>1. TypeOK
  <2>1. map \in MapSpec
    BY MapsAssumption DEF Init
  <2>2. launched \in 0 .. Length /\ cursor \in 1 .. (Length + 1)
    BY LengthAssumption DEF Init
  <2>3. on \in [Element -> Element \cup {NoOne}] /\ result \in [Element -> Results]
    BY DEF Init, Results
  <2>4. status \in [Element -> Statuses]
    BY DEF Init, Statuses
  <2>5. broken \in BOOLEAN /\ ended \in BOOLEAN /\ dropped \in SUBSET Element /\ refused \in SUBSET Element
    BY DEF Init
  <2>6. answer \in [kind : Kinds, of : SUBSET Element]
    BY DEF Init, Unanswered, Kinds
  <2> QED
    BY <2>1, <2>2, <2>3, <2>4, <2>5, <2>6 DEF TypeOK
<1>2. WorkersAt
  BY <1>1, WorkersBound, LengthAssumption DEF Init, WorkersAt, Element
<1>3. TakenInOrder
  BY <1>1, LengthAssumption DEF Init, TakenInOrder, Element, TypeOK
<1>4. RunningIsAwaited /\ StoppedByABreak
  BY DEF Init, RunningIsAwaited, StoppedByABreak
<1>5. Recorded
  BY LengthAssumption DEF Init, Recorded, Element
<1>6. AnsweredAtRest /\ HeldBackBehindABreak /\ AnswerIsWhole
  BY DEF Init, AnsweredAtRest, HeldBackBehindABreak, AnswerIsWhole, Held
<1> QED
  BY <1>1, <1>2, <1>3, <1>4, <1>5, <1>6 DEF MapIInv

(* What taking the next element does to the elements: only the one taken   *)
(* changes, and it starts only where nothing holds it back.                *)
LEMMA TakeNextSteps ==
    ASSUME TypeOK, TakenInOrder, NEW w \in Element, NEW broke \in BOOLEAN, TakeNext(w, broke)
    PROVE  /\ status' \in [Element -> Statuses] /\ dropped' \in SUBSET Element
           /\ on' \in [Element -> Element \cup {NoOne}] /\ cursor' \in 1 .. (Length + 1)
           /\ \A x \in Element : x # w => on'[x] = on[x]
           /\ \/ /\ cursor > Length /\ on'[w] = NoOne
                 /\ cursor' = cursor /\ status' = status /\ dropped' = dropped
              \/ /\ cursor \in Element /\ on'[w] = cursor /\ cursor' = cursor + 1
                 /\ \A i \in Element : i # cursor => status'[i] = status[i]
                 /\ \A i \in Element : i # cursor => (i \in dropped' <=> i \in dropped)
                 /\ status'[cursor] # "pending"
                 /\ cursor \in dropped' => status'[cursor] = "cancelled"
                 /\ \/ status'[cursor] # "cancelled"
                    \/ cursor \in dropped'
                    \/ broke
                    \/ ended
                    \/ status[cursor] = "cancelled"
<1>1. CASE cursor > Length
  BY <1>1, LengthAssumption DEF TakeNext, TypeOK
<1>2. CASE cursor <= Length
  <2>1. cursor \in Element /\ cursor \in 1 .. (Length + 1) /\ cursor + 1 \in 1 .. (Length + 1)
    BY <1>2, LengthAssumption DEF TypeOK, Element
  <2>2. /\ on' = [on EXCEPT ![w] = cursor] /\ cursor' = cursor + 1 /\ RunElement(cursor, broke)
    BY <1>2, <2>1, LengthAssumption DEF TakeNext, NextIndex, Element
  <2>3. cursor \notin dropped
    BY <2>1, LengthAssumption DEF TakenInOrder, TypeOK, Element
  <2> DEFINE i0 == cursor
  <2>4. /\ status' \in [Element -> Statuses] /\ dropped' \in SUBSET Element
        /\ \A i \in Element : i # i0 => status'[i] = status[i]
        /\ \A i \in Element : i # i0 => (i \in dropped' <=> i \in dropped)
        /\ status'[i0] # "pending"
        /\ i0 \in dropped' => status'[i0] = "cancelled"
        /\ \/ status'[i0] # "cancelled" \/ i0 \in dropped' \/ broke \/ ended \/ status[i0] = "cancelled"
    <3>1. i0 \in Element /\ i0 \notin dropped
      BY <2>1, <2>3
    <3>2. RunElement(i0, broke)
      BY <2>2
    <3>3. status \in [Element -> Statuses] /\ dropped \in SUBSET Element
      BY DEF TypeOK
    <3> HIDE DEF i0
    <3>4. CASE status[i0] # "pending" /\ UNCHANGED <<status, dropped>>
      BY <3>1, <3>3, <3>4
    <3>5. CASE HoldsBack(broke) /\ status' = [status EXCEPT ![i0] = "cancelled"] /\ UNCHANGED dropped
      BY <3>1, <3>3, <3>5 DEF HoldsBack, Statuses
    <3>6. CASE Judge(i0)
      <4>1. CASE status' = [status EXCEPT ![i0] = IF map.calls THEN "running" ELSE "done"] /\ UNCHANGED dropped
        BY <3>1, <3>3, <4>1 DEF Statuses
      <4>2. CASE status' = [status EXCEPT ![i0] = "cancelled"] /\ dropped' = dropped \cup {i0}
        BY <3>1, <3>3, <4>2 DEF Statuses
      <4>3. CASE status' = [status EXCEPT ![i0] = "failed"] /\ UNCHANGED dropped
        BY <3>1, <3>3, <4>3 DEF Statuses
      <4> QED
        BY <3>6, <4>1, <4>2, <4>3 DEF Judge
    <3> QED
      BY <3>2, <3>4, <3>5, <3>6 DEF RunElement
  <2>5. /\ on' \in [Element -> Element \cup {NoOne}] /\ on'[w] = cursor
        /\ \A x \in Element : x # w => on'[x] = on[x]
    BY <2>1, <2>2 DEF TypeOK
  <2> QED
    BY <2>1, <2>2, <2>4, <2>5
<1> QED
  BY <1>1, <1>2, LengthAssumption DEF TypeOK

(* Taking the next element keeps what is said of the elements, of whoever  *)
(* takes it and whatever it leaves: `w` must have been at nothing, or at an*)
(* element no longer in flight.                                            *)
LEMMA TakeNextKeeps ==
    ASSUME MapIInv, NEW w \in Element, NEW broke \in BOOLEAN, TakeNext(w, broke),
           on[w] # NoOne => status[on[w]] # "running",
           broken => broke,
           broke => ended \/ (~map.collects /\ \E j \in Element : j < cursor /\ status[j] = "failed"),
           UNCHANGED <<map, ended>>, broken' = broke
    PROVE  TakenInOrder' /\ RunningIsAwaited' /\ StoppedByABreak' /\ HeldBackBehindABreak'
<1>0. TypeOK /\ TakenInOrder /\ RunningIsAwaited /\ HeldBackBehindABreak
  BY DEF MapIInv
<1>1. cursor \in Nat /\ cursor' \in Nat /\ cursor <= cursor'
  BY <1>0, TakeNextSteps, LengthAssumption DEF TypeOK, Element
<1>2. TakenInOrder'
  <2>1. CASE cursor > Length /\ cursor' = cursor /\ status' = status /\ dropped' = dropped
    BY <1>0, <2>1 DEF TakenInOrder
  <2>2. CASE cursor \in Element /\ cursor' = cursor + 1
    <3>1. \A i \in Element : i # cursor =>
             status'[i] = status[i] /\ (i \in dropped' <=> i \in dropped)
      BY <1>0, <1>1, <2>2, TakeNextSteps, LengthAssumption
    <3>2. status'[cursor] # "pending" /\ (cursor \in dropped' => status'[cursor] = "cancelled")
      BY <1>0, <1>1, <2>2, TakeNextSteps, LengthAssumption DEF Element
    <3>3. \A i \in Element : i < cursor' => status'[i] # "pending"
      BY <1>0, <1>1, <2>2, <3>1, <3>2 DEF TakenInOrder, Element
    <3>4. \A i \in Element : i >= cursor' => status'[i] \in {"pending", "seeded", "cancelled"}
      BY <1>0, <1>1, <2>2, <3>1 DEF TakenInOrder, Element
    <3>5. \A i \in dropped' : i \in Element
      BY <1>0, TakeNextSteps
    <3>6. \A i \in dropped' : status'[i] = "cancelled" /\ i < cursor'
      BY <1>0, <1>1, <2>2, <3>1, <3>2, <3>5 DEF TakenInOrder, Element
    <3> QED
      BY <3>3, <3>4, <3>6 DEF TakenInOrder
  <2> QED
    BY <1>0, <2>1, <2>2, TakeNextSteps
<1>3. RunningIsAwaited'
  <2> SUFFICES ASSUME NEW i \in Element, status'[i] = "running" PROVE \E x \in Element : on'[x] = i
    BY DEF RunningIsAwaited
  <2>1. CASE status[i] = "running"
    <3>1. PICK x \in Element : on[x] = i
      BY <1>0, <2>1 DEF RunningIsAwaited
    <3>2. i # NoOne
      BY LengthAssumption DEF Element, NoOne
    <3>3. x # w
      BY <2>1, <3>1, <3>2
    <3> QED
      BY <1>0, <3>1, <3>3, TakeNextSteps
  <2>2. CASE status[i] # "running"
    <3>1. i = cursor /\ on'[w] = cursor
      BY <1>0, <2>2, TakeNextSteps
    <3> QED
      BY <3>1
  <2> QED
    BY <2>1, <2>2
<1>4. \A j \in Element : j < cursor => status'[j] = status[j] /\ (j \in dropped' <=> j \in dropped)
  BY <1>0, TakeNextSteps, LengthAssumption DEF TypeOK, Element
<1>5. StoppedByABreak'
  <2>1. CASE ~broke
    BY <2>1 DEF StoppedByABreak
  <2>2. CASE broke /\ ended
    BY <2>2 DEF StoppedByABreak
  <2>3. CASE broke /\ ~ended
    <3>1. ~map.collects
      BY <2>3
    <3>2. PICK j \in Element : j < cursor /\ status[j] = "failed"
      BY <2>3
    <3>3. j < cursor' /\ status'[j] = "failed"
      BY <3>2, <1>1, <1>4 DEF Element
    <3> QED
      BY <3>1, <3>3 DEF StoppedByABreak
  <2> QED
    BY <2>1, <2>2, <2>3
<1>6. HeldBackBehindABreak'
  <2> SUFFICES ASSUME NEW i \in Element, Held(i)', ~ended
               PROVE  ~map.collects /\ \E j \in 1 .. (i - 1) : status'[j] = "failed"
    BY DEF HeldBackBehindABreak
  <2>1. status'[i] = "cancelled" /\ i \notin dropped'
    BY DEF Held
  <2>2. CASE Held(i)
    <3>1. ~map.collects
      BY <1>0, <2>2 DEF HeldBackBehindABreak
    <3>2. PICK j \in 1 .. (i - 1) : status[j] = "failed"
      BY <1>0, <2>2 DEF HeldBackBehindABreak
    <3>3. j \in Element
      BY LengthAssumption DEF Element
    <3>4. j < cursor
      BY <1>0, <3>2, <3>3, <1>1 DEF TakenInOrder, Element
    <3> QED
      BY <3>1, <3>2, <3>3, <3>4, <1>4
  <2>3. CASE ~Held(i)
    <3>1. i = cursor
      BY <1>0, <2>1, <2>3, TakeNextSteps DEF Held
    <3>2. status[cursor] # "cancelled"
      BY <1>0, <1>1, <2>3, <3>1 DEF Held, TakenInOrder, Element
    <3>3. broke
      BY <1>0, <2>1, <3>1, <3>2, TakeNextSteps
    <3>4. ~map.collects
      BY <3>3
    <3>5. PICK j \in Element : j < cursor /\ status[j] = "failed"
      BY <3>3
    <3>6. j \in 1 .. (i - 1) /\ status'[j] = "failed"
      BY <3>1, <3>5, <1>1, <1>4 DEF Element
    <3> QED
      BY <3>4, <3>6
  <2> QED
    BY <2>2, <2>3
<1> QED
  BY <1>2, <1>3, <1>5, <1>6

(* An element taken, and not the one just taken, stands as it was.         *)
LEMMA OthersStand ==
    ASSUME TypeOK, TakenInOrder, NEW w \in Element, NEW broke \in BOOLEAN, TakeNext(w, broke),
           NEW i \in Element, i < cursor', on'[w] # i
    PROVE  i < cursor /\ status'[i] = status[i] /\ (i \in dropped' <=> i \in dropped)
<1>1. i \in Nat /\ cursor \in Nat
  BY LengthAssumption DEF TypeOK, Element
<1>2. CASE cursor' = cursor /\ status' = status /\ dropped' = dropped
  BY <1>2
<1>3. CASE cursor' = cursor + 1 /\ on'[w] = cursor
  <2>1. i # cursor
    BY <1>3
  <2>2. i < cursor
    BY <1>1, <1>3, <2>1
  <2> QED
    BY <1>1, <2>1, <2>2, TakeNextSteps
<1> QED
  BY <1>2, <1>3, TakeNextSteps

(* What a worker has left behind stands as it was recorded, and nothing it *)
(* leaves behind is in flight.                                             *)
LEMMA CameToStands ==
    ASSUME NEW i \in Element, status'[i] = status[i], i \in dropped' <=> i \in dropped
    PROVE  CameTo(i)' = CameTo(i)
  BY DEF CameTo

(* A worker is called: it takes its first element.                         *)
LEMMA LaunchKeeps == ASSUME MapIInv, Launch PROVE MapIInv'
<1> DEFINE w == launched + 1
<1>0. TypeOK /\ WorkersAt /\ TakenInOrder /\ StoppedByABreak /\ Recorded
  BY DEF MapIInv
<1>1. /\ answer = Unanswered /\ launched < Workers /\ launched' = w /\ TakeNext(w, broken)
      /\ UNCHANGED <<map, refused, result, broken, ended, answer>>
  BY DEF Launch
<1>2. launched \in Nat /\ w \in Element /\ w \in 0 .. Length /\ w <= Workers /\ Workers' = Workers
  BY <1>0, <1>1, WorkersBound, LengthAssumption DEF TypeOK, Element, Workers
<1>3. broken \in BOOLEAN
  BY <1>0 DEF TypeOK
<1>4. on[w] = NoOne
  BY <1>0, <1>2 DEF WorkersAt
<1> HIDE DEF w
<1>5. TypeOK'
  BY <1>0, <1>1, <1>2, <1>3, TakeNextSteps DEF TypeOK
<1>6. WorkersAt'
  BY <1>0, <1>1, <1>2, <1>3, TakeNextSteps, LengthAssumption DEF WorkersAt, TypeOK, Element, NoOne, w
<1>7. TakenInOrder' /\ RunningIsAwaited' /\ StoppedByABreak' /\ HeldBackBehindABreak'
  <2>1. broken => ended \/ (~map.collects /\ \E j \in Element : j < cursor /\ status[j] = "failed")
    BY <1>0 DEF StoppedByABreak
  <2> QED
    BY <1>1, <1>2, <1>3, <1>4, <2>1, TakeNextKeeps
<1>8. Recorded'
  <2> SUFFICES ASSUME NEW i \in Element, i < cursor', \A x \in Element : on'[x] # i
               PROVE  result'[i] = CameTo(i)'
    BY DEF Recorded
  <2>1. i < cursor /\ status'[i] = status[i] /\ (i \in dropped' <=> i \in dropped)
    BY <1>0, <1>1, <1>2, <1>3, OthersStand
  <2>2. \A x \in Element : on[x] # i
    BY <1>0, <1>1, <1>2, <1>3, <1>4, TakeNextSteps, LengthAssumption DEF Element, NoOne
  <2> QED
    BY <1>0, <1>1, <2>1, <2>2, CameToStands DEF Recorded
<1>9. AnsweredAtRest' /\ AnswerIsWhole'
  BY <1>1 DEF AnsweredAtRest, AnswerIsWhole
<1> QED
  BY <1>5, <1>6, <1>7, <1>8, <1>9 DEF MapIInv

(* A worker records what its element came to and takes the next.           *)
LEMMA TurnKeeps == ASSUME MapIInv, NEW w \in Element, Turn(w) PROVE MapIInv'
<1> DEFINE e == on[w]
<1>0. TypeOK /\ WorkersAt /\ TakenInOrder /\ StoppedByABreak /\ Recorded /\ AnsweredAtRest
      /\ HeldBackBehindABreak
  BY DEF MapIInv
<1>1. /\ Launched /\ e # NoOne /\ status[e] # "running"
      /\ result' = [result EXCEPT ![e] = CameTo(e)]
      /\ broken' = (broken \/ StopsMap(CameTo(e))) /\ TakeNext(w, broken')
      /\ UNCHANGED <<map, launched, refused, ended, answer>>
  BY DEF Turn
<1>2. e \in Element /\ e < cursor /\ w <= launched
  BY <1>0, <1>1 DEF TypeOK, WorkersAt
<1>3. broken' \in BOOLEAN
  BY <1>1
<1>4. answer = Unanswered
  BY <1>0, <1>1 DEF AnsweredAtRest, Launched
<1>5. CameTo(e) \in Results
  BY DEF CameTo, Results
<1>6. broken' => ended \/ (~map.collects /\ \E j \in Element : j < cursor /\ status[j] = "failed")
  <2>1. CASE broken
    BY <1>0, <2>1 DEF StoppedByABreak
  <2>2. CASE StopsMap(CameTo(e))
    <3>1. ~map.collects /\ CameTo(e) \in {"broke", "held"}
      BY <2>2 DEF StopsMap, Failing
    <3>2. CASE CameTo(e) = "broke"
      <4>1. status[e] = "failed"
        BY <3>2 DEF CameTo
      <4> QED
        BY <1>2, <3>1, <4>1
    <3>3. CASE CameTo(e) = "held"
      <4>1. status[e] \notin {"seeded", "done", "failed"} /\ e \notin dropped
        BY <3>3 DEF CameTo
      <4>2. Held(e)
        BY <1>0, <1>1, <1>2, <4>1 DEF TypeOK, Statuses, TakenInOrder, Held
      <4>3. CASE ended
        BY <4>3
      <4>4. CASE ~ended
        <5>1. PICK j \in 1 .. (e - 1) : status[j] = "failed"
          BY <1>0, <1>2, <4>2, <4>4 DEF HeldBackBehindABreak
        <5>2. j \in Element /\ j < cursor
          BY <1>0, <1>2, LengthAssumption DEF TypeOK, Element
        <5> QED
          BY <3>1, <5>1, <5>2
      <4> QED
        BY <4>3, <4>4
    <3> QED
      BY <3>1, <3>2, <3>3
  <2>3. CASE ~broken'
    BY <2>3
  <2> QED
    BY <1>1, <2>1, <2>2, <2>3
<1> HIDE DEF e
<1>7. TypeOK'
  BY <1>0, <1>1, <1>2, <1>3, <1>5, TakeNextSteps DEF TypeOK
<1>8. WorkersAt'
  <2>1. Workers' = Workers
    BY <1>1 DEF Workers
  <2>2. launched' = launched /\ launched <= Workers'
    BY <1>0, <1>1, <2>1 DEF WorkersAt
  <2>3. cursor \in Nat /\ cursor' \in Nat /\ cursor <= cursor'
    <3>1. cursor \in 1 .. (Length + 1) /\ cursor' \in 1 .. (Length + 1)
      BY <1>0, <1>1, <1>3, TakeNextSteps DEF TypeOK
    <3>2. cursor' = cursor \/ cursor' = cursor + 1
      BY <1>0, <1>1, <1>3, TakeNextSteps
    <3> QED
      BY <3>1, <3>2, LengthAssumption
  <2>4. \A x \in Element \ {w} : on'[x] = on[x]
    BY <1>0, <1>1, <1>3, TakeNextSteps
  <2>5. \A x \in Element \ {w} : on'[x] # NoOne => x <= launched /\ on'[x] < cursor'
    BY <1>0, <2>3, <2>4, LengthAssumption DEF WorkersAt, TypeOK, Element, NoOne
  <2>6. \A x \in Element \ {w} : on'[x] = NoOne /\ x <= launched => cursor' > Length
    BY <1>0, <2>3, <2>4, LengthAssumption DEF WorkersAt
  <2>7. \/ on'[w] = NoOne /\ cursor' > Length
        \/ on'[w] = cursor /\ on'[w] # NoOne /\ cursor' = cursor + 1
    <3>1. \/ cursor > Length /\ on'[w] = NoOne /\ cursor' = cursor
          \/ cursor \in Element /\ on'[w] = cursor /\ cursor' = cursor + 1
      BY <1>0, <1>1, <1>3, TakeNextSteps
    <3> QED
      BY <3>1, LengthAssumption DEF Element, NoOne
  <2> QED
    BY <1>2, <2>2, <2>3, <2>5, <2>6, <2>7 DEF WorkersAt
<1>9. TakenInOrder' /\ RunningIsAwaited' /\ StoppedByABreak' /\ HeldBackBehindABreak'
  <2>1. broken => broken'
    BY <1>1
  <2>2. on[w] # NoOne => status[on[w]] # "running"
    BY <1>1 DEF e
  <2> QED
    BY <1>1, <1>3, <1>6, <2>1, <2>2, TakeNextKeeps
<1>10. Recorded'
  <2> SUFFICES ASSUME NEW i \in Element, i < cursor', \A x \in Element : on'[x] # i
               PROVE  result'[i] = CameTo(i)'
    BY DEF Recorded
  <2>1. i < cursor /\ status'[i] = status[i] /\ (i \in dropped' <=> i \in dropped)
    BY <1>0, <1>1, <1>3, OthersStand
  <2>2. CameTo(i)' = CameTo(i)
    BY <2>1, CameToStands
  <2>3. CASE i = e
    BY <1>0, <1>1, <1>2, <2>2, <2>3 DEF TypeOK
  <2>4. CASE i # e
    <3>1. \A x \in Element : on[x] # i
      BY <1>0, <1>1, <1>3, <2>4, TakeNextSteps DEF e
    <3> QED
      BY <1>0, <1>1, <1>2, <2>1, <2>2, <2>4, <3>1 DEF TypeOK, Recorded
  <2> QED
    BY <2>3, <2>4
<1>11. AnsweredAtRest' /\ AnswerIsWhole'
  BY <1>1, <1>4 DEF AnsweredAtRest, AnswerIsWhole
<1> QED
  BY <1>7, <1>8, <1>9, <1>10, <1>11 DEF MapIInv

(* A list that is too long: nothing has started, and nothing will.         *)
LEMMA TooLongKeeps == ASSUME MapIInv, TooLong PROVE MapIInv'
<1>1. /\ answer' = [kind |-> "fault", of |-> {}] /\ map.limit < Length
      /\ UNCHANGED <<map, launched, on, cursor, status, dropped, refused, result, broken, ended>>
  BY DEF TooLong
<1>2. TypeOK'
  BY <1>1 DEF MapIInv, TypeOK, Kinds
<1>3. AnsweredAtRest' /\ AnswerIsWhole'
  <2>1. ~(map.limit >= Length)'
    BY <1>1, LengthAssumption DEF MapIInv, TypeOK, MapSpec
  <2> QED
    BY <2>1 DEF AnsweredAtRest, AnswerIsWhole
<1>4. WorkersAt' /\ TakenInOrder' /\ RunningIsAwaited' /\ StoppedByABreak' /\ Recorded' /\ HeldBackBehindABreak'
  BY <1>1 DEF MapIInv, WorkersAt, Workers, TakenInOrder, RunningIsAwaited, StoppedByABreak, Recorded, CameTo,
              HeldBackBehindABreak, Held
<1> QED
  BY <1>2, <1>3, <1>4 DEF MapIInv

(* A handler settles its element.                                          *)
LEMMA HandlerKeeps == ASSUME MapIInv, NEW i \in Element, Handler(i) PROVE MapIInv'
<1>1. PICK st \in {"done", "failed"} : Settle(i, st)
  BY DEF Handler, Answer, Break, Refuse
<1>2. /\ status[i] = "running" /\ status' = [status EXCEPT ![i] = st]
      /\ UNCHANGED <<map, launched, on, cursor, dropped, result, broken, ended, answer>>
  BY <1>1 DEF Settle
<1>3. refused' \in SUBSET Element
  BY DEF Handler, Answer, Break, Refuse, MapIInv, TypeOK
<1>4. TypeOK'
  BY <1>2, <1>3 DEF MapIInv, TypeOK, Statuses
<1>5. PICK w \in Element : on[w] = i
  BY <1>2 DEF MapIInv, RunningIsAwaited
<1>6. i # NoOne /\ i < cursor
  BY <1>5, LengthAssumption DEF MapIInv, WorkersAt, Element, NoOne
<1>7. status'[i] = st /\ \A j \in Element : j # i => status'[j] = status[j]
  BY <1>2 DEF MapIInv, TypeOK
<1>8. ~(answer # Unanswered /\ map.limit >= Length)
  BY <1>5, <1>6 DEF MapIInv, AnsweredAtRest
<1>9. WorkersAt' /\ AnsweredAtRest' /\ AnswerIsWhole'
  BY <1>2, <1>8 DEF MapIInv, WorkersAt, Workers, AnsweredAtRest, AnswerIsWhole
<1>10. TakenInOrder'
  <2>1. i \notin dropped
    BY <1>2 DEF MapIInv, TakenInOrder
  <2>2. \A d \in dropped : d \in Element
    BY DEF MapIInv, TypeOK
  <2>3. cursor \in Nat /\ \A j \in Element : j >= cursor => j # i
    BY <1>6, LengthAssumption DEF MapIInv, TypeOK, Element
  <2> QED
    BY <1>2, <1>7, <2>1, <2>2, <2>3 DEF MapIInv, TakenInOrder
<1>11. RunningIsAwaited'
  BY <1>2, <1>7 DEF MapIInv, RunningIsAwaited
<1>12. StoppedByABreak'
  BY <1>2, <1>7 DEF MapIInv, StoppedByABreak
<1>13. Recorded'
  BY <1>2, <1>5, <1>7, CameToStands DEF MapIInv, Recorded
<1>14. HeldBackBehindABreak'
  <2> SUFFICES ASSUME NEW h \in Element, Held(h)', ~ended
               PROVE  ~map.collects /\ \E j \in 1 .. (h - 1) : status'[j] = "failed"
    BY <1>2 DEF HeldBackBehindABreak
  <2>1. Held(h)
    BY <1>2, <1>7 DEF Held
  <2>2. ~map.collects
    BY <2>1 DEF MapIInv, HeldBackBehindABreak
  <2>3. PICK j \in 1 .. (h - 1) : status[j] = "failed"
    BY <2>1 DEF MapIInv, HeldBackBehindABreak
  <2>4. j \in Element /\ j # i
    BY <1>2, <2>3, LengthAssumption DEF Element
  <2> QED
    BY <1>7, <2>2, <2>3, <2>4
<1> QED
  BY <1>4, <1>9, <1>10, <1>11, <1>12, <1>13, <1>14 DEF MapIInv

(* The run ends elsewhere, or its signal fires and cancels what is pending.*)
LEMMA EndingKeeps == ASSUME MapIInv, RunEnds \/ CancelRun PROVE MapIInv'
<1>1. /\ answer = Unanswered /\ ended' = TRUE /\ status' \in {status, CancelPending(status)}
      /\ UNCHANGED <<map, launched, on, cursor, dropped, refused, result, broken, answer>>
  BY DEF RunEnds, CancelRun
<1>2. \A j \in Element : status'[j] = status[j] \/ (status[j] = "pending" /\ status'[j] = "cancelled")
  BY <1>1 DEF CancelPending
<1>3. TypeOK'
  BY <1>1 DEF MapIInv, TypeOK, CancelPending, Statuses
<1>4. WorkersAt' /\ AnsweredAtRest' /\ AnswerIsWhole' /\ StoppedByABreak' /\ HeldBackBehindABreak'
  BY <1>1 DEF MapIInv, WorkersAt, Workers, AnsweredAtRest, AnswerIsWhole, StoppedByABreak, HeldBackBehindABreak
<1>5. RunningIsAwaited'
  BY <1>1, <1>2 DEF MapIInv, RunningIsAwaited
<1>6. TakenInOrder'
  <2>1. \A d \in dropped : d \in Element
    BY DEF MapIInv, TypeOK
  <2> QED
    BY <1>1, <1>2, <2>1 DEF MapIInv, TakenInOrder
<1>7. Recorded'
  <2> SUFFICES ASSUME NEW i \in Element, i < cursor, \A x \in Element : on[x] # i
               PROVE  result[i] = CameTo(i)'
    BY <1>1 DEF Recorded
  <2>1. status'[i] = status[i]
    BY <1>2 DEF MapIInv, TakenInOrder
  <2> QED
    BY <1>1, <2>1, CameToStands DEF MapIInv, Recorded
<1> QED
  BY <1>3, <1>4, <1>5, <1>6, <1>7 DEF MapIInv

(* With every worker back, every element was taken and has settled, and    *)
(* what it came to is recorded.                                            *)
LEMMA AtRest ==
    ASSUME MapIInv, launched = Workers, \A w \in Element : on[w] = NoOne
    PROVE  \A i \in Element : /\ i < cursor
                              /\ status[i] \notin {"pending", "running"}
                              /\ result[i] = CameTo(i)
<1>1. \A i \in Element : i < cursor
  <2> SUFFICES ASSUME NEW i \in Element PROVE i < cursor
    OBVIOUS
  <2>1. Length \in Nat /\ i \in 1 .. Length /\ cursor \in Nat
    BY LengthAssumption DEF MapIInv, TypeOK, Element
  <2>2. 1 \in Element /\ 1 <= launched
    BY <2>1, WorkersBound DEF MapIInv, Element
  <2>3. cursor > Length
    BY <2>2 DEF MapIInv, WorkersAt
  <2> QED
    BY <2>1, <2>3
<1>2. \A i \in Element : status[i] \notin {"pending", "running"} /\ result[i] = CameTo(i)
  <2> SUFFICES ASSUME NEW i \in Element
               PROVE  status[i] \notin {"pending", "running"} /\ result[i] = CameTo(i)
    OBVIOUS
  <2>1. i # NoOne
    BY LengthAssumption DEF Element, NoOne
  <2>2. \A w \in Element : on[w] # i
    BY <2>1
  <2> QED
    BY <1>1, <2>2 DEF MapIInv, TakenInOrder, RunningIsAwaited, Recorded
<1> QED
  BY <1>1, <1>2

(* The node answers: every element has been taken and left behind, so what *)
(* was recorded of it is what it came to.                                  *)
LEMMA CollectKeeps == ASSUME MapIInv, Collect PROVE MapIInv'
<1>1. /\ launched = Workers /\ \A w \in Element : on[w] = NoOne
      /\ answer' = IF Decisive = {} THEN [kind |-> "values", of |-> {i \in Element : result[i] # "dropped"}]
                   ELSE [kind |-> IF Blamed \subseteq refused THEN "refused" ELSE "fault", of |-> Blamed]
      /\ UNCHANGED <<map, launched, on, cursor, status, dropped, refused, result, broken, ended>>
  BY DEF Collect, Launched
<1>2. \A i \in Element : i < cursor
  BY <1>1, AtRest
<1>3. \A i \in Element : status[i] \notin {"pending", "running"} /\ result[i] = CameTo(i)
  BY <1>1, AtRest
<1>4. Blamed \in SUBSET Element
  BY DEF Blamed, Decisive
<1>5. TypeOK'
  BY <1>1, <1>4 DEF MapIInv, TypeOK, Kinds
<1>6. AnsweredAtRest'
  BY <1>1 DEF AnsweredAtRest, Workers
<1>7. AnswerIsWhole'
  <2>1. \A i \in Element : status'[i] \notin {"pending", "running"}
    BY <1>1, <1>3
  <2>2. ASSUME answer'.kind = "values"
        PROVE  /\ answer'.of = Element \ dropped
               /\ \A i \in Element : ~Held(i)
               /\ map.collects \/ \A i \in Element : status[i] # "failed"
    <3>1. Decisive = {} /\ answer' = [kind |-> "values", of |-> {i \in Element : result[i] # "dropped"}]
      BY <1>1, <2>2
    <3>2. \A i \in Element : CameTo(i) = "dropped" <=> i \in dropped
      BY DEF CameTo, MapIInv, TakenInOrder
    <3>3. \A i \in Element : Held(i) => CameTo(i) = "held"
      BY DEF CameTo, Held
    <3>4. \A i \in Element : status[i] = "failed" => CameTo(i) = "broke"
      <4> SUFFICES ASSUME NEW i \in Element, status[i] = "failed" PROVE CameTo(i) = "broke"
        OBVIOUS
      <4>1. status[i] \notin {"seeded", "done"} /\ i \notin dropped
        BY DEF MapIInv, TakenInOrder
      <4> QED
        BY <4>1 DEF CameTo
    <3>5. answer'.of = Element \ dropped
      BY <1>3, <3>1, <3>2
    <3>6. \A i \in Element : ~Held(i)
      BY <1>3, <3>1, <3>3 DEF Decisive
    <3>7. map.collects \/ \A i \in Element : status[i] # "failed"
      BY <1>3, <3>1, <3>4 DEF Decisive
    <3> QED
      BY <3>5, <3>6, <3>7
  <2>3. (\A i \in Element : ~Held(i)') <=> (\A i \in Element : ~Held(i))
    BY <1>1 DEF Held
  <2> QED
    BY <1>1, <2>1, <2>2, <2>3 DEF AnswerIsWhole
<1>8. WorkersAt' /\ TakenInOrder' /\ RunningIsAwaited' /\ StoppedByABreak' /\ Recorded' /\ HeldBackBehindABreak'
  BY <1>1 DEF MapIInv, WorkersAt, Workers, TakenInOrder, RunningIsAwaited, StoppedByABreak, Recorded, CameTo,
              HeldBackBehindABreak, Held
<1> QED
  BY <1>5, <1>6, <1>7, <1>8 DEF MapIInv

(* A step that changes nothing.                                            *)
LEMMA StutterKeeps == ASSUME MapIInv, UNCHANGED vars PROVE MapIInv'
<1>1. UNCHANGED <<map, launched, on, cursor, status, dropped, refused, result, broken, ended, answer>>
  BY DEF vars
<1> QED
  BY <1>1 DEF MapIInv, TypeOK, WorkersAt, Workers, TakenInOrder, RunningIsAwaited, StoppedByABreak, Recorded, CameTo,
              AnsweredAtRest, HeldBackBehindABreak, Held, AnswerIsWhole

(* Every step keeps it.                                                    *)
LEMMA NextMapIInv == MapIInv /\ [Next]_vars => MapIInv'
  BY TooLongKeeps, LaunchKeeps, CollectKeeps, TurnKeeps, HandlerKeeps, EndingKeeps, StutterKeeps
     DEF Next, Work, Answered

-----------------------------------------------------------------------------
(* So it holds of every map node's run.                                    *)
LEMMA MapInvariant == Spec => []MapIInv
  BY InitMapIInv, NextMapIInv, PTL DEF Spec

(* Elements start in index order, whatever order they settle in and however*)
(* many workers there are (spec.ts: "in index order").                     *)
THEOREM ElementsStartInOrder == Spec => []StartedInOrder
<1>1. MapIInv => StartedInOrder
  <2> SUFFICES ASSUME MapIInv, NEW i \in Element, NEW j \in Element, i < j, Ran(j)
               PROVE  status[i] # "pending"
    BY DEF StartedInOrder
  <2>1. status[j] \notin {"pending", "seeded", "cancelled"}
    BY DEF Ran
  <2>2. i \in Nat /\ j \in Nat /\ cursor \in Nat
    BY LengthAssumption DEF MapIInv, TypeOK, Element
  <2>3. j < cursor
    BY <2>1, <2>2 DEF MapIInv, TakenInOrder
  <2>4. i < cursor
    BY <2>2, <2>3
  <2> QED
    BY <2>4 DEF MapIInv, TakenInOrder
<1> QED
  BY <1>1, MapInvariant, PTL

(* An element is held back only where one before it failed and the map     *)
(* stops for that, or where the run had ended (map.ts:230-233).            *)
THEOREM HeldBackForAReason == Spec => []HeldBackBehindABreak
<1>1. MapIInv => HeldBackBehindABreak
  BY DEF MapIInv
<1> QED
  BY <1>1, MapInvariant, PTL

(* A node that answers has answered for every element: none is still in    *)
(* flight, none of its values is missing, and no failure is passed over    *)
(* that was not to be collected (map.ts:194-219).                          *)
THEOREM AnswersForEveryElement == Spec => []AnswerIsWhole
<1>1. MapIInv => AnswerIsWhole
  BY DEF MapIInv
<1> QED
  BY <1>1, MapInvariant, PTL

(* Never more elements are in flight than `concurrency` allows (map.ts:2): *)
(* each has a worker of its own, and there are no more workers.            *)
THEOREM ConcurrencyIsBounded == Spec => []BoundedConcurrency
<1>1. MapIInv => BoundedConcurrency
  <2> SUFFICES ASSUME MapIInv PROVE BoundedConcurrency
    OBVIOUS
  <2> DEFINE flying == {i \in Element : status[i] = "running"}
             crew   == 1 .. Workers
             at     == [w \in crew |-> on[w]]
             held   == {at[w] : w \in crew}
  <2>1. Workers \in Nat /\ Workers <= map.concurrency /\ crew \subseteq Element
    BY WorkersBound, LengthAssumption DEF MapIInv, Element
  <2>2. IsFiniteSet(crew) /\ Cardinality(crew) = Workers
    <3>1. IsFiniteSet(crew) /\ Cardinality(crew) = IF 1 > Workers THEN 0 ELSE Workers - 1 + 1
      BY <2>1, FS_Interval
    <3> QED
      BY <2>1, <3>1
  <2>3. at \in Surjection(crew, held)
    BY DEF Surjection
  <2>4. IsFiniteSet(held) /\ Cardinality(held) <= Workers
    BY <2>2, <2>3, FS_Surjection
  <2>5. flying \subseteq held
    <3> SUFFICES ASSUME NEW i \in Element, status[i] = "running" PROVE i \in held
      OBVIOUS
    <3>1. PICK w \in Element : on[w] = i
      BY DEF MapIInv, RunningIsAwaited
    <3>2. w <= launched /\ launched <= Workers
      BY <3>1, LengthAssumption DEF MapIInv, WorkersAt, Element, NoOne
    <3>3. w \in crew
      BY <2>1, <3>2, LengthAssumption DEF MapIInv, TypeOK, Element
    <3> QED
      BY <3>1, <3>3
  <2>6. IsFiniteSet(flying) /\ Cardinality(flying) <= Cardinality(held)
    BY <2>4, <2>5, FS_Subset
  <2>7. Cardinality(flying) \in Nat /\ Cardinality(held) \in Nat
    BY <2>4, <2>6, FS_CardinalityType
  <2>8. map.concurrency \in Nat
    BY DEF MapIInv, TypeOK, MapSpec
  <2>9. Cardinality(flying) <= map.concurrency
    <3> HIDE DEF flying, held
    <3> QED
      BY <2>1, <2>4, <2>6, <2>7, <2>8
  <2> QED
    BY <2>9 DEF BoundedConcurrency
<1> QED
  BY <1>1, MapInvariant, PTL

(* A nonempty set of naturals has a least member: of the intervals up to   *)
(* its members one contains no other.                                      *)
LEMMA LeastNatural ==
    ASSUME NEW S \in SUBSET Nat, S # {}
    PROVE  \E m \in S : \A k \in S : m <= k
<1> DEFINE Upto(k) == 0 .. k
           F == {Upto(k) : k \in S}
<1>1. F \subseteq FiniteSubsetsOf(Nat) /\ F # {}
  <2>1. \A k \in S : IsFiniteSet(0 .. k) /\ 0 .. k \in SUBSET Nat
    BY FS_Interval
  <2> QED BY <2>1 DEF FiniteSubsetsOf
<1>2. \E x \in F : \A y \in F : ~ (<<y, x>> \in StrictSubsetOrdering(Nat))
  <2> HIDE DEF F
  <2>1. IsWellFoundedOn(StrictSubsetOrdering(Nat), FiniteSubsetsOf(Nat))
    BY FS_StrictSubsetOrderingWellFounded
  <2> QED BY <1>1, <2>1, WFMin
<1>3. PICK m \in S : \A k \in S : ~ (<<Upto(k), Upto(m)>> \in StrictSubsetOrdering(Nat))
  BY <1>2
<1>4. ASSUME NEW k \in S, k < m PROVE FALSE
  <2>1. Upto(k) \subseteq Upto(m) /\ Upto(k) # Upto(m) /\ Upto(m) \in SUBSET Nat
    BY <1>4
  <2> QED
    BY <2>1, <1>3 DEF StrictSubsetOrdering
<1> QED
  BY <1>3, <1>4

(* Where the run went on, the first element that leaves the map without    *)
(* its values broke: one held back was so behind one that broke.           *)
LEMMA FirstBroke ==
    ASSUME MapIInv, Collect, ~ended, Decisive # {}
    PROVE  \E i \in Element : Blamed = {i} /\ status[i] = "failed"
<1>1. Element \subseteq Nat /\ Length \in Nat
  BY LengthAssumption DEF Element
<1>2. PICK i \in Decisive : \A j \in Decisive : i <= j
  <2>1. Decisive \in SUBSET Nat
    BY <1>1 DEF Decisive
  <2> QED
    BY <2>1, LeastNatural
<1>3. i \in Element
  BY <1>2 DEF Decisive
<1>4. Blamed = {i}
  <2>1. \A k \in Blamed : k = i
    BY <1>1, <1>2, <1>3 DEF Blamed, Decisive
  <2> QED
    BY <1>2, <2>1 DEF Blamed
<1>5. \A j \in Element : result[j] = CameTo(j) /\ status[j] \notin {"pending", "running"}
  BY AtRest DEF Collect, Launched
<1>6. CASE result[i] = "broke"
  BY <1>3, <1>4, <1>5, <1>6 DEF CameTo
<1>7. CASE result[i] = "held"
  <2>1. Held(i)
    BY <1>3, <1>5, <1>7 DEF Held, CameTo, MapIInv, TypeOK, Statuses
  <2>2. PICK j \in 1 .. (i - 1) : ~map.collects /\ status[j] = "failed"
    BY <1>3, <2>1 DEF MapIInv, HeldBackBehindABreak
  <2>3. j \in Element /\ j < i
    BY <1>1, <1>3, <2>2 DEF Element
  <2>4. j \in Decisive
    BY <1>5, <2>2, <2>3 DEF CameTo, Decisive, MapIInv, TakenInOrder
  <2> QED
    BY <1>1, <1>2, <1>3, <2>3, <2>4
<1> QED
  BY <1>2, <1>6, <1>7 DEF Decisive

(* An answer that stands is about elements that stand.                     *)
LEMMA AnsweredStands ==
    ASSUME MapIInv, answer # Unanswered, map.limit >= Length, [Next]_vars
    PROVE  UNCHANGED <<map, status, refused, answer, ended>>
<1>1. \A w \in Element : on[w] = NoOne
  BY DEF MapIInv, AnsweredAtRest
<1>2. \A i \in Element : status[i] # "running"
  BY <1>1 DEF MapIInv, RunningIsAwaited, NoOne, Element
<1> QED
  BY <1>1, <1>2
  DEF Next, Work, TooLong, Launch, Collect, Turn, RunEnds, CancelRun, Answered, Handler, Answer,
      Break, Refuse, Settle, vars

LEMMA BlamesABreakKeeps == MapIInv /\ BlamesABreak /\ [Next]_vars => BlamesABreak'
<1> SUFFICES ASSUME MapIInv, BlamesABreak, [Next]_vars,
                    answer'.kind \in {"refused", "fault"}, map'.limit >= Length, ~ended'
             PROVE  \E i \in Element : /\ answer'.of = {i}
                                       /\ status'[i] = "failed"
                                       /\ answer'.kind = "refused" <=> i \in refused'
  BY DEF BlamesABreak
<1>1. map' = map
  BY DEF Next, Work, TooLong, Launch, Collect, Turn, RunEnds, CancelRun, Answered, Handler, Answer,
         Break, Refuse, Settle, vars
<1>2. CASE answer # Unanswered
  <2>1. UNCHANGED <<map, status, refused, answer, ended>>
    BY <1>1, <1>2, AnsweredStands
  <2> QED
    BY <2>1 DEF BlamesABreak
<1>3. CASE answer = Unanswered /\ Collect
  <2>1. UNCHANGED <<status, refused, ended>> /\ Decisive # {}
    BY <1>3 DEF Collect
  <2>2. PICK i \in Element : Blamed = {i} /\ status[i] = "failed"
    BY <1>3, <2>1, FirstBroke
  <2>3. answer' = [kind |-> IF Blamed \subseteq refused THEN "refused" ELSE "fault", of |-> Blamed]
    BY <1>3, <2>1 DEF Collect
  <2> QED
    BY <2>1, <2>2, <2>3
<1>4. CASE answer = Unanswered /\ ~Collect
  <2>1. ~TooLong
    BY <1>1, LengthAssumption DEF TooLong, MapIInv, TypeOK, MapSpec
  <2>2. answer' = answer
    BY <1>4, <2>1
    DEF Next, Work, Launch, Turn, RunEnds, CancelRun, Answered, Handler, Answer, Break, Refuse,
        Settle, vars
  <2> QED
    BY <1>4, <2>2 DEF Unanswered
<1> QED
  BY <1>2, <1>3, <1>4

(* A map that fails while its run goes on answers for an element that did  *)
(* break or refuse, and refuses just when that element refused             *)
(* (map.ts: collectMap, the first failure in index order).                 *)
THEOREM MapBlamesABreak == Spec => []BlamesABreak
<1>1. Init => BlamesABreak
  BY DEF Init, BlamesABreak, Unanswered
<1>2. (MapIInv /\ BlamesABreak) /\ [Next]_vars => (MapIInv /\ BlamesABreak)'
  BY NextMapIInv, BlamesABreakKeeps
<1> QED
  BY <1>1, <1>2, InitMapIInv, PTL DEF Spec

-----------------------------------------------------------------------------
(* The run of an atomic graph (Atomic).                                    *)

AtTheDatabase == {"joining", "writing"}

(* A node's handler begins with it, and whoever the run waits for has one. *)
Handlers ==
    \A n \in Node :
        /\ handler[n] = "none" <=> node[n] = "pending"
        /\ node[n] = "running" => handler[n] \in AtTheDatabase

(* The scope is opened once, and only then has a connection.               *)
OpenedOnce ==
    /\ begun = IF opening = "none" THEN 0 ELSE 1
    /\ opening = "none" <=> connection = {}

(* Whoever waits for the transaction, writes to it or has written reaches  *)
(* its connection; it is written to once open; a node is done once its     *)
(* statement is in.                                                        *)
Joins ==
    /\ \A n \in Node : handler[n] \in AtTheDatabase => connection = {graph.reaches[n]}
    /\ \A n \in Node : handler[n] = "writing" => opening = "open"
    /\ \A n \in written : handler[n] = "over" /\ connection = {graph.reaches[n]}
    /\ \A n \in Node : node[n] = "done" => n \in written

(* Settling follows the report, and finds no transaction only where none   *)
(* was opened.                                                             *)
Settling ==
    /\ settle # "none" => report # "none"
    /\ settle = "nothing" => opening = "none"
    /\ settle = "committed" => report = "done"
    /\ caller = "answered" => report = "done" /\ settle \in {"committed", "nothing"}

AtomicIInv == AtomicTypeOK /\ Handlers /\ OpenedOnce /\ Joins /\ Settling

(* It holds of a run that has started nothing.                             *)
LEMMA InitAtomicIInv == AtomicInit => AtomicIInv
<1> SUFFICES ASSUME AtomicInit PROVE AtomicIInv
  OBVIOUS
<1> USE DEF AtomicInit
<1>1. Cardinality(Node) \in Nat
  BY NodeAssumption, FS_CardinalityType
<1>2. AtomicTypeOK
  <2>1. 0 \in 0 .. Cardinality(Node)
    BY <1>1
  <2>2. graph \in AtomicGraph
    BY GraphsAssumption
  <2>3. node \in [Node -> {"pending", "running", "done", "failed"}]
    OBVIOUS
  <2>4. handler \in [Node -> {"none", "joining", "writing", "over"}]
    OBVIOUS
  <2>5. QED
    BY <2>1, <2>2, <2>3, <2>4 DEF AtomicTypeOK
<1>3. Handlers /\ Joins
  BY DEF Handlers, Joins, AtTheDatabase
<1>4. OpenedOnce /\ Settling
  BY DEF OpenedOnce, Settling
<1>5. QED
  BY <1>2, <1>3, <1>4 DEF AtomicIInv

(* Where there is a node, one transaction is within the bound of begun.    *)
LEMMA RoomForOne == \A n \in Node : 1 \in 0 .. Cardinality(Node)
<1> SUFFICES ASSUME NEW n \in Node PROVE 1 \in 0 .. Cardinality(Node)
  OBVIOUS
<1>1. Cardinality(Node) \in Nat /\ Cardinality(Node) # 0
  BY NodeAssumption, FS_CardinalityType, FS_EmptySet
<1>2. QED
  BY <1>1

(* A node that starts opens the transaction, joins it, or is refused for   *)
(* its connection.                                                         *)
LEMMA StartKeeps == ASSUME AtomicIInv, NEW n \in Node, Start(n) PROVE AtomicIInv'
<1> USE DEF AtomicIInv
<1>0. /\ node[n] = "pending" /\ report = "none" /\ handler[n] = "none" /\ n \notin written
      /\ UNCHANGED <<graph, written, report, settle, caller>>
  BY DEF Start, Handlers, Joins
<1>1. CASE /\ Unopened
           /\ connection' = {graph.reaches[n]} /\ opening' = "pending" /\ begun' = begun + 1
           /\ node' = [node EXCEPT ![n] = "running"] /\ handler' = [handler EXCEPT ![n] = "joining"]
           /\ UNCHANGED halted
  <2>1. begun' = 1 /\ 1 \in 0 .. Cardinality(Node)
    BY <1>1, RoomForOne DEF Unopened, OpenedOnce
  <2>2. AtomicTypeOK'
    BY <1>0, <1>1, <2>1 DEF AtomicTypeOK, AtomicGraph
  <2>3. Handlers'
    BY <1>0, <1>1 DEF Handlers, AtTheDatabase, AtomicTypeOK
  <2>4. OpenedOnce'
    BY <1>1, <2>1 DEF OpenedOnce
  <2>5. \A m \in Node : handler[m] \notin AtTheDatabase
    BY <1>1 DEF Unopened, OpenedOnce, Joins
  <2>6. written = {} /\ \A m \in Node : node[m] # "done"
    BY <1>1 DEF Unopened, OpenedOnce, Joins
  <2>7. Joins'
    BY <1>0, <1>1, <2>5, <2>6 DEF Joins, AtTheDatabase, AtomicTypeOK
  <2>8. Settling'
    BY <1>0, <1>1 DEF Settling
  <2>9. QED
    BY <2>2, <2>3, <2>4, <2>7, <2>8
<1>2. CASE /\ ~Unopened /\ SameConnection(n)
           /\ node' = [node EXCEPT ![n] = "running"] /\ handler' = [handler EXCEPT ![n] = "joining"]
           /\ UNCHANGED <<connection, opening, begun, halted>>
  <2>1. AtomicTypeOK'
    BY <1>0, <1>2 DEF AtomicTypeOK
  <2>2. Handlers'
    BY <1>0, <1>2 DEF Handlers, AtTheDatabase, AtomicTypeOK
  <2>3. Joins'
    BY <1>0, <1>2 DEF Joins, AtTheDatabase, AtomicTypeOK, SameConnection
  <2>4. OpenedOnce' /\ Settling'
    BY <1>0, <1>2 DEF OpenedOnce, Settling
  <2>5. QED
    BY <2>1, <2>2, <2>3, <2>4
<1>3. CASE /\ ~Unopened /\ ~SameConnection(n)
           /\ handler' = [handler EXCEPT ![n] = "over"] /\ Broke(n)
           /\ UNCHANGED <<connection, opening, begun>>
  <2>1. AtomicTypeOK'
    BY <1>0, <1>3 DEF AtomicTypeOK, Broke
  <2>2. Handlers'
    BY <1>0, <1>3 DEF Handlers, AtTheDatabase, AtomicTypeOK, Broke
  <2>3. Joins'
    BY <1>0, <1>3 DEF Joins, AtTheDatabase, AtomicTypeOK, Broke
  <2>4. OpenedOnce' /\ Settling'
    BY <1>0, <1>3 DEF OpenedOnce, Settling
  <2>5. QED
    BY <2>1, <2>2, <2>3, <2>4
<1>4. QED
  BY <1>1, <1>2, <1>3 DEF Start

(* A handler that goes on finds the transaction it waited for; what becomes*)
(* of its statement is what the run says of the node.                      *)
LEMMA CallKeeps == ASSUME AtomicIInv, NEW n \in Node, Call(n) PROVE AtomicIInv'
<1> USE DEF AtomicIInv
<1>0. UNCHANGED <<graph, connection, opening, begun, report, settle, caller>>
  BY DEF Call, Joined, Wrote
<1>1. OpenedOnce' /\ Settling'
  BY <1>0 DEF OpenedOnce, Settling
<1>2. PICK s \in {"running", "done", "failed"} : node' = [node EXCEPT ![n] = IF @ = "running" THEN s ELSE @]
                                               /\ (s = "done" => n \in written')
                                               /\ (s = "running" => handler'[n] = "writing")
  BY DEF Call, Joined, Wrote, Broke, AtomicTypeOK
<1>3. PICK h \in {"writing", "over"} : handler' = [handler EXCEPT ![n] = h] /\ handler[n] \in AtTheDatabase
                                     /\ (h = "writing" => opening = "open" /\ handler[n] = "joining")
  BY DEF Call, Joined, Wrote, AtTheDatabase
<1>4. written' \in {written, written \cup {n}} /\ (n \in written' => handler'[n] = "over")
  BY DEF Call, Joined, Wrote, Joins, AtomicTypeOK
<1>5. halted' \in BOOLEAN
  BY DEF Call, Joined, Wrote, Broke, AtomicTypeOK
<1>6. AtomicTypeOK'
  BY <1>0, <1>2, <1>3, <1>4, <1>5 DEF AtomicTypeOK
<1>7. \A m \in Node : handler'[m] = (IF m = n THEN h ELSE handler[m])
                      /\ (m # n => node'[m] = node[m])
  BY <1>2, <1>3 DEF AtomicTypeOK
<1>8. Handlers'
  BY <1>2, <1>3, <1>7 DEF Handlers, AtTheDatabase, AtomicTypeOK
<1>9. Joins'
  BY <1>0, <1>2, <1>3, <1>4, <1>7 DEF Joins, AtTheDatabase, AtomicTypeOK, Handlers
<1>10. QED
  BY <1>1, <1>6, <1>8, <1>9

(* Every step keeps it.                                                    *)
LEMMA NextAtomicIInv == AtomicIInv /\ [AtomicNext]_atomicVars => AtomicIInv'
<1> SUFFICES ASSUME AtomicIInv, [AtomicNext]_atomicVars PROVE AtomicIInv'
  OBVIOUS
<1> USE DEF AtomicIInv
<1>1. ASSUME NEW n \in Node, Start(n) PROVE AtomicIInv'
  BY <1>1, StartKeeps
<1>2. ASSUME NEW n \in Node, Call(n) PROVE AtomicIInv'
  BY <1>2, CallKeeps
<1>3. ASSUME NEW n \in Node, Timeout(n) PROVE AtomicIInv'
  <2>1. AtomicTypeOK' /\ OpenedOnce' /\ Settling'
    BY <1>3 DEF Timeout, Broke, AtomicTypeOK, OpenedOnce, Settling
  <2>2. Handlers' /\ Joins'
    BY <1>3 DEF Timeout, Broke, AtomicTypeOK, Handlers, Joins, AtTheDatabase
  <2>3. QED
    BY <2>1, <2>2
<1>4. CASE Database
  BY <1>4 DEF Database, OpeningSettles, AtomicTypeOK, Handlers, OpenedOnce, Joins, Settling
<1>5. CASE Quiesce
  BY <1>5 DEF Quiesce, Outcome, AtomicTypeOK, Handlers, OpenedOnce, Joins, Settling
<1>6. CASE SettleScope
  <2>1. AtomicTypeOK' /\ Settling'
    BY <1>6 DEF SettleScope, NoneOpened, EndTransaction, Commits, ScopeAnswered, ScopeFailed,
                AtomicTypeOK, Settling
  <2>2. Handlers' /\ OpenedOnce' /\ Joins'
    BY <1>6 DEF SettleScope, Handlers, OpenedOnce, Joins
  <2>3. QED
    BY <2>1, <2>2
<1>7. CASE Cancel
  BY <1>7 DEF Cancel, AtomicTypeOK, Handlers, OpenedOnce, Joins, Settling
<1>8. CASE UNCHANGED atomicVars
  BY <1>8 DEF atomicVars, AtomicTypeOK, Handlers, OpenedOnce, Joins, Settling
<1>9. QED
  BY <1>1, <1>2, <1>3, <1>4, <1>5, <1>6, <1>7, <1>8 DEF AtomicNext, Over

(* One transaction is begun, on one connection, and nothing is written but *)
(* through it, for any graph (atomic.ts:17-21).                            *)
THEOREM OneTransactionOnly == AtomicSpec => []OneTransaction
<1>1. AtomicIInv => OneTransaction
  BY DEF AtomicIInv, OpenedOnce, Joins, OneTransaction
<1>2. QED
  BY <1>1, InitAtomicIInv, NextAtomicIInv, PTL DEF AtomicSpec

(* The node that ran the graph answers only what was committed, whole, for *)
(* any graph and any faults (atomic.ts, compiler.ts).                      *)
THEOREM AnswersTheCommitted == AtomicSpec => []AnswersWhatItCommitted
<1>1. AtomicIInv => AnswersWhatItCommitted
  BY DEF AtomicIInv, AtomicTypeOK, OpenedOnce, Joins, Settling, AnswersWhatItCommitted
<1>2. QED
  BY <1>1, InitAtomicIInv, NextAtomicIInv, PTL DEF AtomicSpec

-----------------------------------------------------------------------------
(* Every kind: nothing starts late.                                        *)

(* What a worker's cursor and reports are; a run that was cancelled is not *)
(* waiting for its next try, since the signal cuts a wait short.           *)
CallIInv ==
    /\ cursor \in Nat \ {0}
    /\ status \in [Element -> Statuses]
    /\ broken \in BOOLEAN
    /\ aborted => stage # "wait"

(* It holds before anything was called.                                    *)
LEMMA InitCallIInv == CallInit => CallIInv
<1> SUFFICES ASSUME CallInit PROVE CallIInv
  OBVIOUS
<1>1. cursor = 1 /\ ~broken /\ broken \in BOOLEAN /\ status \in [Element -> Statuses]
  BY DEF CallInit, Init, Statuses
<1>2. aborted => stage # "wait"
  BY DEF CallInit, Tried!Init
<1>3. cursor \in Nat \ {0}
  BY <1>1
<1>4. broken \in BOOLEAN
  BY <1>1
<1>5. QED
  BY <1>1, <1>2, <1>3, <1>4 DEF CallIInv

(* Taking the next element starts it only where neither a break nor the end*)
(* of the run holds it back.                                               *)
LEMMA TakeNextHeldBack ==
    ASSUME CallIInv, NEW w, NEW broke, TakeNext(w, broke)
    PROVE  /\ cursor' \in Nat \ {0} /\ status' \in [Element -> Statuses]
           /\ broke \/ ended => \A i \in Element : status[i] = "pending" => ~Ran(i)'
<1> USE DEF CallIInv, Statuses, Ran
<1>1. CASE cursor > Length
  BY <1>1, LengthAssumption DEF TakeNext
<1>2. CASE ~(cursor > Length)
  <2>1. /\ cursor' = cursor + 1 /\ RunElement(cursor, broke) /\ cursor \in Element
    BY <1>2, LengthAssumption DEF TakeNext, NextIndex, Element
  <2>2. CASE status[cursor] # "pending"
    BY <2>1, <2>2 DEF RunElement
  <2>3. CASE status[cursor] = "pending" /\ HoldsBack(broke)
    BY <2>1, <2>3 DEF RunElement
  <2>4. CASE status[cursor] = "pending" /\ ~HoldsBack(broke)
    BY <2>1, <2>4 DEF RunElement, Judge, HoldsBack
  <2>5. QED
    BY <2>2, <2>3, <2>4
<1>3. QED
  BY <1>1, <1>2

(* A step of a map keeps it, and starts nothing late.                      *)
LEMMA MapStepInTime ==
    ASSUME CallIInv, Next, UNCHANGED <<aborted, stage>>
    PROVE  /\ CallIInv'
           /\ broken' \/ ended => \A i \in Element : status[i] = "pending" => ~Ran(i)'
<1>1. CASE Launch
  <2>1. TakeNext(launched + 1, broken) /\ broken' = broken
    BY <1>1 DEF Launch
  <2>2. QED
    BY <2>1, TakeNextHeldBack DEF CallIInv
<1>2. ASSUME NEW w \in Element, Turn(w)
      PROVE  /\ CallIInv'
             /\ broken' \/ ended => \A i \in Element : status[i] = "pending" => ~Ran(i)'
  <2>1. TakeNext(w, broken') /\ broken' = (broken \/ StopsMap(CameTo(on[w])))
    BY <1>2 DEF Turn
  <2>2. broken' \in BOOLEAN
    BY <2>1
  <2>3. QED
    BY <2>1, <2>2, TakeNextHeldBack DEF CallIInv
<1>3. ASSUME NEW i \in Element, Handler(i)
      PROVE  /\ CallIInv'
             /\ \A j \in Element : status[j] = "pending" => ~Ran(j)'
  BY <1>3 DEF Handler, Answer, Break, Refuse, Settle, CallIInv, Statuses, Ran
<1>4. CASE TooLong \/ Collect \/ RunEnds \/ Answered
  BY <1>4 DEF TooLong, Collect, RunEnds, Answered, vars, CallIInv, Ran
<1>5. CASE CancelRun
  BY <1>5 DEF CancelRun, CancelPending, CallIInv, Statuses, Ran
<1>6. QED
  BY <1>1, <1>2, <1>3, <1>4, <1>5 DEF Next, Work

(* A step of a call that is tried keeps it, and tries nothing late.        *)
LEMMA TriedStepInTime ==
    ASSUME CallIInv, Tried!Next, UNCHANGED vars
    PROVE  /\ CallIInv'
           /\ aborted => UNCHANGED <<tries, attempts>>
<1>0. UNCHANGED <<cursor, status, broken>>
  BY DEF vars
<1>1. ASSUME NEW e, NEW fl, Tried!EndTry(e, fl), UNCHANGED aborted
      PROVE  /\ CallIInv'
             /\ aborted => UNCHANGED <<tries, attempts>>
  BY <1>0, <1>1 DEF Tried!EndTry, Tried!Stand, Tried!TryAgain, Tried!Wait, Tried!GoesOn, CallIInv
<1>2. CASE Tried!Timeout
  BY <1>1, <1>2 DEF Tried!Timeout
<1>3. ASSUME NEW e \in Tried!Endings, Tried!SettleTry(e)
      PROVE  /\ CallIInv'
             /\ aborted => UNCHANGED <<tries, attempts>>
  BY <1>1, <1>3 DEF Tried!SettleTry
<1>4. CASE Tried!WaitOver
  BY <1>0, <1>4 DEF Tried!WaitOver, Tried!TryAgain, CallIInv
<1>5. CASE Tried!Abort
  BY <1>0, <1>5 DEF Tried!Abort, Tried!Stand, CallIInv
<1>6. CASE Tried!Over
  BY <1>0, <1>6 DEF Tried!Over, Tried!vars, CallIInv
<1>7. ASSUME NEW t \in Tried!Try, Tried!SettleLate(t) \/ Tried!Attach(t)
      PROVE  /\ CallIInv'
             /\ aborted => UNCHANGED <<tries, attempts>>
  BY <1>0, <1>7 DEF Tried!SettleLate, Tried!Attach, CallIInv
<1>8. QED
  BY <1>2, <1>3, <1>4, <1>5, <1>6, <1>7 DEF Tried!Next, Tried!Wrapper

(* What a step of any kind may not start.                                  *)
StartsInTime ==
    /\ kind = "map" /\ (broken' \/ ended) =>
          \A i \in Element : status[i] = "pending" => ~Ran(i)'
    /\ aborted => tries' = tries /\ attempts' = attempts

(* A step of any kind keeps it, and starts nothing late.                   *)
LEMMA CallStepInTime == CallIInv /\ [CallNext]_allVars => CallIInv' /\ StartsInTime
<1> SUFFICES ASSUME CallIInv, [CallNext]_allVars PROVE CallIInv' /\ StartsInTime
  OBVIOUS
<1> USE DEF StartsInTime
<1>1. CASE MapStep(Next)
  BY <1>1, MapStepInTime DEF MapStep, triedVars
<1>2. CASE TriedStep(Tried!Next)
  <2>1. \A i \in Element : status[i] = "pending" => ~Ran(i)'
    BY <1>2 DEF TriedStep, vars, Ran
  <2>2. QED
    BY <1>2, <2>1, TriedStepInTime DEF TriedStep
<1>3. CASE UNCHANGED <<vars, triedVars>>
  <2>1. UNCHANGED <<cursor, status, broken, aborted, stage, tries, attempts>>
    BY <1>3 DEF vars, triedVars
  <2>2. QED
    BY <2>1 DEF CallIInv, Ran
<1>4. QED
  BY <1>1, <1>2, <1>3 DEF CallNext, AtomicStep, allVars

(* Once an element broke under `fail`, or the run has ended, no further    *)
(* element starts; once the run was cancelled nothing is tried again:      *)
(* whatever the list, the policy and the order (map.ts, attempts.ts).      *)
THEOREM NothingStartsLate == CallSpec => NoLateStart
<1>1. CallIInv /\ [CallNext]_allVars => StartsInTime
  BY CallStepInTime
<1>2. QED
  BY <1>1, InitCallIInv, CallStepInTime, PTL DEF CallSpec, NoLateStart, StartsInTime

-----------------------------------------------------------------------------
(* A call that is tried: what its report tells.                            *)

(* What ^ is at base 2, which no backend knows of it.                      *)
PowersDouble == \A n \in Nat : 2 ^ n \in Nat /\ 2 ^ (n + 1) = 2 * 2 ^ n

(* A wait follows a try that is to be tried again; the report's last wait  *)
(* is the one before the latest try.                                       *)
Told ==
    /\ policy \in Tried!Policy
    /\ tries \in Nat \ {0} /\ tries <= policy.times + 1
    /\ attempts \in Seq([ending : Tried!Endings, waited : Nat])
    /\ stage = "wait" => /\ tries <= policy.times /\ ending \in Tried!Endings
                         /\ Tried!Retried(ending)
    /\ tries > 1 => attempts[tries - 1].waited = Tried!WaitBefore(tries - 2)
    /\ TriesAreTold

(* A wait is a number, and the next one is as long or longer.              *)
LEMMA WaitsGrow ==
    ASSUME PowersDouble, policy \in Tried!Policy, NEW n \in Nat
    PROVE  /\ Tried!WaitBefore(n) \in Nat
           /\ Tried!WaitBefore(n) <= Tried!WaitBefore(n + 1)
<1> DEFINE ms == policy.backoff * 2 ^ n
           next == policy.backoff * 2 ^ (n + 1)
<1>1. policy.backoff \in Nat /\ 2 ^ n \in Nat /\ 2 ^ (n + 1) = 2 * 2 ^ n
  BY DEF PowersDouble, Tried!Policy
<1>2. \A b, p \in Nat : b * p \in Nat /\ b * (2 * p) = 2 * (b * p)
  BY SMT
<1>3. ms \in Nat /\ next = 2 * ms
  BY <1>1, <1>2
<1>4. next \in Nat /\ ms <= next
  BY <1>3
<1> HIDE DEF ms, next
<1>5. /\ Tried!WaitBefore(n) = IF ms < TimerMax THEN ms ELSE TimerMax
      /\ Tried!WaitBefore(n + 1) = IF next < TimerMax THEN next ELSE TimerMax
  BY <1>3, <1>4, PoliciesAssumption DEF Tried!WaitBefore, Tried!Timer, ms, next
<1>6. QED
  BY <1>3, <1>4, <1>5, PoliciesAssumption

(* A further try is told with the wait before it.                          *)
LEMMA TryAgainTold ==
    ASSUME PowersDouble, Told, NEW e \in Tried!Endings, NEW fl, Tried!Retried(e),
           tries <= policy.times, Tried!TryAgain(e, fl), UNCHANGED policy
    PROVE  Told'
<1> DEFINE new == [ending |-> e, waited |-> Tried!WaitBefore(tries - 1)]
<1>1. tries \in Nat \ {0} /\ tries - 1 \in Nat /\ Len(attempts) = tries - 1 /\ policy.times \in Nat
  BY DEF Told, TriesAreTold, Tried!TriesAreTold, Tried!Policy
<1>2. Tried!WaitBefore(tries - 1) \in Nat
  BY <1>1, WaitsGrow DEF Told
<1>3. new \in [ending : Tried!Endings, waited : Nat]
  BY <1>2
<1>4. tries' = tries + 1 /\ attempts' = Append(attempts, new) /\ stage' = "try"
  BY DEF Tried!TryAgain
<1> HIDE DEF new
<1>5. /\ attempts' \in Seq([ending : Tried!Endings, waited : Nat])
      /\ Len(attempts') = tries /\ attempts'[tries] = new
      /\ \A k \in 1 .. (tries - 1) : attempts'[k] = attempts[k]
  BY <1>1, <1>3, <1>4 DEF Told
<1>6. new.waited = Tried!WaitBefore(tries - 1) /\ new.waited \in Nat /\ new.ending = e
  BY <1>2 DEF new
<1>7. \A k \in 1 .. (tries - 1) : attempts[k].waited \in Nat
  <2> SUFFICES ASSUME NEW k \in 1 .. (tries - 1) PROVE attempts[k].waited \in Nat
    OBVIOUS
  <2>1. attempts[k] \in [ending : Tried!Endings, waited : Nat]
    <3>1. k \in 1 .. Len(attempts)
      BY <1>1
    <3>2. attempts \in Seq([ending : Tried!Endings, waited : Nat])
      BY DEF Told
    <3>3. QED
      BY <3>1, <3>2, ElementOfSeq, Zenon
  <2>2. QED
    BY <2>1
<1>8. \A k \in 1 .. (tries - 1) : \A j \in 1 .. k : attempts[j].waited <= attempts[k].waited
  BY <1>1 DEF Told, TriesAreTold, Tried!TriesAreTold
<1>9. \A j \in 1 .. (tries - 1) : attempts[j].waited <= new.waited
  <2> SUFFICES ASSUME NEW j \in 1 .. (tries - 1) PROVE attempts[j].waited <= new.waited
    OBVIOUS
  <2>1. tries > 1 /\ tries - 2 \in Nat /\ (tries - 2) + 1 = tries - 1 /\ tries - 1 \in 1 .. (tries - 1)
    BY <1>1
  <2>2. attempts[tries - 1].waited <= new.waited
    <3>1. attempts[tries - 1].waited = Tried!WaitBefore(tries - 2)
      BY <2>1 DEF Told
    <3>2. Tried!WaitBefore(tries - 2) <= Tried!WaitBefore((tries - 2) + 1)
      BY <2>1, WaitsGrow DEF Told
    <3>3. QED
      BY <1>6, <2>1, <3>1, <3>2
  <2>3. attempts[j].waited <= attempts[tries - 1].waited
    BY <1>8, <2>1
  <2>4. QED
    BY <1>6, <1>7, <2>1, <2>2, <2>3
<1>10. \A k \in 1 .. tries : \A j \in 1 .. k : attempts'[j].waited <= attempts'[k].waited
  <2> SUFFICES ASSUME NEW k \in 1 .. tries, NEW j \in 1 .. k
               PROVE  attempts'[j].waited <= attempts'[k].waited
    OBVIOUS
  <2>1. CASE k = tries /\ j = tries
    BY <1>5, <1>6, <2>1
  <2>2. CASE k = tries /\ j # tries
    <3>1. j \in 1 .. (tries - 1)
      BY <1>1, <2>2
    <3>2. QED
      BY <1>5, <1>9, <2>2, <3>1
  <2>3. CASE k # tries
    <3>1. k \in 1 .. (tries - 1) /\ j \in 1 .. (tries - 1)
      BY <1>1, <2>3
    <3>2. QED
      BY <1>5, <1>8, <3>1
  <2>4. QED
    BY <2>1, <2>2, <2>3
<1>11. \A k \in 1 .. tries : Tried!Retried(attempts'[k].ending) /\ attempts'[k].ending # "refusal"
  <2>1. \A k \in 1 .. (tries - 1) : Tried!Retried(attempts[k].ending) /\ attempts[k].ending # "refusal"
    BY <1>1 DEF Told, TriesAreTold, Tried!TriesAreTold
  <2>2. e # "refusal"
    BY DEF Tried!Retried
  <2>3. SUFFICES ASSUME NEW k \in 1 .. tries
                 PROVE  Tried!Retried(attempts'[k].ending) /\ attempts'[k].ending # "refusal"
    OBVIOUS
  <2>4. CASE k = tries
    BY <1>5, <1>6, <2>2, <2>4
  <2>5. CASE k # tries
    <3>1. k \in 1 .. (tries - 1)
      BY <1>1, <2>5
    <3>2. QED
      BY <1>5, <2>1, <3>1
  <2>6. QED
    BY <2>4, <2>5
<1>12. TriesAreTold'
  BY <1>1, <1>4, <1>5, <1>10, <1>11 DEF TriesAreTold, Tried!TriesAreTold, Tried!Retried, Told
<1>13. attempts'[tries' - 1].waited = (Tried!WaitBefore(tries - 2))'
  <2>1. tries' - 1 = tries /\ tries' - 2 = tries - 1
    BY <1>1, <1>4
  <2>2. QED
    BY <1>5, <1>6, <2>1 DEF Tried!WaitBefore, Tried!Timer
<1>14. policy' \in Tried!Policy /\ tries' \in Nat \ {0} /\ tries' <= policy'.times + 1
  BY <1>1, <1>4 DEF Told
<1>15. QED
  BY <1>4, <1>5, <1>12, <1>13, <1>14 DEF Told

(* A try that ends stands, is waited after, or is followed by the next.    *)
LEMMA EndTryTold ==
    ASSUME PowersDouble, Told, NEW e \in Tried!Endings, NEW fl, Tried!EndTry(e, fl), UNCHANGED policy
    PROVE  Told'
<1>1. CASE Tried!Stand(e, fl)
  BY <1>1 DEF Tried!Stand, Told, TriesAreTold, Tried!TriesAreTold, Tried!Retried, Tried!WaitBefore, Tried!Timer
<1>2. CASE Tried!GoesOn(e) /\ Tried!TryAgain(e, fl)
  BY <1>2, TryAgainTold DEF Tried!GoesOn
<1>3. CASE Tried!GoesOn(e) /\ Tried!Wait(e, fl)
  BY <1>3 DEF Tried!Wait, Tried!GoesOn, Told, TriesAreTold, Tried!TriesAreTold, Tried!Retried,
              Tried!WaitBefore, Tried!Timer
<1>4. QED
  BY <1>1, <1>2, <1>3 DEF Tried!EndTry

(* It holds of the first try, and nothing is reported then.                *)
LEMMA InitTold == CallInit => Told
<1> SUFFICES ASSUME CallInit PROVE Told
  OBVIOUS
<1>1. stage = "try" /\ tries = 1 /\ attempts = <<>> /\ policy \in Policies
  BY DEF CallInit, Tried!Init
<1>2. policy \in Tried!Policy /\ policy.times \in Nat
  BY <1>1, PoliciesAssumption DEF Tried!Policy
<1>3. QED
  BY <1>1, <1>2 DEF Told, TriesAreTold, Tried!TriesAreTold

(* Every step keeps it.                                                    *)
LEMMA NextTold == PowersDouble /\ Told /\ [CallNext]_allVars => Told'
<1> SUFFICES ASSUME PowersDouble, Told, [CallNext]_allVars PROVE Told'
  OBVIOUS
<1>1. CASE UNCHANGED <<policy, stage, tries, ending, attempts>>
  BY <1>1 DEF Told, TriesAreTold, Tried!TriesAreTold, Tried!Retried, Tried!WaitBefore, Tried!Timer
<1>2. CASE Tried!Timeout
  BY <1>2, EndTryTold DEF Tried!Timeout, Tried!Endings
<1>3. ASSUME NEW e \in Tried!Endings, Tried!SettleTry(e) PROVE Told'
  BY <1>3, EndTryTold DEF Tried!SettleTry
<1>4. CASE Tried!WaitOver
  BY <1>4, TryAgainTold DEF Tried!WaitOver, Told
<1>5. CASE Tried!Abort
  BY <1>1, <1>5 DEF Tried!Abort, Tried!Stand, Told, TriesAreTold, Tried!TriesAreTold, Tried!Retried,
              Tried!WaitBefore, Tried!Timer
<1>6. ASSUME NEW t \in Tried!Try, Tried!SettleLate(t) \/ Tried!Attach(t) PROVE Told'
  BY <1>1, <1>6 DEF Tried!SettleLate, Tried!Attach
<1>7. CASE Tried!Over
  BY <1>1, <1>7 DEF Tried!Over, Tried!vars
<1>8. CASE UNCHANGED triedVars
  BY <1>1, <1>8 DEF triedVars
<1>9. QED
  BY <1>2, <1>3, <1>4, <1>5, <1>6, <1>7, <1>8
     DEF CallNext, MapStep, TriedStep, AtomicStep, allVars, Tried!Next, Tried!Wrapper

(* A report tells every try that did not stand, within what the site says, *)
(* and waits that never shrink, for every policy (attempts.ts:91-93,       *)
(* 109-111).  That 2 ^ n doubles is a hypothesis, as nothing the provers   *)
(* know of ^ says it.                                                      *)
THEOREM EveryTryIsTold == PowersDouble /\ CallSpec => []TriesAreTold
<1>1. PowersDouble /\ CallInit => PowersDouble /\ Told
  BY InitTold
<1>2. (PowersDouble /\ Told) /\ [CallNext]_allVars => (PowersDouble /\ Told)'
  BY NextTold DEF PowersDouble
<1>3. PowersDouble /\ Told => TriesAreTold
  BY DEF Told
<1>4. QED
  BY <1>1, <1>2, <1>3, PTL DEF CallSpec
=============================================================================
