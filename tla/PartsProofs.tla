------------------------------- MODULE PartsProofs ------------------------------
(***************************************************************************)
(* Proofs about six of the small parts that share nothing.                 *)
(*                                                                         *)
(* Turns: the writers of one file take their turns one at a time and in    *)
(* the order they asked, however many ask and whoever gives up.            *)
(*                                                                         *)
(* Throttle: a connection never has more than its number of requests in    *)
(* flight or starting in a second, and never leaves a slot idle while one  *)
(* waits for it, however many requests come.                               *)
(*                                                                         *)
(* Exporter: no span is lost without being said, nor said and exported,    *)
(* whatever the sizes of batch, buffer and trace.                          *)
(*                                                                         *)
(* Renewal: a healthy delivery keeps its lock, for every window, latency   *)
(* and length of run.                                                      *)
(*                                                                         *)
(* Worker: whatever the connections and their queues, and wherever a start *)
(* fails, no queue is consumed once the stop is past the holds.            *)
(*                                                                         *)
(* Served: however many edits and reloads came before, a stop leaves       *)
(* nothing running, set up, or on disk, whatever reload it comes upon that *)
(* swaps nothing in after it.                                              *)
(***************************************************************************)
EXTENDS Turns, Throttle, Exporter, Renewal, Worker, Served, SequenceTheorems, FiniteSetTheorems, TLAPS

-----------------------------------------------------------------------------
(* The turns of a SQLite file.                                             *)

(* All those up to n have handed their turn on.                            *)
OverUpTo(n) == \A m \in Turn : m <= n => turn[m] = "over"

(* The turns asked for are the first ones; each waits for the one before   *)
(* it, or for nobody once those before it are over; the file forgets only  *)
(* when nobody is left; a resolved chain has nobody left behind it.        *)
Chained ==
    /\ \A n \in Turn : n > asked <=> turn[n] = "unasked"
    /\ last \in {NoTurn, asked}
    /\ last = NoTurn => OverUpTo(asked)
    /\ \A n \in Turn : before[n] \in {NoTurn, n - 1}
    /\ \A n \in Turn : n <= asked /\ before[n] = NoTurn => OverUpTo(n - 1)
    /\ \A n \in settled : OverUpTo(n)

(* Who is at the file is the first whose turn is not over.                 *)
First == \A n \in Turn : AtTheFile(n) => OverUpTo(n - 1)

TurnsIInv == TurnsTypeOK /\ Chained /\ First

(* It holds where nobody has asked.                                        *)
LEMMA TurnsInitIInv == TurnsInit => TurnsIInv
<1> SUFFICES ASSUME TurnsInit PROVE TurnsIInv
  OBVIOUS
<1> USE TurnsAssumption DEF TurnsInit, Turn, NoTurn
<1>1. TurnsTypeOK
  <2>1. settled \subseteq Turn /\ torn \in BOOLEAN
    BY Zenon
  <2>2. 0 \in 0 .. MaxTurns
    OBVIOUS
  <2>3. QED
    BY <2>1, <2>2 DEF TurnsTypeOK, TurnStages
<1>2. \A n \in Turn : turn[n] = "unasked" /\ before[n] = NoTurn /\ n > 0
  OBVIOUS
<1>3. \A n \in Turn : n <= asked => FALSE
  OBVIOUS
<1>4. Chained
  BY <1>2, <1>3 DEF Chained, OverUpTo
<1>5. First
  BY <1>2 DEF First, AtTheFile
<1>6. QED
  BY <1>1, <1>4, <1>5 DEF TurnsIInv

(* Whoever's turn has come finds all those before it over: nobody is       *)
(* before it, or the one before it is settled.                             *)
LEMMA ReachedIsFirst ==
    ASSUME TurnsIInv, NEW n \in Turn, turn[n] # "unasked", Reached(n)
    PROVE  OverUpTo(n - 1)
<1>1. n <= asked
  BY TurnsAssumption DEF TurnsIInv, TurnsTypeOK, Chained, Turn
<1>2. CASE before[n] = NoTurn
  BY <1>1, <1>2 DEF TurnsIInv, Chained
<1>3. CASE before[n] # NoTurn
  BY <1>3 DEF Reached, TurnsIInv, Chained
<1>4. QED
  BY <1>2, <1>3

(* A turn handed on by the first that has one keeps the invariant: those   *)
(* after it still wait for it, or the file has nobody left to forget.      *)
LEMMA HandOnIInv ==
    ASSUME TurnsIInv, NEW n \in Turn, turn[n] # "unasked", OverUpTo(n - 1), HandOn(n), UNCHANGED torn
    PROVE  TurnsIInv'
<1> USE TurnsAssumption DEF TurnsIInv, Turn, NoTurn
<1>1. TurnsTypeOK'
  BY DEF HandOn, TurnsTypeOK, TurnStages
<1>2. \A m \in Turn : turn'[m] = IF m = n THEN "over" ELSE turn[m]
  BY DEF HandOn, TurnsTypeOK
<1>3. \A m \in Turn : OverUpTo(m) => OverUpTo(m)'
  BY <1>2 DEF OverUpTo
<1>4. \A m \in Turn : OverUpTo(m - 1) => OverUpTo(m - 1)'
  BY <1>2 DEF OverUpTo
<1>5. n <= asked
  BY DEF TurnsTypeOK, Chained
<1>6. last' = NoTurn => OverUpTo(asked)'
  <2>1. CASE last = n
    BY <1>2, <1>5, <2>1 DEF TurnsTypeOK, Chained, OverUpTo, HandOn
  <2>2. CASE last # n
    BY <1>2, <2>2 DEF TurnsTypeOK, Chained, OverUpTo, HandOn, Forgets
  <2>3. QED
    BY <2>1, <2>2
<1>7. last' \in {NoTurn, asked'}
  BY DEF HandOn, Chained
<1>8. \A m \in Turn : m > asked' <=> turn'[m] = "unasked"
  BY <1>2, <1>5 DEF HandOn, Chained, TurnsTypeOK
<1>9. \A m \in settled' : OverUpTo(m)'
  BY <1>3 DEF HandOn, Chained, TurnsTypeOK
<1>10. \A m \in Turn : m <= asked' /\ before'[m] = NoTurn => OverUpTo(m - 1)'
  BY <1>4 DEF HandOn, Chained
<1>11. Chained'
  BY <1>6, <1>7, <1>8, <1>9, <1>10 DEF HandOn, Chained
<1>12. First'
  BY <1>2, <1>4 DEF First, AtTheFile
<1>13. QED
  BY <1>1, <1>11, <1>12

(* A turn that neither ends nor comes about leaves the chain as it is.     *)
LEMMA MoveIInv ==
    ASSUME TurnsIInv, NEW n \in Turn, NEW s \in TurnStages,
           s \notin {"over", "unasked"}, turn[n] \notin {"over", "unasked"},
           s \in {"working", "held", "ending"} => OverUpTo(n - 1),
           turn' = [turn EXCEPT ![n] = s],
           UNCHANGED <<asked, before, last, settled, torn>>
    PROVE  TurnsIInv'
<1> USE TurnsAssumption DEF TurnsIInv, Turn, NoTurn
<1>1. TurnsTypeOK'
  BY DEF TurnsTypeOK
<1>2. \A m \in Turn : turn'[m] = IF m = n THEN s ELSE turn[m]
  BY DEF TurnsTypeOK
<1>3. \A m \in Nat : OverUpTo(m) => OverUpTo(m)'
  BY <1>2 DEF OverUpTo
<1>4. Chained'
  BY <1>2, <1>3 DEF Chained, TurnsTypeOK
<1>5. First'
  BY <1>2, <1>3 DEF First, AtTheFile
<1>6. QED
  BY <1>1, <1>4, <1>5

(* Every step keeps it.                                                    *)
LEMMA TurnsNextIInv == TurnsIInv /\ [TurnsNext]_turnsVars => TurnsIInv'
<1> SUFFICES ASSUME TurnsIInv, [TurnsNext]_turnsVars PROVE TurnsIInv'
  OBVIOUS
<1> USE TurnsAssumption
<1>1. CASE Ask
  <2>1. asked + 1 \in Turn /\ asked' = asked + 1
    BY <1>1 DEF Ask, TurnsIInv, TurnsTypeOK, Turn
  <2>2. \A m \in Turn : turn'[m] = IF m = asked + 1 THEN "waiting" ELSE turn[m]
    BY <1>1, <2>1 DEF Ask, TurnsIInv, TurnsTypeOK
  <2>3. \A m \in Turn : before'[m] = IF m = asked + 1 THEN last ELSE before[m]
    BY <1>1, <2>1 DEF Ask, TurnsIInv, TurnsTypeOK
  <2>4. turn[asked + 1] = "unasked"
    BY <2>1 DEF TurnsIInv, Chained, TurnsTypeOK
  <2>5. \A m \in Nat : OverUpTo(m) => OverUpTo(m)'
    BY <2>2, <2>4 DEF OverUpTo
  <2>6. TurnsTypeOK'
    BY <1>1, <2>1 DEF Ask, TurnsIInv, TurnsTypeOK, TurnStages, Turn
  <2>7. \A m \in Turn : m > asked' <=> turn'[m] = "unasked"
    BY <2>1, <2>2 DEF TurnsIInv, Chained, TurnsTypeOK, Turn
  <2>8. last' = asked' /\ last' # NoTurn
    BY <1>1, <2>1 DEF Ask, TurnsIInv, TurnsTypeOK, NoTurn, Turn
  <2>9. \A m \in Turn : before'[m] \in {NoTurn, m - 1}
    BY <2>1, <2>3 DEF TurnsIInv, TurnsTypeOK, Chained
  <2>10. \A m \in Turn : m <= asked' /\ before'[m] = NoTurn => OverUpTo(m - 1)'
    <3> SUFFICES ASSUME NEW m \in Turn, m <= asked', before'[m] = NoTurn PROVE OverUpTo(m - 1)'
      OBVIOUS
    <3>1. CASE m = asked + 1
      BY <2>3, <2>5, <3>1 DEF TurnsIInv, Chained, TurnsTypeOK, Turn
    <3>2. CASE m # asked + 1
      BY <2>1, <2>3, <2>5, <3>2 DEF TurnsIInv, Chained, TurnsTypeOK, Turn
    <3>3. QED
      BY <3>1, <3>2
  <2>11. \A m \in settled' : OverUpTo(m)'
    BY <1>1, <2>5 DEF Ask, TurnsIInv, Chained, TurnsTypeOK, Turn
  <2>12. First'
    BY <2>2, <2>5 DEF TurnsIInv, First, AtTheFile, Turn
  <2>13. QED
    BY <2>6, <2>7, <2>8, <2>9, <2>10, <2>11, <2>12 DEF TurnsIInv, Chained
<1>2. CASE Close
  <2>1. \A m \in Turn : turn'[m] = IF turn[m] = "held" THEN "ending" ELSE turn[m]
    BY <1>2 DEF Close
  <2>2. \A m \in Nat : OverUpTo(m) => OverUpTo(m)'
    BY <2>1 DEF OverUpTo
  <2>3. TurnsTypeOK'
    BY <1>2, <2>1 DEF Close, TurnsIInv, TurnsTypeOK, TurnStages
  <2>4. Chained'
    BY <1>2, <2>1, <2>2 DEF Close, TurnsIInv, Chained, TurnsTypeOK, Turn
  <2>5. First'
    BY <2>1, <2>2 DEF TurnsIInv, First, AtTheFile, Turn
  <2>6. QED
    BY <2>3, <2>4, <2>5 DEF TurnsIInv
<1>3. ASSUME NEW n \in Turn, Resolve(n) PROVE TurnsIInv'
  <2>1. OverUpTo(n - 1)
    BY <1>3, ReachedIsFirst DEF Resolve
  <2>2. OverUpTo(n)
    BY <1>3, <2>1 DEF Resolve, OverUpTo, Turn
  <2>3. \A m \in Nat : OverUpTo(m) => OverUpTo(m)'
    BY <1>3 DEF Resolve, OverUpTo
  <2>4. TurnsTypeOK'
    BY <1>3 DEF Resolve, TurnsIInv, TurnsTypeOK
  <2>5. Chained'
    BY <1>3, <2>2, <2>3 DEF Resolve, TurnsIInv, Chained, TurnsTypeOK, Turn
  <2>6. First'
    BY <1>3, <2>3 DEF Resolve, TurnsIInv, First, AtTheFile, Turn
  <2>7. QED
    BY <2>4, <2>5, <2>6 DEF TurnsIInv
<1>4. ASSUME NEW n \in Turn, Enter(n) PROVE TurnsIInv'
  BY <1>4, ReachedIsFirst, MoveIInv DEF Enter, TurnStages
<1>5. ASSUME NEW n \in Turn, GiveUp(n) PROVE TurnsIInv'
  BY <1>5, MoveIInv DEF GiveUp, TurnStages
<1>6. ASSUME NEW n \in Turn, PassOn(n) PROVE TurnsIInv'
  BY <1>6, ReachedIsFirst, HandOnIInv DEF PassOn, MayPassOn
<1>7. ASSUME NEW n \in Turn, Release(n) \/ Ended(n) PROVE TurnsIInv'
  BY <1>7, HandOnIInv DEF Release, Ended, TurnsIInv, First, AtTheFile
<1>8. ASSUME NEW n \in Turn, Begin(n) \/ End(n) PROVE TurnsIInv'
  BY <1>8, MoveIInv DEF Begin, End, TurnStages, TurnsIInv, First, AtTheFile
<1>9. CASE UNCHANGED turnsVars
  BY <1>9 DEF turnsVars, TurnsIInv, TurnsTypeOK, Chained, First, OverUpTo, AtTheFile
<1>10. QED
  BY <1>1, <1>2, <1>3, <1>4, <1>5, <1>6, <1>7, <1>8, <1>9 DEF TurnsNext, TurnMoves

(* Turns come in the order they were asked for, whoever gave up before:    *)
(* a writer at the file has every turn asked before its own behind it.     *)
THEOREM TurnsComeInOrder == TurnsSpec => []InTurn
<1>1. TurnsIInv => InTurn
  BY DEF TurnsIInv, First, OverUpTo, InTurn, Turn
<1>2. QED
  BY <1>1, TurnsInitIInv, TurnsNextIInv, PTL DEF TurnsSpec

(* One writer of the process is at the file (turns.ts:2-7).                *)
THEOREM OneWriterAtTheFile == TurnsSpec => []OneAtTheFile
<1>1. TurnsIInv => OneAtTheFile
  BY DEF TurnsIInv, First, OverUpTo, OneAtTheFile, AtTheFile, Turn
<1>2. QED
  BY <1>1, TurnsInitIInv, TurnsNextIInv, PTL DEF TurnsSpec

-----------------------------------------------------------------------------
(* A connection's gate.                                                    *)

Stages == {"new", "queued", "woken", "asleep", "flying", "done"}

(* The gate's count is of those in flight, and within its limit; those in  *)
(* the queue wait, each at one place.                                      *)
Typed  == request \in [Request -> Stages] /\ queue \in Seq(Request)
Counts == inFlight = Cardinality(Flying) /\ inFlight <= InFlightMax
Waits  ==
    /\ \A i \in 1 .. Len(queue) : request[queue[i]] = "queued"
    /\ \A i, j \in 1 .. Len(queue) : queue[i] = queue[j] => i = j

ThrottleIInv == Typed /\ Counts /\ Waits /\ NoSlotIdles

(* It holds of an idle gate.                                               *)
LEMMA ThrottleInitIInv == ThrottleInit => ThrottleIInv
<1> SUFFICES ASSUME ThrottleInit PROVE ThrottleIInv
  OBVIOUS
<1> USE LimitsAssumption DEF ThrottleInit
<1>1. Typed
  BY DEF Typed, Stages
<1>2. Flying = {}
  BY DEF Flying
<1>3. Counts
  BY <1>2, FS_EmptySet DEF Counts
<1>4. Waits /\ NoSlotIdles
  BY DEF Waits, NoSlotIdles
<1>5. QED
  BY <1>1, <1>3, <1>4 DEF ThrottleIInv

(* Sets of requests are finite, and those in flight are among those about. *)
LEMMA Finite == IsFiniteSet(Flying) /\ IsFiniteSet(About) /\ Flying \subseteq About
<1>1. Flying \subseteq Request /\ About \subseteq Request /\ Flying \subseteq About
  BY DEF Flying, About
<1>2. QED
  BY <1>1, RequestAssumption, FS_Subset

(* One turn of the loop of a request that is not in flight and not queued: *)
(* who goes leaves a slot less, who is queued finds every slot taken, and  *)
(* who sleeps is still about.                                              *)
LEMMA TryIInv ==
    ASSUME ThrottleIInv, NEW r \in Request, request[r] \in {"new", "woken", "asleep"}, Try(r)
    PROVE  ThrottleIInv'
<1> USE LimitsAssumption DEF ThrottleIInv
<1>1. r \notin Flying
  BY DEF Flying
<1>2. PICK s \in {"queued", "asleep", "flying"} : request' = [request EXCEPT ![r] = s]
  BY DEF Try
<1>3. \A q \in Request : request'[q] = IF q = r THEN s ELSE request[q]
  BY <1>2 DEF Typed
<1>4. \A i \in 1 .. Len(queue) : queue[i] \in Request /\ queue[i] # r
  BY DEF Typed, Waits
<1>5. CASE Full /\ s = "queued" /\ queue' = Append(queue, r) /\ UNCHANGED inFlight
  <2>1. Typed'
    BY <1>2, <1>5 DEF Typed, Stages
  <2>2. Flying' = Flying
    BY <1>1, <1>3, <1>5 DEF Flying
  <2>3. Counts'
    BY <1>5, <2>2 DEF Counts
  <2>4. /\ Len(queue') = Len(queue) + 1
        /\ \A i \in 1 .. Len(queue) : queue'[i] = queue[i]
        /\ queue'[Len(queue) + 1] = r
    BY <1>5 DEF Typed
  <2>5. Waits'
    BY <1>3, <1>4, <1>5, <2>4 DEF Waits, Typed
  <2>6. Flying \subseteq About'
    BY <1>1, <1>3 DEF Flying, About
  <2>7. IsFiniteSet(About')
    BY FS_Subset, RequestAssumption, About' \subseteq Request DEF About
  <2>8. Cardinality(Flying) <= Cardinality(About')
    BY <2>6, <2>7, FS_Subset
  <2>9. Cardinality(Flying) \in Nat /\ Cardinality(About') \in Nat
    BY <2>7, Finite, FS_CardinalityType
  <2>10. NoSlotIdles'
    BY <1>5, <2>8, <2>9 DEF NoSlotIdles, Full, Counts
  <2>11. QED
    BY <2>1, <2>3, <2>5, <2>10
<1>6. CASE s = "asleep" /\ UNCHANGED <<queue, inFlight>>
  <2>1. Typed'
    BY <1>2, <1>6 DEF Typed, Stages
  <2>2. Flying' = Flying
    BY <1>1, <1>3, <1>6 DEF Flying
  <2>3. Counts' /\ Waits'
    BY <1>3, <1>4, <1>6, <2>2 DEF Counts, Waits
  <2>4. About \subseteq About'
    BY <1>3, <1>6 DEF About
  <2>5. IsFiniteSet(About')
    BY FS_Subset, RequestAssumption, About' \subseteq Request DEF About
  <2>6. Cardinality(About) <= Cardinality(About')
    BY <2>4, <2>5, FS_Subset
  <2>7. Cardinality(About) \in Nat /\ Cardinality(About') \in Nat
    BY <2>5, Finite, FS_CardinalityType
  <2>8. NoSlotIdles'
    BY <1>6, <2>6, <2>7 DEF NoSlotIdles
  <2>9. QED
    BY <2>1, <2>3, <2>8
<1>7. CASE ~Full /\ s = "flying" /\ inFlight' = inFlight + 1 /\ UNCHANGED queue
  <2>1. Typed'
    BY <1>2, <1>7 DEF Typed, Stages
  <2>2. Flying' = Flying \cup {r}
    BY <1>3, <1>7 DEF Flying
  <2>3. Cardinality(Flying') = Cardinality(Flying) + 1
    BY <1>1, <2>2, Finite, FS_AddElement
  <2>4. Cardinality(Flying) \in Nat
    BY Finite, FS_CardinalityType
  <2>5. Counts'
    BY <1>7, <2>3, <2>4 DEF Counts, Full
  <2>6. Waits'
    BY <1>3, <1>4, <1>7 DEF Waits
  <2>7. About \subseteq About'
    BY <1>3, <1>7 DEF About
  <2>8. IsFiniteSet(About')
    BY FS_Subset, RequestAssumption, About' \subseteq Request DEF About
  <2>9. Cardinality(About) <= Cardinality(About')
    BY <2>7, <2>8, FS_Subset
  <2>10. Cardinality(About) \in Nat /\ Cardinality(About') \in Nat
    BY <2>8, Finite, FS_CardinalityType
  <2>11. NoSlotIdles'
    BY <1>7, <2>9, <2>10 DEF NoSlotIdles
  <2>12. QED
    BY <2>1, <2>5, <2>6, <2>11
<1>8. request'[r] = s
  BY <1>3
<1>9. QED
  BY <1>2, <1>5, <1>6, <1>7, <1>8 DEF Try, Typed

(* A request is answered: its slot goes to the first queued, who was not   *)
(* about, or to nobody where none is queued.                               *)
LEMMA FinishIInv ==
    ASSUME ThrottleIInv, NEW r \in Request, Finish(r)
    PROVE  ThrottleIInv'
<1> USE LimitsAssumption DEF ThrottleIInv
<1>1. request[r] = "flying" /\ r \in Flying /\ r \in About
  BY DEF Finish, Flying, About
<1>2. Cardinality(Flying) \in Nat /\ Cardinality(About) \in Nat
  BY Finite, FS_CardinalityType
<1>3. Cardinality(Flying \ {r}) = Cardinality(Flying) - 1
  BY <1>1, Finite, FS_RemoveElement
<1>4. CASE queue # <<>>
  <2> DEFINE q == Head(queue)
  <2>1. q \in Request /\ q = queue[1] /\ request[q] = "queued" /\ q # r
    BY <1>1, <1>4 DEF Typed, Waits
  <2>2. request' = [request EXCEPT ![r] = "done", ![q] = "woken"] /\ queue' = Tail(queue)
        /\ inFlight' = inFlight - 1
    BY <1>4 DEF Finish, Wakes
  <2> HIDE DEF q
  <2>3. \A p \in Request : request'[p] = IF p = q THEN "woken" ELSE IF p = r THEN "done" ELSE request[p]
    BY <2>1, <2>2 DEF Typed
  <2>4. Typed'
    BY <1>4, <2>1, <2>2 DEF Typed, Stages
  <2>5. Flying' = Flying \ {r}
    BY <2>1, <2>3 DEF Flying
  <2>6. Counts'
    BY <1>2, <1>3, <2>2, <2>5 DEF Counts
  <2>7. /\ Len(queue') = Len(queue) - 1
        /\ \A i \in 1 .. Len(queue') : queue'[i] = queue[i + 1]
    BY <1>4, <2>2 DEF Typed
  <2>8. \A i \in 1 .. Len(queue') : queue'[i] \in Request /\ queue'[i] # q /\ queue'[i] # r
    BY <1>1, <2>1, <2>7 DEF Typed, Waits
  <2>9. Waits'
    BY <2>3, <2>7, <2>8 DEF Waits, Typed
  <2>10. q \notin About
    BY <2>1 DEF About
  <2>11. About' = (About \ {r}) \cup {q}
    BY <2>1, <2>3 DEF About
  <2>12. Cardinality(About \ {r}) = Cardinality(About) - 1 /\ IsFiniteSet(About \ {r})
    BY <1>1, Finite, FS_RemoveElement
  <2>13. Cardinality(About') = Cardinality(About \ {r}) + 1
    BY <2>10, <2>11, <2>12, FS_AddElement
  <2>14. NoSlotIdles'
    BY <1>2, <1>4, <2>12, <2>13 DEF NoSlotIdles
  <2>15. QED
    BY <2>4, <2>6, <2>9, <2>14
<1>5. CASE queue = <<>>
  <2>1. request' = [request EXCEPT ![r] = "done"] /\ queue' = queue /\ inFlight' = inFlight - 1
    BY <1>5 DEF Finish, Wakes
  <2>2. Typed'
    BY <2>1 DEF Typed, Stages
  <2>3. Flying' = Flying \ {r}
    BY <2>1 DEF Flying, Typed
  <2>4. Counts'
    BY <1>2, <1>3, <2>1, <2>3 DEF Counts
  <2>5. Waits' /\ NoSlotIdles'
    BY <1>5, <2>1 DEF Waits, NoSlotIdles
  <2>6. QED
    BY <2>2, <2>4, <2>5
<1>6. QED
  BY <1>4, <1>5

(* Every step keeps it.                                                    *)
LEMMA ThrottleNextIInv == ThrottleIInv /\ [ThrottleNext]_throttleVars => ThrottleIInv'
<1> SUFFICES ASSUME ThrottleIInv, [ThrottleNext]_throttleVars PROVE ThrottleIInv'
  OBVIOUS
<1>1. CASE UNCHANGED <<request, inFlight, queue>>
  BY <1>1 DEF ThrottleIInv, Typed, Counts, Waits, NoSlotIdles, Flying, About
<1>2. ASSUME NEW r \in Request, Arrive(r) \/ GoOn(r) \/ Alarm(r) PROVE ThrottleIInv'
  BY <1>2, TryIInv DEF Arrive, GoOn, Alarm
<1>3. ASSUME NEW r \in Request, Finish(r) PROVE ThrottleIInv'
  BY <1>3, FinishIInv
<1>4. QED
  BY <1>1, <1>2, <1>3 DEF ThrottleNext, Moment, throttleVars

(* Those that started in the last second are remembered, and no more than  *)
(* the rate allows.                                                        *)
LastSecond == {r \in Request : ago[r] < Second}

Rated ==
    /\ ago \in [Request -> Nat] /\ started \subseteq Request
    /\ LastSecond \subseteq started
    /\ AtMostPerSecond

(* It holds of an idle gate.                                               *)
LEMMA InitRated == ThrottleInit => Rated
<1> SUFFICES ASSUME ThrottleInit PROVE Rated
  OBVIOUS
<1>1. LastSecond = {} /\ ago \in [Request -> Nat] /\ started = {}
  BY SecondAssumption DEF ThrottleInit, LastSecond
<1>2. Cardinality(LastSecond) = 0
  BY <1>1, FS_EmptySet
<1>3. AtMostPerSecond
  BY <1>2, LimitsAssumption DEF AtMostPerSecond, LastSecond
<1>4. QED
  BY <1>1, <1>3 DEF Rated

(* A request that goes finds the last second's starts within the rate.     *)
LEMMA TryRated == ASSUME Rated, NEW r \in Request, Try(r) PROVE Rated'
<1> USE LimitsAssumption, SecondAssumption DEF Rated
<1>1. CASE UNCHANGED <<started, ago>>
  BY <1>1 DEF LastSecond, AtMostPerSecond
<1>2. CASE started' = Remembered /\ UNCHANGED ago
  BY <1>2 DEF LastSecond, AtMostPerSecond, Remembered, Recent
<1>3. CASE ~TooMany /\ started' = Remembered \cup {r} /\ ago' = [ago EXCEPT ![r] = 0]
  <2>1. ago' \in [Request -> Nat] /\ started' \subseteq Request
    BY <1>3 DEF Remembered
  <2>2. LastSecond' = LastSecond \cup {r}
    BY <1>3 DEF LastSecond
  <2>3. LastSecond \subseteq Remembered
    BY DEF LastSecond, Remembered, Recent
  <2>4. LastSecond' \subseteq started'
    BY <1>3, <2>2, <2>3
  <2>5. IsFiniteSet(LastSecond) /\ IsFiniteSet(Remembered)
    <3>1. LastSecond \subseteq Request /\ Remembered \subseteq Request
      BY DEF LastSecond, Remembered
    <3>2. QED
      BY <3>1, RequestAssumption, FS_Subset
  <2>6. /\ Cardinality(LastSecond) \in Nat /\ Cardinality(Remembered) \in Nat
        /\ Cardinality(LastSecond) <= Cardinality(Remembered)
    BY <2>3, <2>5, FS_CardinalityType, FS_Subset
  <2>7. /\ Cardinality(LastSecond') \in Nat
        /\ Cardinality(LastSecond') <= Cardinality(LastSecond) + 1
    <3>1. CASE r \in LastSecond
      <4>1. LastSecond' = LastSecond
        BY <2>2, <3>1
      <4>2. QED
        BY <2>6, <4>1
    <3>2. CASE r \notin LastSecond
      <4>1. Cardinality(LastSecond \cup {r}) = Cardinality(LastSecond) + 1
        BY <2>5, <3>2, FS_AddElement
      <4>2. QED
        BY <2>2, <2>6, <4>1
    <3>3. QED
      BY <3>1, <3>2
  <2>8. ASSUME PerSecond # 0 PROVE Cardinality(LastSecond') <= PerSecond
    <3>1. ~(Cardinality(Remembered) >= PerSecond)
      BY <1>3, <2>8 DEF TooMany
    <3>2. QED
      BY <2>6, <2>7, <3>1
  <2>9. AtMostPerSecond'
    BY <2>8 DEF AtMostPerSecond, LastSecond
  <2>10. QED
    BY <2>1, <2>4, <2>9
<1>4. QED
  BY <1>1, <1>2, <1>3 DEF Try

(* Every step keeps it; as time passes, starts leave the last second.      *)
LEMMA NextRated == Rated /\ [ThrottleNext]_throttleVars => Rated'
<1> SUFFICES ASSUME Rated, [ThrottleNext]_throttleVars PROVE Rated'
  OBVIOUS
<1>1. ASSUME NEW r \in Request, Arrive(r) \/ GoOn(r) \/ Alarm(r) PROVE Rated'
  BY <1>1, TryRated DEF Arrive, GoOn, Alarm
<1>2. CASE Moment
  <2> USE DEF Rated
  <2>1. ago' = [r \in Request |-> Older(ago[r])] /\ UNCHANGED started
    BY <1>2 DEF Moment
  <2>2. ago' \in [Request -> Nat] /\ LastSecond' \subseteq LastSecond
    BY <2>1, SecondAssumption DEF Older, LastSecond
  <2>3. IsFiniteSet(LastSecond)
    BY RequestAssumption, FS_Subset, LastSecond \subseteq Request DEF LastSecond
  <2>4. /\ Cardinality(LastSecond) \in Nat /\ Cardinality(LastSecond') \in Nat
        /\ Cardinality(LastSecond') <= Cardinality(LastSecond)
    BY <2>2, <2>3, FS_CardinalityType, FS_Subset
  <2>5. AtMostPerSecond'
    BY <2>4, LimitsAssumption DEF AtMostPerSecond, LastSecond
  <2>6. QED
    BY <2>1, <2>2, <2>5
<1>3. CASE UNCHANGED <<started, ago>>
  BY <1>3 DEF Rated, LastSecond, AtMostPerSecond
<1>4. QED
  BY <1>1, <1>2, <1>3 DEF ThrottleNext, Finish, throttleVars

(* At most `perSecond` requests start in any one second, for any number of *)
(* requests, slots and starts (throttle.ts:3).                             *)
THEOREM RateIsKept == ThrottleSpec => []AtMostPerSecond
<1>1. Rated => AtMostPerSecond
  BY DEF Rated
<1>2. QED
  BY <1>1, InitRated, NextRated, PTL DEF ThrottleSpec

(* No slot is left idle while one waits for it, for any number of slots    *)
(* and requests (throttle.ts:43-58).                                       *)
THEOREM SlotsAreUsed == ThrottleSpec => []NoSlotIdles
<1>1. ThrottleIInv => NoSlotIdles
  BY DEF ThrottleIInv
<1>2. QED
  BY <1>1, ThrottleInitIInv, ThrottleNextIInv, PTL DEF ThrottleSpec

(* At most `concurrency` requests are in flight at once (throttle.ts:2).   *)
THEOREM SlotsAreEnough == ThrottleSpec => []AtMostInFlight
<1>1. ThrottleIInv => AtMostInFlight
  BY DEF ThrottleIInv, Counts, AtMostInFlight
<1>2. QED
  BY <1>1, ThrottleInitIInv, ThrottleNextIInv, PTL DEF ThrottleSpec

-----------------------------------------------------------------------------
(* The exporter.                                                           *)

(* A stop leaves nothing waiting and the timer off; what waits has   *)
(* its timer.                                                              *)
Orderly ==
    /\ stopping # "no" => spans = 0 /\ alarm = "off"
    /\ spans > 0 => alarm = "armed"

ExporterIInv == ExporterTypeOK /\ Orderly /\ Accounted

(* It holds where no trace was taken.                                      *)
LEMMA ExporterInitIInv == ExporterInit => ExporterIInv
<1> SUFFICES ASSUME ExporterInit PROVE ExporterIInv
  OBVIOUS
<1>1. ExporterTypeOK
  BY DEF ExporterInit, ExporterTypeOK
<1>2. Orderly /\ Accounted
  BY DEF ExporterInit, Orderly, Accounted
<1>3. QED
  BY <1>1, <1>2 DEF ExporterIInv

(* A flush hands over n spans, or says them lost, and with them `lost`:    *)
(* of n and lost together, x are being sent and y are said.                *)
LEMMA FlushAccounts ==
    ASSUME ExporterTypeOK, NEW n \in Nat, NEW lost \in Nat, Flush(n, lost)
    PROVE  /\ spans' = 0 /\ alarm' = "off"
           /\ batch' \in [Batches -> Nat]
           /\ \E x, y \in Nat : x + y = n + lost /\ sending' = sending + x /\ said' = said + y
<1>1. spans' = 0 /\ alarm' = "off"
  BY DEF Flush
<1>2. CASE n # 0 /\ (\E b \in Free : batch' = [batch EXCEPT ![b] = n])
           /\ sending' = sending + n /\ said' = said + lost
  <2>1. batch' \in [Batches -> Nat]
    BY <1>2 DEF Free, ExporterTypeOK
  <2>2. QED
    BY <1>1, <1>2, <2>1
<1>3. CASE said' = said + lost + n /\ UNCHANGED <<batch, sending>>
  <2>1. sending' = sending + 0 /\ said' = said + (lost + n)
    BY <1>3 DEF ExporterTypeOK
  <2>2. 0 \in Nat /\ lost + n \in Nat /\ 0 + (lost + n) = n + lost
    OBVIOUS
  <2>3. \E x, y \in Nat : x + y = n + lost /\ sending' = sending + x /\ said' = said + y
    BY <2>1, <2>2
  <2>4. QED
    BY <1>1, <1>3, <2>3 DEF ExporterTypeOK
<1>4. QED
  BY <1>2, <1>3 DEF Flush

(* Every step keeps it.                                                    *)
LEMMA ExporterNextIInv == ExporterIInv /\ [ExporterNext]_exporterVars => ExporterIInv'
<1> SUFFICES ASSUME ExporterIInv, [ExporterNext]_exporterVars PROVE ExporterIInv'
  OBVIOUS
<1> USE SizesAssumption DEF ExporterIInv
<1>1. CASE TakeTrace
  <2>1. PICK n \in Trace :
           /\ taken' = taken + n
           /\ LET waiting  == Kept(spans + n)
                  lost == spans + n - waiting
              IN  IF waiting >= Batch
                  THEN Flush(waiting, lost)
                  ELSE /\ spans' = waiting /\ alarm' = "armed" /\ said' = said + lost
                       /\ UNCHANGED <<batch, sending>>
    BY <1>1 DEF TakeTrace
  <2> DEFINE waiting  == Kept(spans + n)
             lost == spans + n - waiting
  <2>2. n \in Nat
    OBVIOUS
  <2>3. waiting \in Nat /\ lost \in Nat /\ waiting + lost = spans + n
    BY <2>2 DEF Kept, ExporterTypeOK
  <2>4. stopping = "no" /\ UNCHANGED <<stopping, final, exported>>
    BY <1>1 DEF TakeTrace, Orderly
  <2> HIDE DEF waiting, lost
  <2>5. CASE waiting >= Batch
    <3>1. Flush(waiting, lost)
      BY <2>1, <2>5 DEF waiting, lost
    <3>2. /\ spans' = 0 /\ alarm' = "off"
          /\ batch' \in [Batches -> Nat]
          /\ \E x, y \in Nat : x + y = waiting + lost /\ sending' = sending + x /\ said' = said + y
      BY <2>3, <3>1, FlushAccounts
    <3>split. PICK x, y \in Nat : x + y = waiting + lost /\ sending' = sending + x /\ said' = said + y
      BY <3>2
    <3>3. ExporterTypeOK'
      BY <2>1, <2>2, <2>4, <3>2, <3>split DEF ExporterTypeOK
    <3>4. Orderly'
      BY <2>4, <3>2 DEF Orderly
    <3>5. taken = spans + exported + said + sending
      BY <2>4 DEF Accounted
    <3>6. taken' = spans' + exported' + said' + sending'
      BY <2>1, <2>2, <2>3, <2>4, <3>2, <3>split, <3>5 DEF ExporterTypeOK
    <3>7. Accounted'
      BY <2>4, <3>6 DEF Accounted
    <3>8. QED
      BY <3>3, <3>4, <3>7
  <2>6. CASE ~(waiting >= Batch)
    <3>1. spans' = waiting /\ alarm' = "armed" /\ said' = said + lost /\ UNCHANGED <<batch, sending>>
      BY <2>1, <2>6 DEF waiting, lost
    <3>2. ExporterTypeOK'
      BY <2>1, <2>2, <2>3, <2>4, <3>1 DEF ExporterTypeOK
    <3>3. Orderly'
      BY <2>4, <3>1 DEF Orderly
    <3>4. Accounted'
      BY <2>1, <2>2, <2>3, <2>4, <3>1 DEF Accounted, ExporterTypeOK
    <3>5. QED
      BY <3>2, <3>3, <3>4
  <2>7. QED
    BY <2>5, <2>6
<1>2. CASE TimerFires
  <2>1. spans \in Nat /\ stopping = "no" /\ UNCHANGED <<taken, stopping, final, exported>>
    BY <1>2 DEF TimerFires, Orderly, ExporterTypeOK
  <2>2. /\ spans' = 0 /\ alarm' = "off"
        /\ batch' \in [Batches -> Nat]
        /\ \E x, y \in Nat : x + y = spans + 0 /\ sending' = sending + x /\ said' = said + y
    BY <1>2, <2>1, FlushAccounts DEF TimerFires
  <2>split. PICK x, y \in Nat : x + y = spans + 0 /\ sending' = sending + x /\ said' = said + y
    BY <2>2
  <2>3. ExporterTypeOK'
    BY <2>1, <2>2, <2>split DEF ExporterTypeOK
  <2>4. Orderly'
    BY <2>1, <2>2 DEF Orderly
  <2>5. taken = spans + exported + said + sending
    BY <2>1 DEF Accounted
  <2>6. taken' = spans' + exported' + said' + sending'
    BY <2>1, <2>2, <2>split, <2>5 DEF ExporterTypeOK
  <2>7. Accounted'
    BY <2>1, <2>6 DEF Accounted
  <2>8. QED
    BY <2>3, <2>4, <2>7
<1>3. CASE StopExport
  <2>1. spans \in Nat /\ stopping = "no" /\ stopping' = "flushing" /\ UNCHANGED <<taken, exported>>
    BY <1>3 DEF StopExport, Orderly, ExporterTypeOK
  <2>2. /\ spans' = 0 /\ alarm' = "off"
        /\ batch' \in [Batches -> Nat]
        /\ \E x, y \in Nat : x + y = spans + 0 /\ sending' = sending + x /\ said' = said + y
    BY <1>3, <2>1, FlushAccounts DEF StopExport
  <2>split. PICK x, y \in Nat : x + y = spans + 0 /\ sending' = sending + x /\ said' = said + y
    BY <2>2
  <2>3. final' \subseteq Batches
    BY <1>3 DEF StopExport, Free
  <2>4. ExporterTypeOK'
    BY <2>1, <2>2, <2>3, <2>split DEF ExporterTypeOK
  <2>5. Orderly'
    BY <2>1, <2>2 DEF Orderly
  <2>6. taken = spans + exported + said + sending
    BY <2>1 DEF Accounted
  <2>7. taken' = spans' + exported' + said' + sending'
    BY <2>1, <2>2, <2>split, <2>6 DEF ExporterTypeOK
  <2>8. Accounted'
    BY <2>1, <2>7 DEF Accounted
  <2>9. QED
    BY <2>4, <2>5, <2>8
<1>4. CASE Closed
  BY <1>4 DEF Closed, ExporterTypeOK, Orderly, Accounted
<1>5. CASE Deadline
  BY <1>5 DEF Deadline, Unsent, ExporterTypeOK, Orderly, Accounted
<1>6. ASSUME NEW b \in Batches, Exported(b) \/ Refused(b) PROVE ExporterIInv'
  <2>1. batch[b] \in Nat /\ batch' \in [Batches -> Nat]
    BY <1>6 DEF Exported, Refused, ExporterTypeOK
  <2>2. ExporterTypeOK'
    BY <1>6, <2>1 DEF Exported, Refused, ExporterTypeOK
  <2>3. Orderly' /\ Accounted'
    BY <1>6, <2>1 DEF Exported, Refused, ExporterTypeOK, Orderly, Accounted
  <2>4. QED
    BY <2>2, <2>3
<1>7. CASE UNCHANGED exporterVars
  BY <1>7 DEF exporterVars, ExporterTypeOK, Orderly, Accounted
<1>8. QED
  BY <1>1, <1>2, <1>3, <1>4, <1>5, <1>6, <1>7 DEF ExporterNext

(* Every span taken is waiting, being sent, exported or said lost, once,   *)
(* for every size of batch, buffer and trace (exporter.ts).                *)
THEOREM EverySpanIsAccounted == ExporterSpec => []Accounted
<1>1. ExporterIInv => Accounted
  BY DEF ExporterIInv
<1>2. QED
  BY <1>1, ExporterInitIInv, ExporterNextIInv, PTL DEF ExporterSpec

(* Nothing waits without a timer that will send it, and nothing waits at   *)
(* all once a stop has begun (exporter.ts:106-154).                        *)
THEOREM NoSpanWaitsAlone == ExporterSpec => []NothingWaitsAlone
<1>1. ExporterIInv => NothingWaitsAlone
  BY DEF ExporterIInv, ExporterTypeOK, Orderly, NothingWaitsAlone
<1>2. QED
  BY <1>1, ExporterInitIInv, ExporterNextIInv, PTL DEF ExporterSpec

-----------------------------------------------------------------------------
(* The renewal of a delivery's lock.                                       *)

(* Where a delivery can be; that an extension is lost only where the row   *)
(* is; that no message under way is older than Latency and no armed timer  *)
(* overdue.                                                                *)
Timely ==
    /\ stage = "taken" => extending = "none" /\ timer = "off"
    /\ stage \in {"settling", "over"} => extending = "none" /\ timer = "off"
    /\ stage = "stopping" => timer = "off"
    /\ timer = "armed" => extending = "none" /\ stage = "running" /\ now <= beat
    /\ extending = "lost" => owner # "mine"
    /\ extending # "none" \/ stage \in {"taken", "settling"} => since <= now /\ now <= since + Latency

(* Until the delivery is answered and unless an extension failed, the lock *)
(* outlasts what is under way: there is always time for the beat that is   *)
(* armed, or the statement that was sent, to reach the row.                *)
InTime ==
    failures = 0 /\ stage # "over" =>
        /\ owner = "mine"
        /\ extending \in {"none", "sent", "kept"}
        /\ timer = "armed" => beat + Latency < until
        /\ extending = "sent" \/ stage = "settling" => since + Latency < until
        /\ extending = "kept" \/ stage = "taken" => until = since + Window
        /\ stage = "stopping" /\ extending = "none" => now + Latency < until
        /\ stage = "running" => timer = "armed" \/ extending # "none"

RenewalIInv == TypeOK /\ Timely /\ InTime /\ BeatsWhileMine

(* It holds of a row just taken.                                           *)
LEMMA RenewalInitIInv == Init => RenewalIInv
  BY WindowAssumption, LatencyAssumption, BoundsAssumption, HealthyAssumption
     DEF Init, RenewalIInv, TypeOK, Timely, InTime, BeatsWhileMine

(* Every step keeps it; only Tick, which may not pass what is due, and the *)
(* sending of a message need the assumption that the database is near.     *)
LEMMA RenewalNextIInv == RenewalIInv /\ [Next]_vars => RenewalIInv'
<1> SUFFICES ASSUME RenewalIInv, [Next]_vars PROVE RenewalIInv'
  OBVIOUS
<1> USE WindowAssumption, LatencyAssumption, BoundsAssumption, HealthyAssumption
       DEF RenewalIInv, TypeOK, Timely, InTime, BeatsWhileMine
<1>1. CASE Tick
  BY <1>1 DEF Tick, OnItsWay
<1>2. CASE HandOut
  BY <1>2 DEF HandOut, Arm, HalfWindow
<1>3. CASE Beat
  BY <1>3 DEF Beat
<1>4. CASE Extend
  BY <1>4 DEF Extend
<1>5. CASE ExtendFails
  BY <1>5 DEF ExtendFails
<1>6. CASE Heard
  <2>1. HalfWindow \in Nat /\ HalfWindow + 2 * Latency < Window
    BY DEF HalfWindow
  <2>2. CASE BeatsAgain /\ Arm
    <3>1. TypeOK' /\ Timely' /\ BeatsWhileMine'
      BY <1>6, <2>1, <2>2 DEF Heard, BeatsAgain, Arm
    <3>2. InTime'
      BY <1>6, <2>1, <2>2 DEF Heard, BeatsAgain, Arm
    <3>3. QED
      BY <3>1, <3>2
  <2>3. CASE ~BeatsAgain /\ UNCHANGED <<timer, beat>>
    BY <1>6, <2>3 DEF Heard, BeatsAgain
  <2>4. QED
    BY <1>6, <2>2, <2>3 DEF Heard
<1>7. CASE Answer
  BY <1>7 DEF Answer
<1>8. CASE Send
  BY <1>8 DEF Send, Stopped
<1>9. CASE Settle
  BY <1>9 DEF Settle
<1>10. CASE TakenSince
  BY <1>10 DEF TakenSince
<1>11. CASE UNCHANGED vars
  BY <1>11 DEF vars
<1>12. QED
  BY <1>1, <1>2, <1>3, <1>4, <1>5, <1>6, <1>7, <1>8, <1>9, <1>10, <1>11 DEF Next, Step, Done

(* A run however long never loses its lock to a second worker, as long as  *)
(* no extension fails (consumer.ts:13-15).                                 *)
THEOREM HealthyRunsHoldTheirLock == Spec => []HealthyHoldsItsLock
<1>1. RenewalIInv => HealthyHoldsItsLock
  BY WindowAssumption, LatencyAssumption, HealthyAssumption
     DEF RenewalIInv, TypeOK, Timely, InTime, HealthyHoldsItsLock
<1>2. QED
  BY <1>1, RenewalInitIInv, RenewalNextIInv, PTL DEF Spec

(* No extension is under way, or can be, once the answer has been sent     *)
(* (renewal.ts:34).                                                       *)
THEOREM NoExtensionLandsLate == Spec => []NoneLandsLate
<1>1. RenewalIInv => NoneLandsLate
  BY DEF RenewalIInv, Timely, NoneLandsLate
<1>2. QED
  BY <1>1, RenewalInitIInv, RenewalNextIInv, PTL DEF Spec

(* The renewal never goes silent while the row is its delivery's, also     *)
(* after an extension failed (renewal.ts:7-9).                             *)
THEOREM RenewalGoesOn == Spec => []BeatsWhileMine
<1>1. RenewalIInv => BeatsWhileMine
  BY DEF RenewalIInv
<1>2. QED
  BY <1>1, RenewalInitIInv, RenewalNextIInv, PTL DEF Spec

-----------------------------------------------------------------------------
(* The worker.                                                             *)

(* The queues of the connections held, and of the one being consumed.      *)
HeldQueues == UNION {InQueues(holds[i]) : i \in DOMAIN holds}
AtWork     == IF toHold = <<>> THEN {} ELSE InQueues(Head(toHold))

WorkerTyped ==
    /\ start \in {"starting", "undoing", "failed", "serving"}
    /\ toHold \in Seq(DOMAIN Queues) /\ holds \in Seq(DOMAIN Queues)
    /\ toConsume \in Seq(AtWork)
    /\ byeing \in BOOLEAN

(* What is consumed is held, but for the connection being consumed, and    *)
(* where that failed for what was told to stop; what is in flight is       *)
(* consumed.                                                               *)
Answered ==
    /\ start = "starting" => consumed \subseteq HeldQueues \cup AtWork
    /\ start = "undoing" => consumed \ ended \subseteq HeldQueues
    /\ start \in {"failed", "serving"} => consumed \subseteq HeldQueues
    /\ byeing => start \in {"failed", "serving"}
    /\ flying \subseteq consumed

WorkerIInv == WorkerTyped /\ Answered

(* The queues of the next connection, in order, are its queues.            *)
LEMMA QueuesOfTyped ==
    ASSUME NEW cs \in Seq(DOMAIN Queues)
    PROVE  QueuesOf(cs) \in Seq(IF cs = <<>> THEN {} ELSE InQueues(Head(cs)))
<1>1. CASE cs = <<>>
  BY <1>1 DEF QueuesOf
<1>2. CASE cs # <<>>
  <2>1. Head(cs) \in DOMAIN Queues
    BY <1>2
  <2>2. QED
    BY <1>2, <2>1, OrderAssumption DEF QueuesOf, InQueues
<1>3. QED
  BY <1>1, <1>2

(* It holds where nothing is consumed.                                     *)
LEMMA WorkerInitIInv == WorkerInit => WorkerIInv
<1> SUFFICES ASSUME WorkerInit PROVE WorkerIInv
  OBVIOUS
<1>1. toHold \in Seq(DOMAIN Queues)
  BY OrderAssumption DEF WorkerInit
<1>2. toConsume \in Seq(AtWork)
  <2>1. toConsume = QueuesOf(toHold)
    BY DEF WorkerInit, QueuesOf
  <2>2. QED
    BY <1>1, <2>1, QueuesOfTyped DEF AtWork
<1>3. WorkerTyped
  BY <1>1, <1>2, EmptySeq DEF WorkerInit, WorkerTyped
<1>4. Answered
  BY DEF WorkerInit, Answered
<1>5. QED
  BY <1>3, <1>4 DEF WorkerIInv

(* Every step keeps it.                                                    *)
LEMMA WorkerNextIInv == WorkerIInv /\ [WorkerNext]_workerVars => WorkerIInv'
<1> SUFFICES ASSUME WorkerIInv, [WorkerNext]_workerVars PROVE WorkerIInv'
  OBVIOUS
<1> USE DEF WorkerIInv
<1>1. CASE ConsumeNext
  <2>1. Head(toConsume) \in AtWork /\ toConsume' \in Seq(AtWork)
    BY <1>1 DEF ConsumeNext, WorkerTyped
  <2>2. AtWork' = AtWork /\ HeldQueues' = HeldQueues
    BY <1>1 DEF ConsumeNext, AtWork, HeldQueues
  <2>3. WorkerTyped'
    BY <1>1, <2>1, <2>2 DEF ConsumeNext, WorkerTyped
  <2>4. Answered'
    BY <1>1, <2>1, <2>2 DEF ConsumeNext, Answered
  <2>5. QED
    BY <2>3, <2>4
<1>2. CASE HoldNext
  <2>1. Head(toHold) \in DOMAIN Queues /\ Tail(toHold) \in Seq(DOMAIN Queues)
    BY <1>2 DEF HoldNext, WorkerTyped
  <2>2. toConsume' \in Seq(AtWork')
    BY <1>2, <2>1, QueuesOfTyped DEF HoldNext, AtWork
  <2>3. holds' \in Seq(DOMAIN Queues) /\ Len(holds') = Len(holds) + 1
        /\ holds'[Len(holds) + 1] = Head(toHold)
        /\ \A i \in 1 .. Len(holds) : holds'[i] = holds[i]
    BY <1>2, <2>1 DEF HoldNext, WorkerTyped
  <2>4. HeldQueues \cup AtWork \subseteq HeldQueues'
    <3>1. ASSUME NEW q \in HeldQueues PROVE q \in HeldQueues'
      <4>1. PICK i \in DOMAIN holds : q \in InQueues(holds[i])
        BY <3>1 DEF HeldQueues
      <4>2. i \in DOMAIN holds' /\ holds'[i] = holds[i]
        BY <2>3 DEF WorkerTyped
      <4>3. QED
        BY <4>1, <4>2 DEF HeldQueues
    <3>2. ASSUME NEW q \in AtWork PROVE q \in HeldQueues'
      <4>1. q \in InQueues(holds'[Len(holds) + 1]) /\ Len(holds) + 1 \in DOMAIN holds'
        BY <1>2, <2>3, <3>2 DEF HoldNext, AtWork, WorkerTyped
      <4>2. QED
        BY <4>1 DEF HeldQueues
    <3>3. QED
      BY <3>1, <3>2
  <2>5. WorkerTyped'
    BY <1>2, <2>1, <2>2, <2>3 DEF HoldNext, WorkerTyped
  <2>6. Answered'
    BY <1>2, <2>4 DEF HoldNext, Answered
  <2>7. QED
    BY <2>5, <2>6
<1>3. CASE Serve \/ ConsumeFails \/ Undone
  <2>1. AtWork' = AtWork /\ HeldQueues' = HeldQueues
    BY <1>3 DEF Serve, ConsumeFails, Undone, AtWork, HeldQueues
  <2>2. WorkerTyped'
    <3>1. start' \in {"starting", "undoing", "failed", "serving"} /\ UNCHANGED <<toHold, toConsume, holds, byeing>>
      BY <1>3 DEF Serve, ConsumeFails, Undone
    <3>2. QED
      BY <2>1, <3>1 DEF WorkerTyped
  <2>3. CASE Serve
    BY <2>1, <2>2, <2>3 DEF Serve, Answered, AtWork
  <2>4. CASE ConsumeFails
    <3>1. toHold # <<>>
      BY <2>4 DEF ConsumeFails, WorkerTyped, AtWork
    <3>2. consumed \ ended' \subseteq HeldQueues
      BY <2>4, <3>1 DEF ConsumeFails, Undoes, Answered, AtWork
    <3>3. QED
      BY <2>1, <2>2, <2>4, <3>2 DEF ConsumeFails, Answered
  <2>5. CASE Undone
    BY <2>1, <2>2, <2>5 DEF Undone, Answered
  <2>6. QED
    BY <1>3, <2>2, <2>3, <2>4, <2>5
<1>4. CASE Bye \/ StopHold
  <2>1. AtWork' = AtWork /\ HeldQueues' = HeldQueues
    BY <1>4 DEF Bye, StopHold, AtWork, HeldQueues
  <2>2. (start # "undoing" \/ byeing' = byeing) /\ ended \subseteq ended'
    BY <1>4 DEF Bye, StopHold
  <2>3. QED
    BY <1>4, <2>1, <2>2 DEF Bye, StopHold, WorkerTyped, Answered
<1>5. CASE HoldStopped
  <2>1. /\ holds' \in Seq(DOMAIN Queues) /\ Len(holds) \in Nat \ {0} /\ Len(holds') = Len(holds) - 1
        /\ \A i \in 1 .. Len(holds') : holds'[i] = holds[i]
    <3>1. Len(holds) \in Nat \ {0} /\ holds' = SubSeq(holds, 1, Len(holds) - 1)
      BY <1>5, EmptySeq DEF HoldStopped, WorkerTyped, Front
    <3>2. \A i \in 1 .. Len(holds) - 1 : holds[i] \in DOMAIN Queues
      BY <3>1 DEF WorkerTyped
    <3> DEFINE fewer == Len(holds) - 1
    <3>3. 1 \in Int /\ fewer \in Int
      BY <3>1
    <3> HIDE DEF fewer
    <3>4. /\ SubSeq(holds, 1, fewer) \in Seq(DOMAIN Queues)
          /\ Len(SubSeq(holds, 1, fewer)) = IF 1 <= fewer THEN fewer - 1 + 1 ELSE 0
          /\ \A i \in 1 .. fewer - 1 + 1 : SubSeq(holds, 1, fewer)[i] = holds[1 + i - 1]
      BY <3>2, <3>3, SubSeqProperties DEF fewer
    <3>5. holds' = SubSeq(holds, 1, fewer) /\ fewer \in Nat
      BY <3>1 DEF fewer
    <3>6. Len(holds') = fewer /\ \A i \in 1 .. fewer : holds'[i] = holds[i]
      BY <3>4, <3>5
    <3>7. QED
      BY <3>1, <3>4, <3>5, <3>6 DEF fewer
  <2>2. AtWork' = AtWork
    BY <1>5 DEF HoldStopped, AtWork
  <2>3. consumed \subseteq HeldQueues /\ start \in {"failed", "serving"}
    BY <1>5 DEF HoldStopped, Answered
  <2>4. ASSUME NEW q \in consumed PROVE q \in HeldQueues'
    <3>1. PICK i \in DOMAIN holds : q \in InQueues(holds[i])
      BY <2>3, <2>4 DEF HeldQueues
    <3>2. i # Len(holds)
      BY <1>5, <2>4, <3>1 DEF HoldStopped, LastHeld, Last
    <3>3. i \in DOMAIN holds' /\ holds'[i] = holds[i]
      <4>1. DOMAIN holds = 1 .. Len(holds) /\ DOMAIN holds' = 1 .. Len(holds')
        BY <2>1 DEF WorkerTyped
      <4>2. i \in 1 .. Len(holds')
        BY <2>1, <3>1, <3>2, <4>1
      <4>3. QED
        BY <2>1, <4>1, <4>2
    <3>4. QED
      BY <3>1, <3>3 DEF HeldQueues
  <2>5. WorkerTyped'
    BY <1>5, <2>1, <2>2 DEF HoldStopped, WorkerTyped
  <2>6. Answered'
    BY <1>5, <2>3, <2>4 DEF HoldStopped, Answered
  <2>7. QED
    BY <2>5, <2>6
<1>6. ASSUME NEW q \in AllQueues, Deliver(q) \/ Delivered(q) \/ Ends(q) PROVE WorkerIInv'
  <2>1. AtWork' = AtWork /\ HeldQueues' = HeldQueues
    BY <1>6 DEF Deliver, Delivered, Ends, AtWork, HeldQueues
  <2>2. QED
    BY <1>6, <2>1 DEF Deliver, Delivered, Ends, WorkerTyped, Answered
<1>7. ASSUME NEW qs \in SUBSET AllQueues, ReloadTriggers(qs) PROVE WorkerIInv'
  BY <1>7 DEF ReloadTriggers, AtWork, HeldQueues, WorkerTyped, Answered
<1>8. CASE UNCHANGED workerVars
  BY <1>8 DEF workerVars, AtWork, HeldQueues, WorkerTyped, Answered
<1>9. QED
  BY <1>1, <1>2, <1>3, <1>4, <1>5, <1>6, <1>7, <1>8 DEF WorkerNext, Starting, Stops

(* Wherever a start fails, once the stop is past the holds no queue is     *)
(* consumed and nothing in flight (worker.ts:9-10).                        *)
THEOREM NoQueueIsLeftBehind == WorkerSpec => []NothingHalfHeld
<1>1. WorkerIInv => NothingHalfHeld
  <2> SUFFICES ASSUME WorkerIInv, byeing, holds = <<>> PROVE consumed = {} /\ flying = {}
    BY DEF NothingHalfHeld
  <2>1. HeldQueues = {}
    BY DEF HeldQueues
  <2>2. QED
    BY <2>1 DEF WorkerIInv, Answered
<1>2. QED
  BY <1>1, WorkerInitIInv, WorkerNextIInv, PTL DEF WorkerSpec

-----------------------------------------------------------------------------
(* The process that serves.                                                *)

Held == {"watch", "consume"}
Todo == Held \cup {"plugins", "blobs", "serving"}

ServedTyped ==
    /\ steps \in Seq(Held) /\ held \in Seq(Seq(Held))
    /\ current \in 1 .. Len(held)
    /\ running \subseteq Held
    /\ reload \in [stage : {"none", "loading", "swapped", "refused", "over"}, gen : Nat]
    /\ bye \in [todo : Seq(Todo), known : Nat]
    /\ debounce \in BOOLEAN /\ crossed \subseteq Nat

(* The watcher waits only while it runs; a reload is of a generation later *)
(* than the one served, or of the one served before; a stop knows one.     *)
StopsInTime ==
    /\ Stopping => bye.known # 0
    /\ debounce => "watch" \in running
    /\ reload.stage = "loading" => reload.gen = Len(held) /\ current < Len(held)
    /\ reload.stage = "swapped" => reload.gen < current

(* Every generation that missed nothing holds whatever runs, until a stop; *)
(* and what is set up is what is served, or was before.                    *)
Has(u, S) == \A s \in S : \E i \in 1 .. Len(u) : u[i] = s

Undisturbed ==
    /\ ~Stopping => \A g \in 1 .. Len(held) : g \notin crossed => Has(held[g], running)
    /\ down \subseteq {current} \cup (IF reload.stage = "swapped" THEN {reload.gen} ELSE {})
    /\ blobs \subseteq 1 .. current

IsTodo(s) == \E i \in 1 .. Len(bye.todo) : bye.todo[i] = s

(* A stop that was not crossed knows the generation served, and has still  *)
(* to stop what it has not stopped.                                        *)
StillToStop ==
    Stopping /\ current \notin crossed =>
        /\ bye.known = current
        /\ \A s \in running : IsTodo(s)
        /\ current \in down => IsTodo("plugins")
        /\ blobs # {} => IsTodo("blobs")

ServedIInv == ServedTyped /\ StopsInTime /\ Undisturbed /\ StillToStop

(* A process that is starting: one generation, holding nothing yet.        *)
LEMMA ServedInitIInv == ServedInit => ServedIInv
<1> SUFFICES ASSUME ServedInit PROVE ServedIInv
  OBVIOUS
<1> USE DEF ServedInit, Serving, NoReload, Stopping
<1>1. held \in Seq(Seq(Held)) /\ Len(held) = 1 /\ steps \in Seq(Held)
  <2>1. <<>> \in Seq(Held)
    BY EmptySeq
  <2>2. <<<<>>>> \in Seq(Seq(Held)) /\ Len(<<<<>>>>) = 1
    BY <2>1
  <2>3. <<"watch", "consume">> \in Seq(Held) /\ <<"consume", "watch">> \in Seq(Held)
    BY DEF Held
  <2>4. QED
    BY <2>2, <2>3
<1>2. bye \in [todo : Seq(Todo), known : Nat]
  BY DEF Todo
<1>3. ServedTyped
  <2>1. current \in 1 .. Len(held) /\ running \subseteq Held
    BY <1>1
  <2>2. reload \in [stage : {"none", "loading", "swapped", "refused", "over"}, gen : Nat]
    OBVIOUS
  <2>3. debounce \in BOOLEAN /\ crossed \subseteq Nat
    OBVIOUS
  <2>4. QED
    BY <1>1, <1>2, <2>1, <2>2, <2>3 DEF ServedTyped
<1>4. StopsInTime /\ Undisturbed /\ StillToStop
  BY <1>1 DEF StopsInTime, Undisturbed, Has, StillToStop
<1>5. QED
  BY <1>3, <1>4 DEF ServedIInv

(* A startup step: what it starts is held by the first generation, and     *)
(* missed by the others there are.                                         *)
LEMMA HoldKeeps == ASSUME ServedIInv, Hold PROVE ServedIInv'
<1> USE DEF ServedIInv
<1> DEFINE step == Head(steps)
<1>1. /\ steps # <<>> /\ ~Stopping /\ steps' = Tail(steps)
      /\ held' = [held EXCEPT ![1] = Append(@, step)]
      /\ running' = running \cup {step}
      /\ crossed' = crossed \cup 2 .. Len(held)
      /\ UNCHANGED <<current, down, debounce, reload, bye, blobs>>
  BY DEF Hold
<1>2. step \in Held /\ steps' \in Seq(Held)
  BY <1>1 DEF ServedTyped
<1>3. Len(held) \in Nat /\ 1 \in 1 .. Len(held) /\ held[1] \in Seq(Held)
  BY DEF ServedTyped
<1> HIDE DEF step
<1>4. /\ Append(held[1], step) \in Seq(Held)
      /\ Len(Append(held[1], step)) = Len(held[1]) + 1
      /\ Append(held[1], step)[Len(held[1]) + 1] = step
      /\ \A i \in 1 .. Len(held[1]) : Append(held[1], step)[i] = held[1][i]
  BY <1>2, <1>3
<1>5. held' \in Seq(Seq(Held)) /\ Len(held') = Len(held) /\ held'[1] = Append(held[1], step)
  BY <1>1, <1>3, <1>4 DEF ServedTyped
<1>6. ServedTyped' /\ StopsInTime'
  <2>1. crossed \subseteq Nat /\ 2 .. Len(held) \subseteq Nat
    BY <1>3 DEF ServedTyped
  <2>2. crossed' \subseteq Nat
    BY <1>1, <2>1
  <2>3. QED
    BY <1>1, <1>2, <1>5, <2>2 DEF ServedTyped, StopsInTime, Stopping
<1>7. Stopping' = Stopping
  BY <1>1 DEF Stopping
<1>8. Undisturbed'
  <2>1. \A g \in 1 .. Len(held') : g \notin crossed' => g = 1 /\ 1 \notin crossed
    BY <1>1, <1>3, <1>5
  <2>2. 1 \notin crossed => Has(held[1], running)
    BY <1>1, <1>3 DEF Undisturbed
  <2>3. Len(held[1]) \in Nat
    BY <1>3
  <2>4. ASSUME 1 \notin crossed PROVE Has(held'[1], running')
    <3>1. \A s \in running : \E i \in 1 .. Len(held[1]) : held[1][i] = s
      BY <2>2, <2>4 DEF Has
    <3>2. \A s \in running' : \E i \in 1 .. Len(held'[1]) : held'[1][i] = s
      BY <1>1, <1>4, <1>5, <2>3, <3>1
    <3>3. QED
      BY <3>2 DEF Has
  <2>5. QED
    BY <1>1, <2>1, <2>4 DEF Undisturbed
<1>9. StillToStop'
  BY <1>1, <1>7 DEF StillToStop
<1>10. QED
  BY <1>6, <1>8, <1>9

(* A reload that begins makes a generation that holds what the one served  *)
(* does, or is refused.                                                    *)
LEMMA BeginKeeps ==
    ASSUME ServedIInv, BeginReload, reload.stage \notin {"loading", "swapped"}, NEW b \in BOOLEAN, debounce' = b, b => debounce,
           UNCHANGED <<steps, current, down, running, bye, blobs>>
    PROVE  ServedIInv'
<1> USE DEF ServedIInv
<1>0. /\ Stopping' = Stopping
      /\ crossed' = IF disk.clean /\ current \in crossed THEN crossed \cup {Len(held) + 1} ELSE crossed
  BY DEF BeginReload, Stopping
<1>a. Len(held) \in Nat /\ current \in 1 .. Len(held) /\ crossed \subseteq Nat
  BY DEF ServedTyped
<1>1. /\ Stopping' = Stopping /\ Len(held) \in Nat /\ current \in 1 .. Len(held)
      /\ crossed' = IF disk.clean /\ current \in crossed THEN crossed \cup {Len(held) + 1} ELSE crossed
      /\ crossed' \subseteq Nat /\ (current' \notin crossed' <=> current \notin crossed)
  <2>1. crossed' \subseteq Nat
    <3>1. crossed \subseteq Nat /\ Len(held) + 1 \in Nat
      BY <1>a
    <3>2. crossed \cup {Len(held) + 1} \subseteq Nat
      BY <3>1
    <3>3. crossed' = crossed \/ crossed' = crossed \cup {Len(held) + 1}
      BY <1>0
    <3>4. QED
      BY <3>1, <3>2, <3>3
  <2>2. current' = current /\ current # Len(held) + 1
    BY <1>a
  <2>3. QED
    BY <1>0, <1>a, <2>1, <2>2
<1>2. CASE disk.clean
  <2>1. reload' = [stage |-> "loading", gen |-> Len(held) + 1] /\ held' = Append(held, held[current])
    BY <1>2 DEF BeginReload, Prepare, Carried
  <2>2. /\ held' \in Seq(Seq(Held)) /\ Len(held') = Len(held) + 1 /\ Len(held) \in Nat
        /\ held'[Len(held) + 1] = held[current]
        /\ \A g \in 1 .. Len(held) : held'[g] = held[g]
    BY <2>1 DEF ServedTyped
  <2>3. ServedTyped' /\ StopsInTime'
    BY <1>1, <2>1, <2>2 DEF ServedTyped, StopsInTime, Stopping
  <2>4. Undisturbed'
    <3>1. current \in 1 .. Len(held)
      BY DEF ServedTyped
    <3>2. ASSUME ~Stopping, NEW g \in 1 .. Len(held'), g \notin crossed'
          PROVE  Has(held'[g], running)
      <4>1. CASE g = Len(held) + 1
        <5>1. current \notin crossed /\ held'[g] = held[current]
          BY <1>1, <1>2, <2>2, <3>2, <4>1
        <5>2. Has(held[current], running)
          BY <3>1, <3>2, <5>1 DEF Undisturbed
        <5>3. QED
          BY <5>1, <5>2
      <4>2. CASE g # Len(held) + 1
        <5>1. g \in 1 .. Len(held)
          <6>1. g \in 1 .. Len(held) + 1
            BY <2>2, <3>2
          <6>2. QED
            BY <1>a, <4>2, <6>1
        <5>2. g \notin crossed
          BY <1>1, <3>2
        <5>3. Has(held[g], running)
          BY <3>2, <5>1, <5>2 DEF Undisturbed
        <5>4. QED
          BY <2>2, <5>1, <5>3
      <4>3. QED
        BY <4>1, <4>2
    <3>3. down' \subseteq {current'} \cup (IF reload'.stage = "swapped" THEN {reload'.gen} ELSE {})
      BY DEF Undisturbed
    <3>4. blobs' \subseteq 1 .. current'
      BY DEF Undisturbed
    <3>5. QED
      BY <1>1, <3>2, <3>3, <3>4 DEF Undisturbed
  <2>5. StillToStop'
    BY <1>1 DEF StillToStop, IsTodo
  <2>6. QED
    BY <2>3, <2>4, <2>5
<1>3. CASE ~disk.clean
  <2>1. reload' = [reload EXCEPT !.stage = "refused", !.gen = 0] /\ UNCHANGED held
    BY <1>3 DEF BeginReload, Prepare, NoReload, ServedTyped
  <2>2. ServedTyped' /\ StopsInTime'
    BY <1>1, <2>1 DEF ServedTyped, StopsInTime, Stopping
  <2>3. Undisturbed' /\ StillToStop'
    BY <1>1, <1>3, <2>1 DEF Undisturbed, StillToStop, ServedTyped, IsTodo
  <2>4. QED
    BY <2>2, <2>3
<1>4. QED
  BY <1>2, <1>3

(* A reload that goes on: what is set up and on disk is of the generation  *)
(* served, and of the one before until it is torn down.                    *)
LEMMA ReloadKeeps == ASSUME ServedIInv, Reload PROVE ServedIInv'
<1> USE DEF ServedIInv
<1>1. CASE Fire
  <2>1. CASE reload.stage = "none"
    BY <1>1, <2>1, BeginKeeps DEF Fire
  <2>2. CASE reload.stage # "none"
    <3>1. ~debounce' /\ UNCHANGED <<steps, held, current, down, running, reload, bye, blobs, crossed>>
      BY <1>1, <2>2 DEF Fire
    <3>2. ServedTyped' /\ StopsInTime' /\ StillToStop'
      BY <1>1, <3>1 DEF Fire, ServedTyped, StopsInTime, StillToStop, IsTodo, Stopping
    <3>3. Undisturbed'
      BY <3>1 DEF Undisturbed, Stopping
    <3>4. QED
      BY <3>2, <3>3
  <2>3. QED
    BY <2>1, <2>2
<1>2. CASE Swap
  <2>1. /\ reload.stage = "loading" /\ down' = down \cup {reload.gen} /\ current' = reload.gen
        /\ blobs' = blobs \cup {reload.gen}
        /\ reload' = [stage |-> "swapped", gen |-> current]
        /\ crossed' = IF Stopping THEN crossed \cup {reload.gen} ELSE crossed
        /\ UNCHANGED <<steps, held, running, debounce, bye>>
    BY <1>2 DEF Swap, ServedTyped
  <2>2. reload.gen = Len(held) /\ current < Len(held) /\ current \in Nat /\ Len(held) \in Nat
    BY <2>1 DEF StopsInTime, ServedTyped
  <2>a. crossed' \subseteq Nat /\ (Stopping => current' \in crossed')
    <3>1. crossed \subseteq Nat
      BY DEF ServedTyped
    <3>2. QED
      BY <2>1, <2>2, <3>1
  <2>3. ServedTyped' /\ StopsInTime'
    BY <2>1, <2>2, <2>a DEF ServedTyped, StopsInTime, Stopping
  <2>4. Stopping' = Stopping
    BY <2>1 DEF Stopping
  <2>5. Undisturbed'
    <3>1. down \subseteq {current} /\ blobs \subseteq 1 .. current
      BY <2>1 DEF Undisturbed
    <3>2. down' \subseteq {current', reload'.gen} /\ blobs' \subseteq 1 .. current'
      <4>1. reload'.gen = current /\ current' = Len(held)
        BY <2>1, <2>2
      <4>2. 1 .. current \subseteq 1 .. Len(held) /\ Len(held) \in 1 .. Len(held)
        BY <2>2
      <4>3. QED
        BY <2>1, <2>2, <3>1, <4>1, <4>2
    <3>3. ~Stopping => \A g \in 1 .. Len(held) : g \notin crossed => Has(held[g], running)
      BY DEF Undisturbed
    <3>4. ~Stopping' => \A g \in 1 .. Len(held') : g \notin crossed' => Has(held'[g], running')
      BY <2>1, <2>4, <3>3
    <3>5. QED
      BY <2>1, <3>2, <3>4 DEF Undisturbed
  <2>6. StillToStop'
    BY <2>4, <2>a DEF StillToStop
  <2>7. QED
    BY <2>3, <2>5, <2>6
<1>3. CASE Fails
  <2>1. /\ reload.stage = "loading" /\ reload' = [stage |-> "refused", gen |-> 0]
        /\ UNCHANGED <<steps, held, current, down, running, debounce, bye, blobs, crossed>>
    BY <1>3 DEF Fails, NoReload
  <2>2. QED
    BY <2>1 DEF ServedTyped, StopsInTime, Undisturbed, StillToStop, IsTodo, Stopping
<1>4. CASE TearDown
  <2>1. /\ reload.stage = "swapped" /\ reload' = [stage |-> "over", gen |-> 0]
        /\ down' = down \ {reload.gen}
        /\ UNCHANGED <<steps, held, current, running, debounce, bye, blobs, crossed>>
    BY <1>4 DEF TearDown, NoReload
  <2>2. ServedTyped' /\ StopsInTime' /\ StillToStop'
    BY <2>1 DEF ServedTyped, StopsInTime, StillToStop, IsTodo, Stopping
  <2>3. Undisturbed'
    BY <2>1 DEF Undisturbed, Stopping
  <2>4. QED
    BY <2>2, <2>3
<1>5. CASE Over
  <2>1. CASE GoesOn
    BY <1>5, <2>1, BeginKeeps DEF Over, ServedTyped
  <2>2. CASE ~GoesOn
    <3>1. /\ reload.stage \in {"refused", "over"} /\ reload' = [stage |-> "none", gen |-> 0]
          /\ UNCHANGED <<steps, held, current, down, running, debounce, bye, blobs, crossed>>
      BY <1>5, <2>2 DEF Over, NoReload
    <3>2. QED
      BY <3>1 DEF ServedTyped, StopsInTime, Undisturbed, StillToStop, IsTodo, Stopping
  <2>3. QED
    BY <2>1, <2>2
<1>6. QED
  BY <1>1, <1>2, <1>3, <1>4, <1>5 DEF Reload

(* Whether s is in the sequence u.                                         *)
AmongIts(s, u) == \E j \in 1 .. Len(u) : u[j] = s

(* What is held is among what a stop has to do, in reverse and before the  *)
(* plugins and the blobs.                                                  *)
LEMMA ReverseKeeps ==
    ASSUME NEW s \in Seq(Todo), NEW u,
           u = [i \in 1 .. Len(s) |-> s[Len(s) - i + 1]] \o <<"plugins", "blobs">>
    PROVE  /\ u \in Seq(Todo) /\ AmongIts("plugins", u) /\ AmongIts("blobs", u)
           /\ \A i \in 1 .. Len(s) : AmongIts(s[i], u)
<1> SUFFICES ASSUME NEW r, NEW t,
                    r = [i \in 1 .. Len(s) |-> s[Len(s) - i + 1]], t = <<"plugins", "blobs">>, u = r \o t
             PROVE  /\ u \in Seq(Todo) /\ AmongIts("plugins", u) /\ AmongIts("blobs", u)
                    /\ \A i \in 1 .. Len(s) : AmongIts(s[i], u)
  OBVIOUS
<1>1. /\ r \in Seq(Todo) /\ Len(r) = Len(s) /\ Len(s) \in Nat
      /\ \A i \in 1 .. Len(s) : r[i] = s[Len(s) - i + 1]
  OBVIOUS
<1>2. t \in Seq(Todo) /\ Len(t) = 2 /\ t[1] = "plugins" /\ t[2] = "blobs"
  BY DEF Todo
<1>3. /\ u \in Seq(Todo) /\ Len(u) = Len(s) + 2
      /\ \A j \in 1 .. Len(s) : u[j] = r[j]
      /\ \A j \in 1 .. Len(t) : u[Len(s) + j] = t[j]
  BY <1>1, <1>2
<1>4. ASSUME NEW i \in 1 .. Len(s) PROVE AmongIts(s[i], u)
  <2> DEFINE j == Len(s) - i + 1
  <2>1. j \in 1 .. Len(s) /\ Len(s) - j + 1 = i
    BY <1>1
  <2>2. u[j] = s[i]
    BY <1>1, <1>3, <2>1
  <2>3. j \in 1 .. Len(u)
    BY <1>1, <1>3, <2>1
  <2>4. QED
    BY <2>2, <2>3 DEF AmongIts
<1>5. AmongIts("plugins", u) /\ AmongIts("blobs", u)
  <2>1. 1 \in 1 .. Len(t) /\ 2 \in 1 .. Len(t)
    BY <1>2
  <2>2. u[Len(s) + 1] = "plugins" /\ u[Len(s) + 2] = "blobs"
    BY <1>2, <1>3, <2>1
  <2>3. Len(s) + 1 \in 1 .. Len(u) /\ Len(s) + 2 \in 1 .. Len(u)
    BY <1>1, <1>3
  <2>4. QED
    BY <2>2, <2>3 DEF AmongIts
<1>6. QED
  BY <1>3, <1>4, <1>5

(* A stop has everything still to stop that the generation served holds.   *)
LEMMA StopKeeps == ASSUME ServedIInv, Stop PROVE ServedIInv'
<1> USE DEF ServedIInv
<1>1. /\ ~Stopping /\ steps' = <<>>
      /\ bye' = [todo |-> Reverse(held[current]) \o <<"plugins", "blobs">>, known |-> current]
      /\ UNCHANGED <<held, current, down, running, debounce, reload, blobs, crossed>>
  BY DEF Stop, HeldNow
<1>2. held[current] \in Seq(Held) /\ current \in Nat \ {0}
  BY DEF ServedTyped
<1>3. held[current] \in Seq(Todo)
  BY <1>2 DEF Todo
<1>4. /\ bye'.todo \in Seq(Todo)
      /\ \A i \in 1 .. Len(held[current]) : IsTodo(held[current][i])'
      /\ IsTodo("plugins")' /\ IsTodo("blobs")'
  <2>1. PICK s : s = held[current]
    OBVIOUS
  <2>2. PICK u : u = bye'.todo
    OBVIOUS
  <2>3. s \in Seq(Todo) /\ u = [i \in 1 .. Len(s) |-> s[Len(s) - i + 1]] \o <<"plugins", "blobs">>
    <3>1. u = Reverse(held[current]) \o <<"plugins", "blobs">>
      BY <1>1, <2>2
    <3>2. s \in Seq(Todo)
      BY <1>3, <2>1
    <3>3. QED
      BY <2>1, <3>1, <3>2, Zenon DEF Reverse
  <2>4. u \in Seq(Todo) /\ AmongIts("plugins", u) /\ AmongIts("blobs", u)
        /\ \A i \in 1 .. Len(s) : AmongIts(s[i], u)
    BY <2>3, ReverseKeeps, Zenon
  <2>5. \A x : AmongIts(x, u) => \E j \in 1 .. Len(bye'.todo) : bye'.todo[j] = x
    BY <2>2 DEF AmongIts
  <2>6. \A i \in 1 .. Len(held[current]) : \E j \in 1 .. Len(bye'.todo) : bye'.todo[j] = held[current][i]
    BY <2>1, <2>4, <2>5
  <2>7. held' = held /\ current' = current
    BY <1>1
  <2>8. QED
    BY <2>2, <2>4, <2>5, <2>6, <2>7 DEF IsTodo
<1>5. ServedTyped'
  <2>1. steps' \in Seq(Held)
    BY <1>1
  <2>2. bye' \in [todo : Seq(Todo), known : Nat]
    BY <1>1, <1>2, <1>4
  <2>3. QED
    BY <1>1, <2>1, <2>2 DEF ServedTyped
<1>6. Stopping'
  BY <1>1, <1>2 DEF Stopping, Serving
<1>7. StopsInTime'
  BY <1>1, <1>2 DEF StopsInTime
<1>8. Undisturbed'
  BY <1>1, <1>6 DEF Undisturbed
<1>9. StillToStop'
  <2> SUFFICES ASSUME current \notin crossed PROVE StillToStop'
    BY <1>1 DEF StillToStop
  <2>1. Has(held[current], running)
    <3>1. current \in 1 .. Len(held)
      BY DEF ServedTyped
    <3>2. QED
      BY <1>1, <3>1 DEF Undisturbed
  <2>2. \A s \in running : IsTodo(s)'
    <3>1. TAKE s \in running
    <3>2. PICK i \in 1 .. Len(held[current]) : held[current][i] = s
      BY <2>1 DEF Has
    <3>3. held'[current'] = held[current]
      BY <1>1
    <3>4. QED
      BY <1>4, <3>2, <3>3 DEF IsTodo
  <2>3. QED
    BY <1>1, <1>4, <2>2 DEF StillToStop
<1>10. QED
  BY <1>5, <1>7, <1>8, <1>9

(* A stop stops the first of what it has still to stop.                    *)
LEMMA StopOneKeeps == ASSUME ServedIInv, StopOne PROVE ServedIInv'
<1> USE DEF ServedIInv
<1> DEFINE one == Head(bye.todo)
<1>1. /\ Stopping /\ bye.todo # <<>>
      /\ bye' = [bye EXCEPT !.todo = Tail(bye.todo)]
      /\ running' = running \ {one} /\ debounce' = (debounce /\ one # "watch")
      /\ down' = IF one = "plugins" THEN down \ {current} ELSE down
      /\ blobs' = IF one = "blobs" THEN blobs \ (1 .. bye.known) ELSE blobs
      /\ UNCHANGED <<steps, held, current, reload, crossed>>
  BY DEF StopOne, AllStopped
<1>2. /\ one = bye.todo[1] /\ Tail(bye.todo) \in Seq(Todo) /\ Len(bye.todo) \in Nat
      /\ Len(Tail(bye.todo)) = Len(bye.todo) - 1
      /\ \A i \in 1 .. Len(bye.todo) - 1 : Tail(bye.todo)[i] = bye.todo[i + 1]
  BY <1>1 DEF ServedTyped
<1> HIDE DEF one
<1>3. ASSUME NEW s, s # one, IsTodo(s) PROVE IsTodo(s)'
  <2>1. PICK i \in 1 .. Len(bye.todo) : bye.todo[i] = s
    BY <1>3 DEF IsTodo
  <2>2. i - 1 \in 1 .. Len(bye.todo) - 1 /\ i - 1 + 1 = i
    BY <1>2, <1>3, <2>1
  <2>3. Tail(bye.todo)[i - 1] = s
    BY <1>2, <2>1, <2>2
  <2>4. bye'.todo = Tail(bye.todo)
    BY <1>1 DEF ServedTyped
  <2>5. QED
    BY <1>2, <2>2, <2>3, <2>4 DEF IsTodo
<1>4. debounce' \in BOOLEAN
  BY <1>1 DEF ServedTyped
<1>k. bye'.known = bye.known /\ bye.known # 0 /\ Stopping'
  <2>1. bye'.known = bye.known /\ bye.known # 0
    BY <1>1 DEF ServedTyped, StopsInTime
  <2>2. Stopping'
    BY <2>1 DEF Stopping, Serving
  <2>3. QED
    BY <2>1, <2>2
<1>5. ServedTyped' /\ StopsInTime'
  BY <1>1, <1>2, <1>4, <1>k DEF ServedTyped, StopsInTime
<1>6. Undisturbed' /\ StillToStop'
  <2>4. Undisturbed'
    BY <1>1, <1>k DEF Undisturbed
  <2> SUFFICES ASSUME current \notin crossed PROVE StillToStop'
    BY <1>1, <2>4 DEF StillToStop
  <2>1. bye.known = current /\ bye'.known = current /\ current \in Nat \ {0}
    BY <1>1, <1>k DEF StillToStop, ServedTyped
  <2>3. blobs \subseteq 1 .. current
    BY DEF Undisturbed
  <2>5. \A s \in running' : IsTodo(s)'
    BY <1>1, <1>3 DEF StillToStop
  <2>6. current \in down' => IsTodo("plugins")'
    BY <1>1, <1>3 DEF StillToStop
  <2>7. blobs' # {} => IsTodo("blobs")'
    BY <1>1, <1>3, <2>1, <2>3 DEF StillToStop
  <2>8. QED
    BY <1>1, <2>1, <2>3, <2>4, <2>5, <2>6, <2>7 DEF StillToStop
<1>7. QED
  BY <1>5, <1>6

(* Every step keeps it.                                                    *)
LEMMA ServedNextIInv == ServedIInv /\ [ServedNext]_servedVars => ServedIInv'
<1> SUFFICES ASSUME ServedIInv, [ServedNext]_servedVars PROVE ServedIInv'
  OBVIOUS
<1>1. CASE Use
  <2>1. UNCHANGED <<steps, held, current, down, running, debounce, reload, bye, blobs, crossed>>
    BY <1>1 DEF Use
  <2>2. QED
    BY <2>1 DEF ServedIInv, ServedTyped, StopsInTime, Undisturbed, StillToStop, IsTodo, Stopping
<1>2. CASE Edit
  <2>1. UNCHANGED <<steps, held, current, down, running, reload, bye, blobs, crossed>>
    BY <1>2 DEF Edit
  <2>2. debounce' \in BOOLEAN /\ (debounce' => "watch" \in running)
    <3>1. debounce' = ("watch" \in running)
      BY <1>2 DEF Edit
    <3>2. ("watch" \in running) \in BOOLEAN
      OBVIOUS
    <3>3. QED
      BY <3>1, <3>2
  <2>3. QED
    BY <2>1, <2>2 DEF ServedIInv, ServedTyped, StopsInTime, Undisturbed, StillToStop, IsTodo, Stopping
<1>3. CASE UNCHANGED servedVars
  BY <1>3 DEF servedVars, ServedIInv, ServedTyped, StopsInTime, Undisturbed, StillToStop, IsTodo, Stopping
<1>4. QED
  BY <1>1, <1>2, <1>3, HoldKeeps, ReloadKeeps, StopKeeps, StopOneKeeps DEF ServedNext

(* However many edits and reloads came before, and whatever reload a stop  *)
(* comes upon that swaps nothing in after it: it leaves nothing running, no*)
(* plugin set up, no blob store on disk and no reload to come (serve.ts    *)
(* bye, post-load.ts).                                                     *)
THEOREM NothingOutlivesTheProcess == ServedSpec => []StopLeavesNothing
<1>1. ServedIInv => StopLeavesNothing
  <2> SUFFICES ASSUME ServedIInv, AllStopped, reload.stage = "none", current \notin crossed
               PROVE  running = {} /\ down = {} /\ blobs = {} /\ ~debounce
    BY DEF StopLeavesNothing
  <2>1. Stopping
    <3>1. Serving.todo # <<>>
      BY DEF Serving
    <3>2. QED
      BY <3>1 DEF AllStopped, Stopping
  <2>2. \A s : ~IsTodo(s)
    BY DEF AllStopped, IsTodo
  <2>3. /\ \A s \in running : IsTodo(s)
        /\ current \in down => IsTodo("plugins")
        /\ blobs # {} => IsTodo("blobs")
        /\ down \subseteq {current}
    BY <2>1 DEF ServedIInv, StillToStop, Undisturbed
  <2>4. running = {} /\ down = {} /\ blobs = {}
    BY <2>2, <2>3
  <2>5. QED
    BY <2>4 DEF ServedIInv, StopsInTime
<1>2. QED
  BY <1>1, ServedInitIInv, ServedNextIInv, PTL DEF ServedSpec
=============================================================================
