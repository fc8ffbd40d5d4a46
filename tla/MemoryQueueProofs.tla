--------------------------- MODULE MemoryQueueProofs ---------------------------
(***************************************************************************)
(* What holds of a queue kept in memory, however many messages it keeps,   *)
(* whatever fails: proofs about MemoryQueue, and that it implements        *)
(* Delivery.                                                               *)
(***************************************************************************)
EXTENDS MemoryQueue, FiniteSetTheorems, TLAPS

OutType == [of : Message, attempt : Nat, at : {"running", "settled"}]

In(list)       == {list[i] : i \in DOMAIN list}
EachOnce(list) == \A i, j \in DOMAIN list : list[i] = list[j] => i = j

RunningOf(m, o) == {d \in o : d.of = m /\ d.at = "running"}

(* A message kept is on the list or runs, not both and never twice; what   *)
(* runs is its latest attempt, and what waits has not been handed out.  Of *)
(* the queue's state: what is kept, the list, the attempts, what is in     *)
(* flight and what was handed out.                                         *)
Typed(k, list, at, o, h) ==
    /\ k \in [Message -> {"unpublished", "kept", "gone", "dead"}]
    /\ list \in Seq(Message) /\ at \in [Message -> Nat]
    /\ o \in SUBSET OutType /\ h \in SUBSET (Message \X Nat)

Placed(k, list, o) ==
    /\ EachOnce(list)
    /\ \A d, e \in o : d.at = "running" /\ e.at = "running" /\ d.of = e.of => d = e
    /\ \A d \in o : d.at = "running" => d.of \notin In(list)
    /\ \A m \in Message : k[m] = "kept" <=> m \in In(list) \/ \E d \in o : d.of = m /\ d.at = "running"

Numbered(k, list, at, o, h) ==
    /\ \A d \in o : d.at = "running" => d.attempt = at[d.of]
    /\ \A x \in h : x[2] <= at[x[1]] /\ k[x[1]] # "unpublished"
    /\ \A x \in h : x[1] \in In(list) => x[2] < at[x[1]]

Sound(k, list, at, o, h) ==
    Typed(k, list, at, o, h) /\ Placed(k, list, o) /\ Numbered(k, list, at, o, h)

IInv == Sound(kept, waiting, attempt, out, handed)

-----------------------------------------------------------------------------
(* What is left of a list: the place k of the result is that of the only   *)
(* element with k left up to it, so that nothing is left twice or lost.    *)

LEMMA InIs == ASSUME NEW S, NEW list \in Seq(S) PROVE In(list) \in SUBSET S /\ DOMAIN list = 1 .. Len(list)
  BY DEF In

(* Counting those left up to each numbers them from 1 on.                  *)
LEMMA Counting ==
    ASSUME NEW n \in Nat, NEW left \in SUBSET (1 .. n)
    PROVE  LET Upto(i) == Cardinality({j \in left : j <= i}) IN
           /\ Cardinality(left) \in Nat
           /\ \A i \in left : Upto(i) \in 1 .. Cardinality(left)
           /\ \A i, j \in left : Upto(i) = Upto(j) => i = j
           /\ \A k \in 1 .. Cardinality(left) : \E i \in left : Upto(i) = k
<1> DEFINE Below(i) == {j \in left : j <= i}
           rank == [i \in left |-> Cardinality(Below(i))]
<1>1. IsFiniteSet(left) /\ Cardinality(left) \in Nat
  <2>1. IsFiniteSet(1 .. n)
    BY FS_Interval
  <2> QED
    BY <2>1, FS_Subset, FS_CardinalityType
<1>nat. \A i \in left : i \in Nat
  OBVIOUS
<1>2. ASSUME NEW i \in left
      PROVE  /\ IsFiniteSet(Below(i)) /\ Cardinality(Below(i)) \in Nat
             /\ Cardinality(Below(i)) <= Cardinality(left)
  <2>1. Below(i) \in SUBSET left
    OBVIOUS
  <2> HIDE DEF Below
  <2> QED
    BY <1>1, <2>1, FS_Subset, FS_CardinalityType
<1>3. ASSUME NEW i \in left PROVE Cardinality(Below(i)) # 0
  <2>1. i \in Below(i)
    OBVIOUS
  <2> QED
    BY <1>2, <2>1, FS_EmptySet
<1>4. ASSUME NEW i \in left, NEW j \in left, i < j PROVE Cardinality(Below(i)) # Cardinality(Below(j))
  <2>1. i \in Nat /\ j \in Nat /\ i < j
    BY <1>nat, <1>4
  <2>2. \A m \in left : m <= i => m <= j
    BY <1>nat, <2>1
  <2>subset. Below(i) \subseteq Below(j)
    BY <2>2
  <2>member. j \in Below(j) /\ j \notin Below(i)
    BY <2>1
  <2>3. Below(i) \in SUBSET Below(j) /\ j \in Below(j) /\ j \notin Below(i)
    BY <2>subset, <2>member
  <2>4. IsFiniteSet(Below(j)) /\ Below(i) # Below(j)
    BY <1>2, <2>3
  <2> HIDE DEF Below
  <2> QED
    BY <2>3, <2>4, FS_Subset
<1>5. rank \in [left -> 1 .. Cardinality(left)]
  BY <1>1, <1>2, <1>3
<1>6. \A i, j \in left : rank[i] = rank[j] => i = j
  <2> SUFFICES ASSUME NEW i \in left, NEW j \in left, rank[i] = rank[j], i # j PROVE FALSE
    OBVIOUS
  <2>1. i < j \/ j < i
    OBVIOUS
  <2> HIDE DEF Below
  <2> QED
    BY <1>4, <2>1
<1>7. \A i \in left : rank[i] = Cardinality(Below(i))
  OBVIOUS
<1> HIDE DEF rank
<1>8. rank \in Injection(left, 1 .. Cardinality(left))
  BY <1>5, <1>6 DEF Injection, IsInjective
<1>9. IsFiniteSet(1 .. Cardinality(left)) /\ Cardinality(1 .. Cardinality(left)) = Cardinality(left)
  BY <1>1, FS_Interval
<1>10. rank \in Surjection(left, 1 .. Cardinality(left))
  BY <1>8, <1>9, FS_Injection
<1>11. \A k \in 1 .. Cardinality(left) : \E i \in left : rank[i] = k
  BY <1>10 DEF Surjection
<1> QED
  BY <1>1, <1>5, <1>6, <1>7, <1>11

LEMMA LeftOverIs ==
    ASSUME NEW S, NEW list \in Seq(S), NEW taken, EachOnce(list)
    PROVE  /\ LeftOver(list, taken) \in Seq(S) /\ EachOnce(LeftOver(list, taken))
           /\ In(LeftOver(list, taken)) = In(list) \ taken
<1> DEFINE left == {i \in DOMAIN list : list[i] \notin taken}
           Upto(i) == Cardinality({j \in left : j <= i})
           Nth(k) == CHOOSE i \in left : Upto(i) = k
           rest == [k \in 1 .. Cardinality(left) |-> list[Nth(k)]]
<1>1. LeftOver(list, taken) = rest
  BY DEF LeftOver
<1>2. Len(list) \in Nat /\ DOMAIN list = 1 .. Len(list) /\ left \in SUBSET (1 .. Len(list))
  OBVIOUS
<1>3. \A i \in left : i \in DOMAIN list /\ list[i] \in S /\ list[i] \notin taken
  BY <1>2
<1>left. \A i \in DOMAIN list : list[i] \notin taken => i \in left
  OBVIOUS
<1> HIDE DEF left
<1>4. /\ Cardinality(left) \in Nat
      /\ \A i \in left : Upto(i) \in 1 .. Cardinality(left)
      /\ \A i, j \in left : Upto(i) = Upto(j) => i = j
      /\ \A k \in 1 .. Cardinality(left) : \E i \in left : Upto(i) = k
  BY <1>2, Counting
<1> HIDE DEF Upto
<1>5. \A k \in 1 .. Cardinality(left) : Nth(k) \in left /\ Upto(Nth(k)) = k
  BY <1>4
<1>6. \A i \in left : i = Nth(Upto(i))
  BY <1>4, <1>5
<1> HIDE DEF Nth
<1>7. rest \in [1 .. Cardinality(left) -> S]
  BY <1>3, <1>5
<1>8. \A k \in 1 .. Cardinality(left) : rest[k] = list[Nth(k)]
  OBVIOUS
<1>9. DOMAIN rest = 1 .. Cardinality(left)
  OBVIOUS
<1> HIDE DEF rest
<1>10. rest \in Seq(S)
  BY <1>4, <1>7
<1>11. EachOnce(rest)
  <2> SUFFICES ASSUME NEW j \in DOMAIN rest, NEW k \in DOMAIN rest, rest[j] = rest[k] PROVE j = k
    BY DEF EachOnce
  <2>1. Nth(j) = Nth(k)
    BY <1>3, <1>5, <1>8, <1>9 DEF EachOnce
  <2> QED
    BY <1>5, <1>9, <2>1
<1>12. ASSUME NEW x \in In(rest) PROVE x \in In(list) \ taken
  <2>1. PICK k \in DOMAIN rest : x = rest[k]
    BY <1>12 DEF In
  <2> QED
    BY <1>3, <1>5, <1>8, <1>9, <2>1 DEF In
<1>13. ASSUME NEW x \in In(list) \ taken PROVE x \in In(rest)
  <2>1. PICK i \in DOMAIN list : x = list[i] /\ i \in left
    BY <1>13, <1>left DEF In
  <2>2. Upto(i) \in DOMAIN rest /\ rest[Upto(i)] = x
    BY <1>4, <1>6, <1>8, <1>9, <2>1
  <2> QED
    BY <2>2 DEF In
<1> QED
  BY <1>1, <1>10, <1>11, <1>12, <1>13

-----------------------------------------------------------------------------
(* What the steps do to the five.  A pump moves messages from the list into*)
(* flight, each as the attempt it has.                                     *)
Moves(taken, list, at, o, h) ==
    /\ waiting' = LeftOver(list, taken)
    /\ out' = o \cup {[of |-> m, attempt |-> at[m], at |-> "running"] : m \in taken}
    /\ handed' = h \cup {<<m, at[m]>> : m \in taken}

LEMMA PumpMoves ==
    ASSUME NEW list, NEW at, NEW dueNow, NEW o, Pump(list, at, dueNow, o)
    PROVE  \E taken \in SUBSET In(list) : Moves(taken, list, at, o, handed)
<1>1. FirstDue(list, dueNow, Room(o)) \subseteq In(list)
  BY DEF FirstDue, In
<1> QED
  BY <1>1 DEF Pump, Moves

LEMMA MovesSound ==
    ASSUME NEW k, NEW list, NEW at, NEW o, NEW h, NEW taken \in SUBSET In(list),
           Sound(k, list, at, o, h), Moves(taken, list, at, o, h)
    PROVE  /\ Sound(k, waiting', at, out', handed')
           /\ \A m \in taken : m \in Message /\ at[m] \in Nat /\ k[m] = "kept" /\ <<m, at[m]>> \notin h
           /\ \A m \in taken : \A d \in o : d.at = "running" => d.of # m
<1> DEFINE new == {[of |-> m, attempt |-> at[m], at |-> "running"] : m \in taken}
<1>1. /\ list \in Seq(Message) /\ at \in [Message -> Nat] /\ o \in SUBSET OutType
      /\ h \in SUBSET (Message \X Nat) /\ EachOnce(list)
  BY DEF Sound, Typed, Placed
<1>2. In(list) \in SUBSET Message
  BY <1>1, InIs
<1>3. /\ waiting' \in Seq(Message) /\ EachOnce(waiting')
      /\ In(waiting') = In(list) \ taken
  BY <1>1, LeftOverIs DEF Moves
<1>4. \A m \in taken : m \in Message /\ at[m] \in Nat /\ k[m] = "kept"
  BY <1>1, <1>2 DEF Sound, Placed
<1>5. \A m \in taken : <<m, at[m]>> \notin h
  <2> SUFFICES ASSUME NEW m \in taken, <<m, at[m]>> \in h PROVE FALSE
    OBVIOUS
  <2> QED
    BY <1>4 DEF Sound, Numbered
<1>6. \A m \in taken : \A d \in o : d.at = "running" => d.of # m
  BY DEF Sound, Placed
<1>7. out' = o \cup new /\ handed' = h \cup {<<m, at[m]>> : m \in taken}
  BY DEF Moves
<1>made. \A m \in taken : [of |-> m, attempt |-> at[m], at |-> "running"] \in OutType
  BY <1>4 DEF OutType
<1>8. ASSUME NEW d \in new
      PROVE  /\ d.of \in taken /\ d.at = "running" /\ d.attempt = at[d.of] /\ d \in OutType
             /\ d = [of |-> d.of, attempt |-> at[d.of], at |-> "running"]
  <2>1. PICK m \in taken : d = [of |-> m, attempt |-> at[m], at |-> "running"]
    OBVIOUS
  <2>2. d.of = m /\ d.attempt = at[m] /\ d.at = "running"
    BY <2>1
  <2>3. d \in OutType
    BY <1>made, <2>1
  <2>4. d = [of |-> d.of, attempt |-> at[d.of], at |-> "running"]
    BY <2>1, <2>2
  <2> QED
    BY <2>2, <2>3, <2>4
<1>9. ASSUME NEW m \in taken PROVE \E d \in new : d.of = m /\ d.at = "running"
  <2>1. [of |-> m, attempt |-> at[m], at |-> "running"] \in new
    OBVIOUS
  <2> QED
    BY <2>1
<1> HIDE DEF new
<1>10. Typed(k, waiting', at, out', handed')
  BY <1>1, <1>3, <1>4, <1>7, <1>8 DEF Typed, Sound
<1>11. \A d, e \in out' : d.at = "running" /\ e.at = "running" /\ d.of = e.of => d = e
  <2> SUFFICES ASSUME NEW d \in out', NEW e \in out', d.at = "running", e.at = "running", d.of = e.of
               PROVE  d = e
    OBVIOUS
  <2>1. CASE d \in o /\ e \in o
    BY <2>1 DEF Sound, Placed
  <2>2. CASE d \in new /\ e \in new
    BY <1>8, <2>2
  <2> QED
    BY <1>6, <1>7, <1>8, <2>1, <2>2
<1>12. \A d \in out' : d.at = "running" => d.of \notin In(waiting')
  BY <1>3, <1>7, <1>8 DEF Sound, Placed
<1>13. \A m \in Message : k[m] = "kept" <=> m \in In(waiting') \/ \E d \in out' : d.of = m /\ d.at = "running"
  <2> SUFFICES ASSUME NEW m \in Message
               PROVE  k[m] = "kept" <=> m \in In(waiting') \/ \E d \in out' : d.of = m /\ d.at = "running"
    OBVIOUS
  <2>1. k[m] = "kept" <=> m \in In(list) \/ \E d \in o : d.of = m /\ d.at = "running"
    BY DEF Sound, Placed
  <2> QED
    BY <1>3, <1>7, <1>8, <1>9, <2>1
<1>14. Numbered(k, waiting', at, out', handed')
  <2>1. \A d \in out' : d.at = "running" => d.attempt = at[d.of]
    BY <1>7, <1>8 DEF Sound, Numbered
  <2>2. \A x \in handed' : x[2] <= at[x[1]] /\ k[x[1]] # "unpublished"
    BY <1>4, <1>7 DEF Sound, Numbered
  <2>3. \A x \in handed' : x[1] \in In(waiting') => x[2] < at[x[1]]
    BY <1>3, <1>7 DEF Sound, Numbered
  <2> QED
    BY <2>1, <2>2, <2>3 DEF Numbered
<1> QED
  BY <1>3, <1>4, <1>5, <1>6, <1>10, <1>11, <1>12, <1>13, <1>14 DEF Sound, Placed

(* A message put on the list, of whom nothing else is about: it waits,     *)
(* with an attempt nobody was handed.                                      *)
LEMMA InAppended ==
    ASSUME NEW list \in Seq(Message), NEW m \in Message
    PROVE  /\ Append(list, m) \in Seq(Message) /\ In(Append(list, m)) = In(list) \cup {m}
           /\ EachOnce(list) /\ m \notin In(list) => EachOnce(Append(list, m))
<1>1. /\ Append(list, m) \in Seq(Message) /\ DOMAIN Append(list, m) = 1 .. (Len(list) + 1)
      /\ DOMAIN list = 1 .. Len(list) /\ Len(list) \in Nat
      /\ \A i \in 1 .. Len(list) : Append(list, m)[i] = list[i]
      /\ Append(list, m)[Len(list) + 1] = m
  OBVIOUS
<1>2. \A i \in DOMAIN Append(list, m) : i \in DOMAIN list \/ i = Len(list) + 1
  BY <1>1
<1>3. In(Append(list, m)) = In(list) \cup {m}
  BY <1>1, <1>2 DEF In
<1>4. EachOnce(list) /\ m \notin In(list) => EachOnce(Append(list, m))
  BY <1>1, <1>2 DEF In, EachOnce
<1> QED
  BY <1>1, <1>3, <1>4

LEMMA PutSound ==
    ASSUME NEW k, NEW list, NEW at, NEW o, NEW h, Sound(k, list, at, o, h), NEW m \in Message, NEW n \in Nat,
           m \notin In(list), NEW q \in SUBSET OutType,
           \A d \in q : d.at = "running" => d \in o /\ d.of # m,
           \A d \in o : d.at = "running" /\ d.of # m => d \in q,
           \A x \in h : x[1] = m => x[2] < n
    PROVE  Sound([k EXCEPT ![m] = "kept"], Append(list, m), [at EXCEPT ![m] = n], q, h)
<1> DEFINE kk == [k EXCEPT ![m] = "kept"]
           aa == [at EXCEPT ![m] = n]
<1>1. /\ k \in [Message -> {"unpublished", "kept", "gone", "dead"}] /\ list \in Seq(Message)
      /\ at \in [Message -> Nat] /\ o \in SUBSET OutType /\ h \in SUBSET (Message \X Nat) /\ EachOnce(list)
  BY DEF Sound, Typed, Placed
<1>2. /\ kk \in [Message -> {"unpublished", "kept", "gone", "dead"}] /\ kk[m] = "kept"
      /\ \A p \in Message \ {m} : kk[p] = k[p]
  BY <1>1
<1>3. aa \in [Message -> Nat] /\ aa[m] = n /\ \A p \in Message \ {m} : aa[p] = at[p]
  BY <1>1
<1>4. /\ Append(list, m) \in Seq(Message) /\ In(Append(list, m)) = In(list) \cup {m}
      /\ EachOnce(Append(list, m))
  BY <1>1, InAppended
<1>5. \A d \in q : d.at = "running" => d.of \in Message \ {m} /\ d \in o
  BY <1>1 DEF OutType
<1>6. \A x \in h : x[1] \in Message /\ x[2] \in Nat
  BY <1>1
<1> HIDE DEF kk, aa
<1>7. Typed(kk, Append(list, m), aa, q, h)
  BY <1>1, <1>2, <1>3, <1>4 DEF Typed
<1>8. Placed(kk, Append(list, m), q)
  <2>1. \A d, e \in q : d.at = "running" /\ e.at = "running" /\ d.of = e.of => d = e
    BY DEF Sound, Placed
  <2>2. \A d \in q : d.at = "running" => d.of \notin In(Append(list, m))
    BY <1>4, <1>5 DEF Sound, Placed
  <2>3. ASSUME NEW p \in Message
        PROVE  kk[p] = "kept" <=> p \in In(Append(list, m)) \/ \E d \in q : d.of = p /\ d.at = "running"
    <3>1. CASE p = m
      BY <1>2, <1>4, <3>1
    <3>2. CASE p # m
      <4>1. kk[p] = "kept" <=> p \in In(list) \/ \E d \in o : d.of = p /\ d.at = "running"
        BY <1>2, <3>2 DEF Sound, Placed
      <4> QED
        BY <1>4, <1>5, <3>2, <4>1
    <3> QED
      BY <3>1, <3>2
  <2> QED
    BY <1>4, <2>1, <2>2, <2>3 DEF Placed
<1>9. Numbered(kk, Append(list, m), aa, q, h)
  <2>1. \A d \in q : d.at = "running" => d.attempt = aa[d.of]
    BY <1>3, <1>5 DEF Sound, Numbered
  <2>2. ASSUME NEW x \in h
        PROVE  x[2] <= aa[x[1]] /\ kk[x[1]] # "unpublished" /\ (x[1] \in In(Append(list, m)) => x[2] < aa[x[1]])
    <3>1. CASE x[1] = m
      BY <1>2, <1>3, <1>6, <3>1
    <3>2. CASE x[1] # m
      <4>1. x[2] <= at[x[1]] /\ k[x[1]] # "unpublished" /\ (x[1] \in In(list) => x[2] < at[x[1]])
        BY DEF Sound, Numbered
      <4> QED
        BY <1>2, <1>3, <1>4, <1>6, <3>2, <4>1
    <3> QED
      BY <3>1, <3>2
  <2> QED
    BY <2>1, <2>2 DEF Numbered
<1> QED
  BY <1>7, <1>8, <1>9 DEF Sound, kk, aa

(* What is answered, or was and is now forgotten, does not count.          *)
LEMMA SameRunning ==
    ASSUME NEW k, NEW list, NEW at, NEW o, NEW h, Sound(k, list, at, o, h), NEW q \in SUBSET OutType,
           \A d \in q : d.at = "running" => d \in o,
           \A d \in o : d.at = "running" => d \in q
    PROVE  Sound(k, list, at, q, h)
<1>1. Typed(k, list, at, q, h)
  BY DEF Sound, Typed
<1>2. Placed(k, list, q)
  <2>1. ASSUME NEW m \in Message
        PROVE  (\E d \in q : d.of = m /\ d.at = "running") <=> (\E d \in o : d.of = m /\ d.at = "running")
    OBVIOUS
  <2> QED
    BY <2>1 DEF Sound, Placed
<1>3. Numbered(k, list, at, q, h)
  BY DEF Sound, Numbered
<1> QED
  BY <1>1, <1>2, <1>3 DEF Sound

(* Settling one that runs leaves the others running.                       *)
LEMMA SettledIs ==
    ASSUME IInv, NEW d \in out, d.at = "running"
    PROVE  /\ Settled(d) \in SUBSET OutType /\ d.of \in Message /\ d.attempt \in Nat /\ kept[d.of] = "kept"
           /\ attempt[d.of] = d.attempt /\ d.of \notin In(waiting)
           /\ \A e \in Settled(d) : e.at = "running" => e \in out /\ e.of # d.of
           /\ \A e \in out : e.at = "running" /\ e.of # d.of => e \in Settled(d)
<1>1. out \in SUBSET OutType
  BY DEF IInv, Sound, Typed
<1>2. d = [of |-> d.of, attempt |-> d.attempt, at |-> d.at] /\ d.of \in Message /\ d.attempt \in Nat
  BY <1>1 DEF OutType
<1>3. [d EXCEPT !.at = "settled"] = [of |-> d.of, attempt |-> d.attempt, at |-> "settled"]
  BY <1>2
<1>4. [d EXCEPT !.at = "settled"] \in OutType /\ [d EXCEPT !.at = "settled"].at = "settled"
  BY <1>2, <1>3 DEF OutType
<1>5. \A e \in out : e.at = "running" /\ e.of = d.of => e = d
  BY DEF IInv, Sound, Placed
<1>6. kept[d.of] = "kept" /\ d.of \notin In(waiting)
  BY <1>2 DEF IInv, Sound, Placed
<1>7. attempt[d.of] = d.attempt
  BY DEF IInv, Sound, Numbered
<1> QED
  BY <1>1, <1>2, <1>4, <1>5, <1>6, <1>7 DEF Settled

-----------------------------------------------------------------------------
(* Every step is one of five.                                              *)
Resting == UNCHANGED <<kept, waiting, attempt, out, handed>>

(* A pump, where a slot may just have been freed.                          *)
Pumps ==
    /\ UNCHANGED <<kept, attempt>>
    /\ \E busy \in SUBSET out :
        /\ \A d \in out : d.at = "running" => d \in busy
        /\ \E taken \in SUBSET In(waiting) : Moves(taken, waiting, attempt, busy, handed)

(* A put, and the pump that goes with it.                                  *)
Puts(m, n, busy) ==
    /\ kept' = [kept EXCEPT ![m] = "kept"] /\ attempt' = [attempt EXCEPT ![m] = n]
    /\ \E taken \in SUBSET In(Append(waiting, m)) :
          Moves(taken, Append(waiting, m), [attempt EXCEPT ![m] = n], busy, handed)

LEMMA PutPuts ==
    ASSUME NEW m, NEW n, NEW busy, Put(m, n, "kept", busy) PROVE Puts(m, n, busy)
<1>1. PICK now \in BOOLEAN : Pump(Append(waiting, m), attempt', due', busy)
  BY DEF Put
<1>2. \E taken \in SUBSET In(Append(waiting, m)) : Moves(taken, Append(waiting, m), attempt', busy, handed)
  BY <1>1, PumpMoves
<1> QED
  BY <1>2 DEF Put, Puts

LEMMA Steps ==
    ASSUME [Next]_vars
    PROVE  \/ Resting
           \/ Pumps
           \/ \E m \in Message : kept[m] = "unpublished" /\ Puts(m, 1, out)
           \/ \E d \in out : d.at = "running" /\ Puts(d.of, d.attempt + 1, Settled(d))
           \/ \E d \in out : d.at = "running" /\ \E kind \in {"gone", "dead"} : Ends(d, kind)
<1>1. ASSUME NEW d \in out, Answer(d)
      PROVE  /\ d.at = "running"
             /\ Puts(d.of, d.attempt + 1, Settled(d)) \/ \E kind \in {"gone", "dead"} : Ends(d, kind)
  <2>1. Redeliver(d) => Puts(d.of, d.attempt + 1, Settled(d))
    BY PutPuts DEF Redeliver
  <2> QED
    BY <1>1, <2>1 DEF Answer
<1>2. ASSUME NEW d \in out, Freed(d) PROVE Pumps
  <2>1. \E taken \in SUBSET In(waiting) : Moves(taken, waiting, attempt, out \ {d}, handed)
    BY <1>2, PumpMoves DEF Freed
  <2>2. /\ \A e \in out : e.at = "running" => e \in out \ {d}
        /\ UNCHANGED <<kept, attempt>>
    BY <1>2 DEF Freed
  <2>3. out \ {d} \in SUBSET out
    OBVIOUS
  <2> QED
    BY <2>1, <2>2, <2>3 DEF Pumps
<1>3. ASSUME Consume \/ TimerFires PROVE Pumps
  <2>1. Pump(waiting, attempt, due, out) /\ UNCHANGED <<kept, attempt>>
    BY <1>3 DEF Consume, TimerFires
  <2>2. \E taken \in SUBSET In(waiting) : Moves(taken, waiting, attempt, out, handed)
    BY <2>1, PumpMoves
  <2> QED
    BY <2>1, <2>2 DEF Pumps
<1>4. ASSUME NEW m \in Message, Publish(m) PROVE kept[m] = "unpublished" /\ Puts(m, 1, out)
  BY <1>4, PutPuts DEF Publish
<1>5. ASSUME NEW m \in Message, FallsDue(m) PROVE Resting
  BY <1>5 DEF FallsDue, Resting
<1>6. ASSUME Stop \/ Stopped \/ Quiet \/ UNCHANGED vars PROVE Resting
  BY <1>6 DEF Stop, Stopped, Quiet, vars, Resting
<1> QED
  BY <1>1, <1>2, <1>3, <1>4, <1>5, <1>6 DEF Next, Deliver

LEMMA InitIInv == Init => IInv
<1> SUFFICES ASSUME Init PROVE IInv
  OBVIOUS
<1>1. waiting = <<>> /\ out = {} /\ handed = {} /\ In(waiting) = {}
  BY DEF Init, In
<1>2. Typed(kept, waiting, attempt, out, handed)
  BY <1>1 DEF Init, Typed
<1>3. Placed(kept, waiting, out) /\ Numbered(kept, waiting, attempt, out, handed)
  BY <1>1 DEF Init, Placed, Numbered, EachOnce
<1> QED
  BY <1>2, <1>3 DEF IInv, Sound

(* Before its pump, a put is sound: what is put was never handed out so    *)
(* high.                                                                   *)
LEMMA PublishSound ==
    ASSUME IInv, NEW m \in Message, kept[m] = "unpublished"
    PROVE  Sound([kept EXCEPT ![m] = "kept"], Append(waiting, m), [attempt EXCEPT ![m] = 1], out, handed)
<1>1. m \notin In(waiting) /\ \A d \in out : d.at = "running" => d.of # m
  BY DEF IInv, Sound, Placed
<1>2. \A x \in handed : x[1] # m
  BY DEF IInv, Sound, Numbered
<1>3. out \in SUBSET OutType
  BY DEF IInv, Sound, Typed
<1> QED
  BY <1>1, <1>2, <1>3, PutSound DEF IInv

LEMMA RedeliverSound ==
    ASSUME IInv, NEW d \in out, d.at = "running"
    PROVE  Sound([kept EXCEPT ![d.of] = "kept"], Append(waiting, d.of), [attempt EXCEPT ![d.of] = d.attempt + 1],
                 Settled(d), handed)
<1>1. /\ Settled(d) \in SUBSET OutType /\ d.of \in Message /\ d.attempt \in Nat
      /\ attempt[d.of] = d.attempt /\ d.of \notin In(waiting)
      /\ \A e \in Settled(d) : e.at = "running" => e \in out /\ e.of # d.of
      /\ \A e \in out : e.at = "running" /\ e.of # d.of => e \in Settled(d)
  BY SettledIs
<1>2. \A x \in handed : x[1] = d.of => x[2] < d.attempt + 1
  <2> SUFFICES ASSUME NEW x \in handed, x[1] = d.of PROVE x[2] < d.attempt + 1
    OBVIOUS
  <2>1. x[2] <= attempt[x[1]] /\ x[2] \in Nat
    BY DEF IInv, Sound, Numbered, Typed
  <2> QED
    BY <1>1, <2>1
<1>3. d.attempt + 1 \in Nat
  BY <1>1
<1> QED
  BY <1>1, <1>2, <1>3, PutSound DEF IInv

LEMMA EndsSound ==
    ASSUME IInv, NEW d \in out, d.at = "running", NEW kind \in {"gone", "dead"}, Ends(d, kind)
    PROVE  IInv'
<1>1. /\ Settled(d) \in SUBSET OutType /\ d.of \in Message /\ d.of \notin In(waiting)
      /\ \A e \in Settled(d) : e.at = "running" => e \in out /\ e.of # d.of
      /\ \A e \in out : e.at = "running" /\ e.of # d.of => e \in Settled(d)
  BY SettledIs
<1>2. /\ kept' = [kept EXCEPT ![d.of] = kind] /\ out' = Settled(d) /\ UNCHANGED <<waiting, attempt, handed>>
      /\ In(waiting)' = In(waiting)
  BY DEF Ends, In
<1>3. /\ kept' \in [Message -> {"unpublished", "kept", "gone", "dead"}] /\ kept'[d.of] = kind
      /\ \A p \in Message \ {d.of} : kept'[p] = kept[p]
  BY <1>1, <1>2 DEF IInv, Sound, Typed
<1>4. Typed(kept, waiting, attempt, out, handed)'
  BY <1>1, <1>2, <1>3 DEF IInv, Sound, Typed
<1>5. Placed(kept, waiting, out)'
  <2>1. EachOnce(waiting)'
    BY <1>2 DEF IInv, Sound, Placed, EachOnce
  <2>2. \A e, f \in out' : e.at = "running" /\ f.at = "running" /\ e.of = f.of => e = f
    BY <1>1, <1>2 DEF IInv, Sound, Placed
  <2>3. \A e \in out' : e.at = "running" => e.of \notin In(waiting)
    BY <1>1, <1>2 DEF IInv, Sound, Placed
  <2>4. ASSUME NEW p \in Message
        PROVE  kept'[p] = "kept" <=> p \in In(waiting) \/ \E e \in out' : e.of = p /\ e.at = "running"
    <3>1. CASE p = d.of
      BY <1>1, <1>2, <1>3, <3>1
    <3>2. CASE p # d.of
      <4>1. kept[p] = "kept" <=> p \in In(waiting) \/ \E e \in out : e.of = p /\ e.at = "running"
        BY DEF IInv, Sound, Placed
      <4> QED
        BY <1>1, <1>2, <1>3, <3>2, <4>1
    <3> QED
      BY <3>1, <3>2
  <2> QED
    BY <1>2, <2>1, <2>2, <2>3, <2>4 DEF Placed
<1>6. Numbered(kept, waiting, attempt, out, handed)'
  <2>1. \A e \in out' : e.at = "running" => e.attempt = attempt[e.of]
    BY <1>1, <1>2 DEF IInv, Sound, Numbered
  <2>2. \A p \in Message : kept'[p] = "unpublished" => kept[p] = "unpublished"
    BY <1>1, <1>3
  <2>3. \A x \in handed : x[1] \in Message
    BY DEF IInv, Sound, Typed
  <2> QED
    BY <1>2, <2>1, <2>2, <2>3 DEF IInv, Sound, Numbered
<1> QED
  BY <1>4, <1>5, <1>6 DEF IInv, Sound

LEMMA PrimedIInv == Sound(kept', waiting', attempt', out', handed') <=> IInv'
  BY DEF IInv, Sound, Typed, Placed, Numbered, EachOnce, In

LEMMA PutsSound ==
    ASSUME NEW m, NEW n, NEW busy, Puts(m, n, busy),
           Sound([kept EXCEPT ![m] = "kept"], Append(waiting, m), [attempt EXCEPT ![m] = n], busy, handed)
    PROVE  IInv'
<1>1. PICK taken \in SUBSET In(Append(waiting, m)) :
         Moves(taken, Append(waiting, m), [attempt EXCEPT ![m] = n], busy, handed)
  BY DEF Puts
<1>2. Sound([kept EXCEPT ![m] = "kept"], waiting', [attempt EXCEPT ![m] = n], out', handed')
  BY <1>1, MovesSound
<1> QED
  BY <1>2, PrimedIInv DEF Puts

LEMMA NextIInv == IInv /\ [Next]_vars => IInv'
<1> SUFFICES ASSUME IInv, [Next]_vars PROVE IInv'
  OBVIOUS
<1>1. CASE Resting
  <2>1. Sound(kept', waiting', attempt', out', handed')
    BY <1>1 DEF Resting, IInv
  <2> QED
    BY <2>1, PrimedIInv
<1>2. CASE Pumps
  <2>1. PICK busy \in SUBSET out, taken \in SUBSET In(waiting) :
           /\ \A d \in out : d.at = "running" => d \in busy
           /\ Moves(taken, waiting, attempt, busy, handed)
    BY <1>2 DEF Pumps
  <2>2. busy \in SUBSET OutType
    BY DEF IInv, Sound, Typed
  <2>3. Sound(kept, waiting, attempt, busy, handed)
    BY <2>1, <2>2, SameRunning DEF IInv
  <2>4. Sound(kept, waiting', attempt, out', handed')
    BY <2>1, <2>3, MovesSound
  <2>5. kept' = kept /\ attempt' = attempt
    BY <1>2 DEF Pumps
  <2> QED
    BY <2>4, <2>5, PrimedIInv
<1>3. ASSUME NEW m \in Message, kept[m] = "unpublished", Puts(m, 1, out) PROVE IInv'
  BY <1>3, PublishSound, PutsSound
<1>4. ASSUME NEW d \in out, d.at = "running", Puts(d.of, d.attempt + 1, Settled(d)) PROVE IInv'
  BY <1>4, RedeliverSound, PutsSound
<1>5. ASSUME NEW d \in out, d.at = "running", NEW kind \in {"gone", "dead"}, Ends(d, kind) PROVE IInv'
  BY <1>5, EndsSound
<1> QED
  BY <1>1, <1>2, <1>3, <1>4, <1>5, Steps

(* A message kept waits once, or is in flight once and nowhere else        *)
(* (queue.ts:2-4): neither lost nor there twice.                           *)
THEOREM KeptInOnePlace == Spec => []InOnePlace
<1>1. IInv => InOnePlace
  <2> SUFFICES ASSUME IInv, NEW m \in Message
               PROVE  Cardinality({i \in DOMAIN waiting : waiting[i] = m}) + Cardinality(RunningOf(m, out))
                      = IF kept[m] = "kept" THEN 1 ELSE 0
    BY DEF InOnePlace, RunningOf
  <2> DEFINE places == {i \in DOMAIN waiting : waiting[i] = m}
  <2>1. Cardinality({}) = 0 /\ \A x : Cardinality({x}) = 1
    BY FS_EmptySet, FS_Singleton
  <2>2. IF m \in In(waiting) THEN \E i : places = {i} ELSE places = {}
    BY DEF IInv, Sound, Placed, EachOnce, In
  <2>3. IF \E d \in out : d.of = m /\ d.at = "running"
        THEN \E d : RunningOf(m, out) = {d} ELSE RunningOf(m, out) = {}
    <3>1. CASE \E d \in out : d.of = m /\ d.at = "running"
      <4>1. PICK d \in out : d.of = m /\ d.at = "running"
        BY <3>1
      <4>2. RunningOf(m, out) = {d}
        BY <4>1 DEF IInv, Sound, Placed, RunningOf
      <4> QED
        BY <3>1, <4>2
    <3>2. CASE ~\E d \in out : d.of = m /\ d.at = "running"
      BY <3>2 DEF RunningOf
    <3> QED
      BY <3>1, <3>2
  <2>4. kept[m] = "kept" <=> m \in In(waiting) \/ \E d \in out : d.of = m /\ d.at = "running"
    BY DEF IInv, Sound, Placed
  <2>5. ~(m \in In(waiting) /\ \E d \in out : d.of = m /\ d.at = "running")
    BY DEF IInv, Sound, Placed
  <2> HIDE DEF places
  <2>6. Cardinality(places) = IF m \in In(waiting) THEN 1 ELSE 0
    BY <2>1, <2>2
  <2>7. Cardinality(RunningOf(m, out)) = IF \E d \in out : d.of = m /\ d.at = "running" THEN 1 ELSE 0
    BY <2>1, <2>3
  <2>8. Cardinality(places) + Cardinality(RunningOf(m, out)) = IF kept[m] = "kept" THEN 1 ELSE 0
    BY <2>4, <2>5, <2>6, <2>7
  <2> QED
    BY <2>8 DEF places
<1> QED
  BY <1>1, InitIInv, NextIInv, PTL DEF Spec

-----------------------------------------------------------------------------
(* The refinement.                                                         *)
DeliveriesOf(o) == {<<d.of, d.attempt>> : d \in {e \in o : e.at = "running"}}

(* What a step hands out is new, of messages that were published.          *)
LEMMA MovesHandOut ==
    ASSUME NEW k, NEW list, NEW at, NEW o, NEW h, NEW taken \in SUBSET In(list),
           Sound(k, list, at, o, h), Moves(taken, list, at, o, h)
    PROVE  LET new == handed' \ h IN
           /\ h \subseteq handed' /\ new \subseteq Message \X Nat
           /\ \A x \in new : k[x[1]] # "unpublished"
           /\ Deliveries' = DeliveriesOf(o) \cup new
<1> DEFINE fresh == {<<m, at[m]>> : m \in taken}
           made  == {[of |-> m, attempt |-> at[m], at |-> "running"] : m \in taken}
<1>1. \A m \in taken : m \in Message /\ at[m] \in Nat /\ k[m] = "kept" /\ <<m, at[m]>> \notin h
  BY MovesSound
<1>2. handed' = h \cup fresh /\ out' = o \cup made
  BY DEF Moves
<1>3. handed' \ h = fresh
  BY <1>1, <1>2
<1>4. \A x \in fresh : x \in Message \X Nat /\ k[x[1]] # "unpublished"
  BY <1>1
<1>5. Deliveries' = DeliveriesOf(o) \cup fresh
  <2>1. \A x : x \in Deliveries' <=> \E d \in out' : d.at = "running" /\ x = <<d.of, d.attempt>>
    BY DEF Deliveries
  <2>2. \A x : x \in DeliveriesOf(o) <=> \E d \in o : d.at = "running" /\ x = <<d.of, d.attempt>>
    BY DEF DeliveriesOf
  <2>3. \A x : x \in fresh <=> \E d \in made : d.at = "running" /\ x = <<d.of, d.attempt>>
    <3> SUFFICES ASSUME NEW x
                 PROVE  x \in fresh <=> \E d \in made : d.at = "running" /\ x = <<d.of, d.attempt>>
      OBVIOUS
    <3>1. ASSUME x \in fresh PROVE \E d \in made : d.at = "running" /\ x = <<d.of, d.attempt>>
      <4>1. PICK m \in taken : x = <<m, at[m]>>
        BY <3>1
      <4>2. [of |-> m, attempt |-> at[m], at |-> "running"] \in made
        OBVIOUS
      <4> QED
        BY <4>1, <4>2
    <3>2. ASSUME NEW d \in made, x = <<d.of, d.attempt>> PROVE x \in fresh
      <4>1. PICK m \in taken : d = [of |-> m, attempt |-> at[m], at |-> "running"]
        OBVIOUS
      <4> QED
        BY <3>2, <4>1
    <3> QED
      BY <3>1, <3>2
  <2> HIDE DEF fresh, made
  <2> QED
    BY <1>2, <2>1, <2>2, <2>3
<1> QED
  BY <1>2, <1>3, <1>4, <1>5

(* Answered, a delivery is no longer in flight, and the others are.        *)
LEMMA SettledDeliveries ==
    ASSUME IInv, NEW d \in out, d.at = "running"
    PROVE  /\ <<d.of, d.attempt>> \in Deliveries
           /\ DeliveriesOf(Settled(d)) = Deliveries \ {<<d.of, d.attempt>>}
<1> DEFINE x == <<d.of, d.attempt>>
<1>1. \A y : y \in Deliveries <=> \E e \in out : e.at = "running" /\ y = <<e.of, e.attempt>>
  BY DEF Deliveries
<1>2. \A y : y \in DeliveriesOf(Settled(d)) <=> \E e \in Settled(d) : e.at = "running" /\ y = <<e.of, e.attempt>>
  BY DEF DeliveriesOf
<1>3. /\ \A e \in Settled(d) : e.at = "running" => e \in out /\ e.of # d.of
      /\ \A e \in out : e.at = "running" /\ e.of # d.of => e \in Settled(d)
  BY SettledIs
<1>4. \A e \in out : e.at = "running" /\ e.of = d.of => e = d
  BY DEF IInv, Sound, Placed
<1>5. ASSUME NEW y PROVE y \in DeliveriesOf(Settled(d)) <=> y \in Deliveries /\ y # x
  <2>1. ASSUME NEW e \in Settled(d), e.at = "running", y = <<e.of, e.attempt>> PROVE y \in Deliveries /\ y # x
    BY <1>1, <1>3, <2>1
  <2>2. ASSUME NEW e \in out, e.at = "running", y = <<e.of, e.attempt>>, y # x PROVE y \in DeliveriesOf(Settled(d))
    BY <1>2, <1>3, <1>4, <2>2
  <2> QED
    BY <1>1, <1>2, <2>1, <2>2
<1> QED
  BY <1>1, <1>5

LEMMA InitRefines == Init => Abstract!Init
  BY DEF Init, Abstract!Init, Deliveries

(* Each step is one of Delivery's, or none.                                *)
LEMMA StepRefines == ASSUME IInv, [Next]_vars PROVE [Abstract!Next]_(Abstract!vars)
<1>1. CASE Resting
  BY <1>1 DEF Resting, Abstract!vars, Deliveries
<1>2. CASE Pumps
  <2>1. PICK busy \in SUBSET out, taken \in SUBSET In(waiting) :
           /\ \A d \in out : d.at = "running" => d \in busy
           /\ Moves(taken, waiting, attempt, busy, handed)
    BY <1>2 DEF Pumps
  <2>2. busy \in SUBSET OutType
    BY DEF IInv, Sound, Typed
  <2>3. Sound(kept, waiting, attempt, busy, handed)
    BY <2>1, <2>2, SameRunning DEF IInv
  <2>4. DeliveriesOf(busy) = Deliveries
    BY <2>1 DEF Deliveries, DeliveriesOf
  <2>5. kept' = kept
    BY <1>2 DEF Pumps
  <2>6. Abstract!HandsOut(Deliveries)
    BY <2>1, <2>3, <2>4, <2>5, MovesHandOut DEF Abstract!HandsOut
  <2> QED
    BY <2>5, <2>6 DEF Abstract!HandOut, Abstract!Next
<1>3. ASSUME NEW m \in Message, kept[m] = "unpublished", Puts(m, 1, out) PROVE Abstract!Next
  <2>1. PICK taken \in SUBSET In(Append(waiting, m)) :
           Moves(taken, Append(waiting, m), [attempt EXCEPT ![m] = 1], out, handed)
    BY <1>3 DEF Puts
  <2>2. kept' = [kept EXCEPT ![m] = "kept"]
    BY <1>3 DEF Puts
  <2>3. DeliveriesOf(out) = Deliveries
    BY DEF Deliveries, DeliveriesOf
  <2>4. Sound(kept', Append(waiting, m), [attempt EXCEPT ![m] = 1], out, handed)
    BY <1>3, <2>2, PublishSound
  <2>5. Abstract!HandsOut(Deliveries)
    BY <2>1, <2>3, <2>4, MovesHandOut DEF Abstract!HandsOut
  <2> QED
    BY <1>3, <2>2, <2>5 DEF Abstract!Publish, Abstract!Next
<1>4. ASSUME NEW d \in out, d.at = "running", Puts(d.of, d.attempt + 1, Settled(d)) PROVE Abstract!Next
  <2> DEFINE x == <<d.of, d.attempt>>
             at == [attempt EXCEPT ![d.of] = d.attempt + 1]
  <2>1. PICK taken \in SUBSET In(Append(waiting, d.of)) :
           Moves(taken, Append(waiting, d.of), at, Settled(d), handed)
    BY <1>4 DEF Puts
  <2>2. kept' = [kept EXCEPT ![d.of] = "kept"]
    BY <1>4 DEF Puts
  <2>3. kept' = kept
    BY <1>4, <2>2, SettledIs DEF IInv, Sound, Typed
  <2>4. Sound(kept', Append(waiting, d.of), at, Settled(d), handed)
    BY <1>4, <2>2, RedeliverSound
  <2>5. x \in Deliveries /\ DeliveriesOf(Settled(d)) = Deliveries \ {x}
    BY <1>4, SettledDeliveries
  <2> HIDE DEF at
  <2>6. Abstract!HandsOut(Deliveries \ {x})
    BY <2>1, <2>4, <2>5, MovesHandOut DEF Abstract!HandsOut
  <2>7. Abstract!Answer(x)
    BY <2>3, <2>5, <2>6 DEF Abstract!Answer
  <2> QED
    BY <2>5, <2>7 DEF Abstract!Next
<1>5. ASSUME NEW d \in out, d.at = "running", NEW kind \in {"gone", "dead"}, Ends(d, kind) PROVE Abstract!Next
  <2> DEFINE x == <<d.of, d.attempt>>
  <2>1. /\ kept' = [kept EXCEPT ![d.of] = kind] /\ out' = Settled(d) /\ handed' = handed
    BY <1>5 DEF Ends
  <2>2. x \in Deliveries /\ Deliveries' = Deliveries \ {x}
    BY <1>5, <2>1, SettledDeliveries DEF Deliveries, DeliveriesOf
  <2>3. Abstract!HandsOut(Deliveries \ {x})
    BY <2>1, <2>2 DEF Abstract!HandsOut
  <2>4. kept[d.of] = "kept" /\ attempt[d.of] = d.attempt
    BY <1>5, SettledIs
  <2>5. Abstract!Latest(x)
    BY <2>4 DEF Abstract!Latest, IInv, Sound, Numbered
  <2>6. Abstract!Answer(x)
    BY <2>1, <2>2, <2>3, <2>4, <2>5 DEF Abstract!Answer
  <2> QED
    BY <2>2, <2>6 DEF Abstract!Next
<1> QED
  BY <1>1, <1>2, <1>3, <1>4, <1>5, Steps

(* The memory broker keeps what @queue's Broker promises (brokers.ts): at  *)
(* least once, each delivery an attempt of its own, and no answer counts   *)
(* but that of the latest one handed out; and the message is in one place. *)
THEOREM MemoryIsABroker == Spec => MemoryKeepsThePromise
<1>1. Init => IInv /\ Abstract!Init
  BY InitIInv, InitRefines
<1>2. IInv /\ [Next]_vars => [Abstract!Next]_(Abstract!vars)
  BY StepRefines
<1>3. Spec => ImplementsDelivery
  BY <1>1, <1>2, NextIInv, PTL DEF Spec, ImplementsDelivery, Abstract!Spec
<1> QED
  BY <1>3, KeptInOnePlace, PTL DEF MemoryKeepsThePromise
=============================================================================
