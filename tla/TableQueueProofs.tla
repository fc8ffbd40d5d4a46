---------------------------- MODULE TableQueueProofs ---------------------------
(***************************************************************************)
(* What holds of a queue kept in a table, however many messages it keeps   *)
(* and consumers work it, whatever fails: proofs about TableQueue, and that*)
(* it implements Delivery.                                                 *)
(***************************************************************************)
EXTENDS TableQueue, FiniteSetTheorems, TLAPS

LookType == [at : {"idle", "asked", "answered"}, room : 0 .. Concurrency, taken : SUBSET Take, more : BOOLEAN]
OutType  == [of : Message, attempt : Nat, at : {"running"} \cup Outcomes]

(* What a look asks for, what it took and what is in flight go into the    *)
(* slots there are; a look that is over has nothing, unless it ended with  *)
(* messages that a stop was giving back; a consumer that is off has neither*)
(* a look nor a delivery.                                                  *)
Fits(l, o, ph) ==
    /\ IsFiniteSet(o) /\ IsFiniteSet(l.taken)
    /\ Cardinality(l.taken) <= l.room
    /\ Cardinality(o) + l.room <= Concurrency
    /\ l.at = "asked" => l.taken = {}
    /\ l.at = "idle" /\ ph \notin {"stopping", "off"} => l = Idle
    /\ ph = "off" => l.at = "idle" /\ o = {}

Fitting == \A c \in Consumer : Fits(look[c], out[c], phase[c])

Counted == \A c \in Consumer : \A t \in TakenBy(c) : t.attempt >= 1

IInv == TypeOK /\ Fitting /\ Counted /\ NoSharedAttempt

-----------------------------------------------------------------------------
(* The types again, with the names used here.                              *)
LEMMA Types ==
    TypeOK <=>
        /\ kept \in [Message -> {"unpublished", "kept", "gone", "dead"}]
        /\ attempts \in [Message -> Nat]
        /\ due \in [Message -> BOOLEAN]
        /\ lock \in [Message -> {"free", "held", "lapsed"}]
        /\ phase \in [Consumer -> {"starting", "on", "stopping", "off", "failed"}]
        /\ look \in [Consumer -> LookType]
        /\ again \in [Consumer -> BOOLEAN] /\ timer \in [Consumer -> BOOLEAN]
        /\ session \in [Consumer -> {"quiet", "told", "down"}]
        /\ out \in [Consumer -> SUBSET OutType]
        /\ handed \in SUBSET (Message \X Nat)
        /\ faults \in 0 .. MaxFaults
BY DEF TypeOK, LookType, OutType

(* What a consumer has, and is to hand out, are takes. *)
LEMMA Takes ==
    ASSUME TypeOK, NEW c \in Consumer
    PROVE  /\ look[c].taken \in SUBSET Take /\ Running(c) \in SUBSET Take /\ TakenBy(c) \in SUBSET Take
           /\ \A d \in out[c] : d \in OutType /\ Delivered(d) \in Take /\ Delivered(d) \in Running(c)
                                /\ Delivered(d).of = d.of /\ Delivered(d).attempt = d.attempt
<1>1. look[c] \in LookType /\ out[c] \in SUBSET OutType
  BY Types
<1> QED
  BY <1>1 DEF LookType, OutType, Take, Running, TakenBy, Delivered

LEMMA InitIInv == Init => IInv
<1> SUFFICES ASSUME Init PROVE IInv
  OBVIOUS
<1>1. Asked(Concurrency) \in LookType /\ 0 \in 0 .. MaxFaults
  BY SizesAssumption DEF Asked, LookType, Take
<1>2. TypeOK
  BY <1>1, Types DEF Init
<1>3. Fitting
  <2>1. Cardinality({}) = 0 /\ IsFiniteSet({})
    BY FS_EmptySet
  <2>2. ASSUME NEW c \in Consumer PROVE Fits(Asked(Concurrency), {}, "starting")
    BY <2>1, SizesAssumption DEF Fits, Asked
  <2> QED
    BY <2>2 DEF Fitting, Init
<1>4. \A c \in Consumer : look[c].taken = {} /\ Running(c) = {} /\ TakenBy(c) = {} /\ out[c] = {}
  BY DEF Init, Asked, Running, TakenBy
<1>5. Counted /\ NoSharedAttempt
  BY <1>4 DEF Counted, NoSharedAttempt
<1> QED
  BY <1>2, <1>3, <1>5 DEF IInv

-----------------------------------------------------------------------------
(* Looks begin, and end.                                                   *)

LEMMA BusyType ==
    ASSUME IInv, NEW c \in Consumer
    PROVE  /\ Concurrency \in Nat /\ Busy(c) \in Nat /\ Busy(c) <= Concurrency
           /\ look[c].room \in Nat /\ Busy(c) + look[c].room <= Concurrency
           /\ Cardinality(look[c].taken) \in Nat /\ Cardinality(look[c].taken) <= look[c].room
           /\ IsFiniteSet(out[c]) /\ IsFiniteSet(look[c].taken)
<1>1. look[c].room \in Nat
  <2>1. look[c] \in LookType
    BY Types DEF IInv
  <2> QED
    BY <2>1, SizesAssumption DEF LookType, IInv
<1>2. Fits(look[c], out[c], phase[c]) /\ Concurrency \in Nat
  BY SizesAssumption DEF IInv, Fitting
<1>3. Cardinality(out[c]) \in Nat /\ Cardinality(look[c].taken) \in Nat
  BY <1>2, FS_CardinalityType DEF Fits
<1> QED
  BY <1>1, <1>2, <1>3 DEF Fits, Busy

LEMMA BeginLook ==
    ASSUME IInv, NEW c \in Consumer, NEW busy \in Nat, busy <= Concurrency, Begin(c, busy)
    PROVE  /\ look' \in [Consumer -> LookType] /\ timer' \in [Consumer -> BOOLEAN]
           /\ again' \in [Consumer -> BOOLEAN]
           /\ look'[c] = Idle \/ look'[c] = Asked(Concurrency - busy)
           /\ \A q \in Consumer \ {c} : look'[q] = look[q]
<1>1. look \in [Consumer -> LookType] /\ timer \in [Consumer -> BOOLEAN] /\ Concurrency \in Nat
      /\ again \in [Consumer -> BOOLEAN]
  BY Types, SizesAssumption DEF IInv
<1>2. Idle \in LookType /\ Asked(Concurrency - busy) \in LookType
  BY <1>1 DEF Idle, Asked, LookType
<1> QED
  BY <1>1, <1>2 DEF Begin, Room

LEMMA WakeLook ==
    ASSUME IInv, NEW c \in Consumer, NEW busy \in Nat, busy <= Concurrency, Wake(c, busy)
    PROVE  /\ look' \in [Consumer -> LookType] /\ timer' \in [Consumer -> BOOLEAN]
           /\ again' \in [Consumer -> BOOLEAN]
           /\ \/ look'[c] = look[c]
              \/ /\ Consuming(c) /\ look[c] = Idle
                 /\ look'[c] = Idle \/ look'[c] = Asked(Concurrency - busy)
           /\ \A q \in Consumer \ {c} : look'[q] = look[q]
<1>1. look \in [Consumer -> LookType] /\ timer \in [Consumer -> BOOLEAN] /\ again \in [Consumer -> BOOLEAN]
  BY Types DEF IInv
<1>2. Consuming(c) /\ look[c].at = "idle" => look[c] = Idle
  BY DEF IInv, Fitting, Fits, Consuming
<1> QED
  BY <1>1, <1>2, BeginLook DEF Wake

LEMMA FitsIdle ==
    ASSUME NEW o, NEW ph, Concurrency \in Nat, IsFiniteSet(o), Cardinality(o) <= Concurrency, ph = "off" => o = {}
    PROVE  Fits(Idle, o, ph)
<1>1. IsFiniteSet({}) /\ Cardinality({}) = 0 /\ Cardinality(o) \in Nat
  BY FS_EmptySet, FS_CardinalityType
<1> QED
  BY <1>1 DEF Fits, Idle

LEMMA FitsAsked ==
    ASSUME NEW o, NEW ph, NEW busy \in Nat, Concurrency \in Nat, IsFiniteSet(o), Cardinality(o) <= busy,
           busy <= Concurrency, ph # "off"
    PROVE  Fits(Asked(Concurrency - busy), o, ph)
<1>1. IsFiniteSet({}) /\ Cardinality({}) = 0 /\ Cardinality(o) \in Nat
  BY FS_EmptySet, FS_CardinalityType
<1> QED
  BY <1>1 DEF Fits, Asked

-----------------------------------------------------------------------------
(* Steps that take nothing new, and hand nothing out twice. *)
LEMMA NothingNew ==
    ASSUME IInv, TypeOK', Fitting', attempts' = attempts,
           \A c \in Consumer :
              /\ TakenBy(c)' \subseteq TakenBy(c)
              /\ look'[c].taken \cap Running(c)' = {}
              /\ \A d, e \in out'[c] : Delivered(d) = Delivered(e) => d = e
    PROVE  IInv'
<1>1. Counted' /\ NoSharedAttempt'
  BY DEF IInv, Counted, NoSharedAttempt
<1> QED
  BY <1>1, SizesAssumption DEF IInv

LEMMA NothingTaken ==
    ASSUME IInv, TypeOK', Fitting', UNCHANGED <<attempts, out>>,
           \A c \in Consumer : look'[c].taken \subseteq look[c].taken
    PROVE  IInv'
<1>1. \A c \in Consumer : /\ Running(c)' = Running(c) /\ TakenBy(c)' \subseteq TakenBy(c)
                          /\ look'[c].taken \cap Running(c)' = {}
                          /\ \A d, e \in out'[c] : Delivered(d) = Delivered(e) => d = e
  BY DEF Running, TakenBy, IInv, NoSharedAttempt
<1> QED
  BY <1>1, NothingNew

(* Steps of the rows, the sessions and the timers. *)
LEMMA Aside ==
    ASSUME IInv, TypeOK', UNCHANGED <<attempts, look, out>>,
           \A c \in Consumer : phase'[c] = phase[c] \/ phase'[c] = "stopping" \/ (phase'[c] = "off" /\ Drained(c))
    PROVE  IInv'
<1>1. Fitting'
  BY DEF IInv, Fitting, Fits, Drained
<1> QED
  BY <1>1, NothingTaken

(* A consumer that was not looking is woken, or one that is makes a note of it. *)
LEMMA Woken ==
    ASSUME IInv, NEW c \in Consumer, NEW busy \in Nat, busy <= Busy(c), Wake(c, busy), phase' = phase,
           IsFiniteSet(out'[c]), Cardinality(out'[c]) <= busy, out'[c] \subseteq out[c],
           \A q \in Consumer \ {c} : out'[q] = out[q]
    PROVE  Fitting' /\ \A q \in Consumer : look'[q].taken = look[q].taken
<1>1. /\ Concurrency \in Nat /\ Busy(c) \in Nat /\ Busy(c) <= Concurrency
      /\ look[c].room \in Nat /\ Busy(c) + look[c].room <= Concurrency
      /\ busy <= Concurrency
  BY BusyType
<1>2. Cardinality(out'[c]) \in Nat
  BY FS_CardinalityType
<1>3. /\ \/ look'[c] = look[c]
         \/ Consuming(c) /\ look[c] = Idle /\ look'[c] = Idle
         \/ Consuming(c) /\ look[c] = Idle /\ look'[c] = Asked(Concurrency - busy)
      /\ \A q \in Consumer \ {c} : look'[q] = look[q]
  BY <1>1, WakeLook
<1>4. Fits(look'[c], out'[c], phase[c])
  <2>1. CASE look'[c] = look[c]
    <3>1. Fits(look[c], out[c], phase[c])
      BY DEF IInv, Fitting
    <3> QED
      BY <1>1, <1>2, <2>1, <3>1 DEF Fits
  <2>2. Consuming(c) => phase[c] # "off"
    BY DEF Consuming
  <2>3. CASE Consuming(c) /\ look'[c] = Idle
    BY <1>1, <1>2, <2>2, <2>3, FitsIdle
  <2>4. CASE Consuming(c) /\ look'[c] = Asked(Concurrency - busy)
    BY <1>1, <2>2, <2>4, FitsAsked
  <2> QED
    BY <1>3, <2>1, <2>3, <2>4
<1>5. Fitting'
  BY <1>3, <1>4 DEF IInv, Fitting
<1> QED
  BY <1>3, <1>5 DEF Idle, Asked

LEMMA ToldIInv == ASSUME IInv, NEW c \in Consumer, Told(c) PROVE IInv'
<1>1. Busy(c) \in Nat /\ Busy(c) <= Concurrency /\ IsFiniteSet(out[c]) /\ Busy(c) <= Busy(c)
  BY BusyType
<1>2. Wake(c, Busy(c)) /\ UNCHANGED <<rows, phase, out, handed, faults>>
  BY DEF Told
<1>3. TypeOK'
  BY <1>1, WakeLook, Types DEF IInv, TypeOK, Told, rows, LookType
<1>4. Fitting' /\ \A q \in Consumer : look'[q].taken = look[q].taken
  BY <1>1, <1>2, Woken DEF Busy
<1> QED
  BY <1>2, <1>3, <1>4, NothingTaken DEF rows

LEMMA TimerFiresIInv == ASSUME IInv, NEW c \in Consumer, TimerFires(c) PROVE IInv'
<1>1. Busy(c) \in Nat /\ Busy(c) <= Concurrency /\ IsFiniteSet(out[c]) /\ Busy(c) <= Busy(c)
  BY BusyType
<1>2. UNCHANGED <<rows, phase, session, out, handed, faults>>
  BY DEF TimerFires
<1>3. CASE Wake(c, Busy(c))
  <2>1. TypeOK'
    BY <1>1, <1>2, <1>3, WakeLook, Types DEF IInv, TypeOK, rows, LookType
  <2>2. Fitting' /\ \A q \in Consumer : look'[q].taken = look[q].taken
    BY <1>1, <1>2, <1>3, Woken DEF Busy
  <2> QED
    BY <1>2, <2>1, <2>2, NothingTaken DEF rows
<1>4. CASE timer' = [timer EXCEPT ![c] = FALSE] /\ UNCHANGED <<look, again>>
  <2>1. TypeOK'
    BY <1>2, <1>4 DEF IInv, TypeOK, rows
  <2> QED
    BY <1>2, <1>4, <2>1, Aside DEF rows
<1> QED
  BY <1>3, <1>4 DEF TimerFires

-----------------------------------------------------------------------------
LEMMA StutterIInv == ASSUME IInv, UNCHANGED vars PROVE IInv'
<1>1. TypeOK' /\ UNCHANGED <<attempts, look, out, phase>>
  BY DEF IInv, vars, rows, TypeOK
<1> QED
  BY <1>1, Aside

LEMMA RowIInv ==
    ASSUME IInv, NEW m \in Message, Publish(m) \/ FallsDue(m) \/ Lapse(m)
    PROVE  IInv'
<1>1. TypeOK
  BY DEF IInv
<1>2. CASE Publish(m)
  <2>1. TypeOK'
    BY <1>1, <1>2 DEF TypeOK, Publish, Notify
  <2> QED
    BY <1>2, <2>1, Aside DEF Publish
<1>3. CASE FallsDue(m)
  <2>1. TypeOK'
    BY <1>1, <1>3 DEF TypeOK, FallsDue
  <2> QED
    BY <1>3, <2>1, Aside DEF FallsDue
<1>4. CASE Lapse(m)
  <2>1. TypeOK'
    BY <1>1, <1>4, SizesAssumption DEF TypeOK, Lapse, Fault
  <2> QED
    BY <1>4, <2>1, Aside DEF Lapse
<1> QED
  BY <1>2, <1>3, <1>4

LEMMA AsideIInv ==
    ASSUME IInv, NEW c \in Consumer,
           SessionLost(c) \/ Reopen(c) \/ Stop(c) \/ Stopped(c) \/ \E d \in out[c] : Extend(c, d)
    PROVE  IInv'
<1>1. TypeOK
  BY DEF IInv
<1>2. CASE SessionLost(c)
  <2>1. TypeOK'
    BY <1>1, <1>2, SizesAssumption DEF TypeOK, SessionLost, Fault, rows
  <2> QED
    BY <1>2, <2>1, Aside DEF SessionLost, rows
<1>3. CASE Reopen(c)
  <2>1. TypeOK'
    BY <1>1, <1>3 DEF TypeOK, Reopen, rows
  <2> QED
    BY <1>3, <2>1, Aside DEF Reopen, rows
<1>4. CASE Stop(c)
  <2>1. TypeOK'
    BY <1>1, <1>4 DEF TypeOK, Stop, rows
  <2>2. \A q \in Consumer : phase'[q] = phase[q] \/ phase'[q] = "stopping"
    BY <1>1, <1>4 DEF TypeOK, Stop
  <2> QED
    BY <1>4, <2>1, <2>2, Aside DEF Stop, rows
<1>5. CASE Stopped(c)
  <2>1. TypeOK'
    BY <1>1, <1>5 DEF TypeOK, Stopped, rows
  <2>2. \A q \in Consumer : phase'[q] = phase[q] \/ (phase'[q] = "off" /\ Drained(q))
    BY <1>1, <1>5 DEF TypeOK, Stopped
  <2> QED
    BY <1>5, <2>1, <2>2, Aside DEF Stopped, rows
<1>6. CASE \E d \in out[c] : Extend(c, d)
  <2>1. TypeOK'
    BY <1>1, <1>6, Takes DEF TypeOK, Extend
  <2> QED
    BY <1>6, <2>1, Aside DEF Extend
<1> QED
  BY <1>2, <1>3, <1>4, <1>5, <1>6

-----------------------------------------------------------------------------
(* An image of a finite set is finite, and no larger. *)
LEMMA Image ==
    ASSUME NEW S, IsFiniteSet(S), NEW T, NEW f \in [S -> T], \A t \in T : \E x \in S : f[x] = t
    PROVE  IsFiniteSet(T) /\ Cardinality(T) <= Cardinality(S)
<1>1. f \in Surjection(S, T)
  BY DEF Surjection
<1> QED
  BY <1>1, FS_Surjection

(* The messages of a look's reply. *)
LEMMA TakeDueFacts ==
    ASSUME IInv, NEW c \in Consumer, TakeDue(c)
    PROVE  \E ms \in SUBSET Free :
              /\ Cardinality(ms) <= look[c].room
              /\ attempts' = [m \in Message |-> IF m \in ms THEN attempts[m] + 1 ELSE attempts[m]]
              /\ lock' = [m \in Message |-> IF m \in ms THEN "held" ELSE lock[m]]
              /\ look'[c].taken = {[of |-> m, attempt |-> attempts[m] + 1] : m \in ms}
              /\ look'[c].at = "answered" /\ look'[c].room = look[c].room
              /\ look' \in [Consumer -> LookType]
              /\ \A q \in Consumer \ {c} : look'[q] = look[q]
              /\ IsFiniteSet(ms)
<1>1. PICK ms \in SUBSET Free :
        /\ Cardinality(ms) = Min2(look[c].room, Cardinality(Free))
        /\ attempts' = [m \in Message |-> IF m \in ms THEN attempts[m] + 1 ELSE attempts[m]]
        /\ lock' = [m \in Message |-> IF m \in ms THEN "held" ELSE lock[m]]
        /\ look' = [look EXCEPT ![c] =
            [at |-> "answered", room |-> look[c].room,
             taken |-> {[of |-> m, attempt |-> attempts[m] + 1] : m \in ms},
             more |-> \E m \in Message \ ms : kept[m] = "kept"]]
  BY DEF TakeDue
<1>2. ms \subseteq Message /\ Free \subseteq Message /\ IsFiniteSet(ms) /\ IsFiniteSet(Free)
  <2>1. ms \subseteq Message /\ Free \subseteq Message
    BY DEF Free
  <2> QED
    BY <2>1, FS_Subset, SizesAssumption DEF IInv
<1>3. look \in [Consumer -> LookType] /\ attempts \in [Message -> Nat]
  BY Types DEF IInv
<1>4. {[of |-> m, attempt |-> attempts[m] + 1] : m \in ms} \in SUBSET Take
  BY <1>2, <1>3 DEF Take
<1>5. look[c].room \in 0 .. Concurrency /\ look[c].room \in Nat
  BY <1>3, SizesAssumption DEF LookType, IInv
<1> DEFINE l == [at |-> "answered", room |-> look[c].room,
                 taken |-> {[of |-> m, attempt |-> attempts[m] + 1] : m \in ms},
                 more |-> \E m \in Message \ ms : kept[m] = "kept"]
<1>6. l \in LookType
  BY <1>4, <1>5 DEF LookType
<1>7. look' = [look EXCEPT ![c] = l]
  BY <1>1
<1>8. look' \in [Consumer -> LookType] /\ look'[c] = l /\ \A q \in Consumer \ {c} : look'[q] = look[q]
  BY <1>3, <1>6, <1>7
<1>9. Cardinality(ms) <= look[c].room
  BY <1>1, <1>2, <1>5, FS_CardinalityType DEF Min2
<1> QED
  BY <1>1, <1>2, <1>8, <1>9

LEMMA TakeDueIInv == ASSUME IInv, NEW c \in Consumer, TakeDue(c) PROVE IInv'
<1>1. PICK ms \in SUBSET Free :
              /\ Cardinality(ms) <= look[c].room
              /\ attempts' = [m \in Message |-> IF m \in ms THEN attempts[m] + 1 ELSE attempts[m]]
              /\ lock' = [m \in Message |-> IF m \in ms THEN "held" ELSE lock[m]]
              /\ look'[c].taken = {[of |-> m, attempt |-> attempts[m] + 1] : m \in ms}
              /\ look'[c].at = "answered" /\ look'[c].room = look[c].room
              /\ look' \in [Consumer -> LookType]
              /\ \A q \in Consumer \ {c} : look'[q] = look[q]
              /\ IsFiniteSet(ms)
  BY TakeDueFacts
<1>2. look[c].at = "asked" /\ UNCHANGED <<kept, due, phase, again, timer, session, out, handed, faults>>
  BY DEF TakeDue
<1>3. attempts \in [Message -> Nat] /\ lock \in [Message -> {"free", "held", "lapsed"}] /\ ms \subseteq Message
  BY Types DEF IInv, Free
<1>4. /\ attempts' \in [Message -> Nat] /\ lock' \in [Message -> {"free", "held", "lapsed"}]
      /\ \A m \in Message : attempts'[m] >= attempts[m]
      /\ \A m \in ms : attempts'[m] = attempts[m] + 1
  BY <1>1, <1>3
<1>5. TypeOK'
  BY <1>1, <1>2, <1>4 DEF IInv, TypeOK, LookType
<1>6. Fitting'
  <2> DEFINE tk == {[of |-> m, attempt |-> attempts[m] + 1] : m \in ms}
             f == [m \in ms |-> [of |-> m, attempt |-> attempts[m] + 1]]
  <2>1. f \in [ms -> tk] /\ \A t \in tk : \E m \in ms : f[m] = t
    OBVIOUS
  <2>2. IsFiniteSet(tk) /\ Cardinality(tk) <= Cardinality(ms)
    BY <1>1, <2>1, Image
  <2>3. /\ Cardinality(ms) \in Nat /\ Cardinality(tk) \in Nat /\ look[c].room \in Nat
    BY <1>1, <2>2, FS_CardinalityType, BusyType
  <2>4. phase[c] # "off" /\ Fits(look[c], out[c], phase[c])
    BY <1>2 DEF IInv, Fitting, Fits
  <2>5. Fits(look'[c], out[c], phase[c])
    BY <1>1, <2>2, <2>3, <2>4 DEF Fits
  <2> QED
    BY <1>1, <1>2, <2>5 DEF IInv, Fitting
<1>7. \A q \in Consumer : Running(q)' = Running(q) /\ Running(q) \subseteq TakenBy(q) /\ TakenBy(q) \in SUBSET Take
  BY <1>2, Takes DEF Running, TakenBy, IInv
<1>8. look[c].taken = {}
  BY <1>2 DEF IInv, Fitting, Fits
<1>9. /\ \A q \in Consumer \ {c} : TakenBy(q)' = TakenBy(q)
      /\ TakenBy(c)' = TakenBy(c) \cup look'[c].taken
  BY <1>1, <1>7, <1>8 DEF TakenBy
<1>10. \A t \in look'[c].taken : t.of \in ms /\ t.of \in Message /\ t.attempt = attempts[t.of] + 1
                                /\ t.attempt = attempts'[t.of]
  BY <1>1, <1>3, <1>4
<1>11. \A q \in Consumer : \A t \in TakenBy(q) : /\ t.of \in Message /\ t.attempt \in Nat
                                                /\ t.attempt <= attempts[t.of] /\ t.attempt >= 1
  BY <1>7 DEF IInv, NoSharedAttempt, Counted, Take
<1>12. \A q \in Consumer : \A t \in TakenBy(q) : t \notin look'[c].taken
  BY <1>3, <1>10, <1>11
<1>13. Counted'
  <2>1. \A t \in look'[c].taken : t.attempt >= 1
    BY <1>3, <1>10
  <2> QED
    BY <1>9, <2>1, <1>11 DEF Counted
<1>14. \A q \in Consumer : \A t \in TakenBy(q)' : t.attempt <= attempts'[t.of]
  <2> SUFFICES ASSUME NEW q \in Consumer, NEW t \in TakenBy(q)' PROVE t.attempt <= attempts'[t.of]
    OBVIOUS
  <2>1. CASE t \in TakenBy(q)
    BY <2>1, <1>3, <1>4, <1>11
  <2>2. CASE t \in look'[c].taken
    BY <2>2, <1>4, <1>10
  <2> QED
    BY <1>9, <2>1, <2>2
<1>15. \A q, r \in Consumer : q # r => TakenBy(q)' \cap TakenBy(r)' = {}
  BY <1>9, <1>12 DEF IInv, NoSharedAttempt
<1>16. \A q \in Consumer : look'[q].taken \cap Running(q)' = {}
  BY <1>1, <1>7, <1>12 DEF IInv, NoSharedAttempt
<1>17. NoSharedAttempt'
  BY <1>2, <1>14, <1>15, <1>16 DEF IInv, NoSharedAttempt, Delivered
<1> QED
  BY <1>5, <1>6, <1>13, <1>17, SizesAssumption DEF IInv

(* What follows a look that is over. *)
LEMMA LookIsOver ==
    ASSUME IInv, NEW c \in Consumer, NEW busy \in Nat, busy <= Concurrency, NEW arms \in BOOLEAN,
           LookOver(c, busy, arms)
    PROVE  /\ look' \in [Consumer -> LookType] /\ timer' \in [Consumer -> BOOLEAN]
           /\ again' \in [Consumer -> BOOLEAN]
           /\ look'[c] = Idle \/ (Consuming(c) /\ look'[c] = Asked(Concurrency - busy))
           /\ \A q \in Consumer \ {c} : look'[q] = look[q]
<1>1. look \in [Consumer -> LookType] /\ timer \in [Consumer -> BOOLEAN] /\ again \in [Consumer -> BOOLEAN]
  BY Types DEF IInv
<1>3. CASE again[c] /\ Consuming(c)
  <2>1. Begin(c, busy)
    BY <1>3 DEF LookOver
  <2> QED
    BY <1>3, <2>1, BeginLook
<1>4. CASE ~(again[c] /\ Consuming(c))
  <2>1. Idle \in LookType
    BY SizesAssumption DEF Idle, LookType, IInv
  <2> QED
    BY <1>1, <1>4, <2>1 DEF LookOver
<1> QED
  BY <1>3, <1>4

-----------------------------------------------------------------------------
(* What a look took becomes what is in flight. *)
LEMMA HandOutFacts ==
    ASSUME IInv, NEW c \in Consumer, HandOut(c)
    PROVE  /\ look' \in [Consumer -> LookType] /\ timer' \in [Consumer -> BOOLEAN]
           /\ again' \in [Consumer -> BOOLEAN] /\ out' \in [Consumer -> SUBSET OutType]
           /\ Fits(look'[c], out'[c], phase[c]) /\ look'[c].taken = {}
           /\ out'[c] = out[c] \cup {[of |-> t.of, attempt |-> t.attempt, at |-> "running"] : t \in look[c].taken}
           /\ Running(c)' = Running(c) \cup look[c].taken
           /\ \A q \in Consumer \ {c} : look'[q] = look[q] /\ out'[q] = out[q]
<1> DEFINE taken == look[c].taken
           now == {[of |-> t.of, attempt |-> t.attempt, at |-> "running"] : t \in taken}
           busy == Busy(c) + Cardinality(taken)
<1>1. /\ look[c].at = "answered" /\ Consuming(c) /\ LookOver(c, busy, Sleeps(c))
      /\ out' = [out EXCEPT ![c] = @ \cup now]
  BY DEF HandOut
<1>2. taken \in SUBSET Take /\ out \in [Consumer -> SUBSET OutType] /\ out[c] \in SUBSET OutType
  BY Takes, Types DEF IInv
<1>3. now \in SUBSET OutType
  BY <1>2 DEF OutType, Take
<1>4. /\ out' \in [Consumer -> SUBSET OutType] /\ out'[c] = out[c] \cup now
      /\ \A q \in Consumer \ {c} : out'[q] = out[q]
  BY <1>1, <1>2, <1>3
<1>5. /\ Concurrency \in Nat /\ Busy(c) \in Nat /\ Cardinality(taken) \in Nat /\ look[c].room \in Nat
      /\ Busy(c) + look[c].room <= Concurrency /\ Cardinality(taken) <= look[c].room
      /\ IsFiniteSet(out[c]) /\ IsFiniteSet(taken)
  BY BusyType
<1>6. busy \in Nat /\ busy <= Concurrency /\ Sleeps(c) \in BOOLEAN
  <2>1. look[c] \in LookType
    BY Types DEF IInv
  <2> QED
    BY <1>5, <2>1 DEF Sleeps, LookType
<1>7. /\ look' \in [Consumer -> LookType] /\ timer' \in [Consumer -> BOOLEAN]
      /\ again' \in [Consumer -> BOOLEAN]
      /\ look'[c] = Idle \/ (Consuming(c) /\ look'[c] = Asked(Concurrency - busy))
      /\ \A q \in Consumer \ {c} : look'[q] = look[q]
  BY <1>1, <1>6, LookIsOver
<1>8. IsFiniteSet(now) /\ Cardinality(now) <= Cardinality(taken)
  <2> DEFINE f == [t \in taken |-> [of |-> t.of, attempt |-> t.attempt, at |-> "running"]]
  <2>1. f \in [taken -> now] /\ \A x \in now : \E t \in taken : f[t] = x
    OBVIOUS
  <2> QED
    BY <1>5, <2>1, Image
<1>9. IsFiniteSet(out'[c]) /\ Cardinality(out'[c]) <= busy /\ Cardinality(out'[c]) \in Nat
  <2>1. IsFiniteSet(out[c] \cup now)
        /\ Cardinality(out[c] \cup now) = Cardinality(out[c]) + Cardinality(now) - Cardinality(out[c] \cap now)
    BY <1>5, <1>8, FS_Union
  <2>2. Cardinality(now) \in Nat /\ Cardinality(out[c] \cap now) \in Nat
    BY <1>5, <1>8, FS_Intersection, FS_CardinalityType
  <2>3. Cardinality(out[c]) = Busy(c)
    BY DEF Busy
  <2>4. IsFiniteSet(out'[c]) /\ Cardinality(out'[c]) \in Nat
    BY <1>4, <2>1, FS_CardinalityType
  <2> QED
    BY <1>4, <1>5, <1>8, <2>1, <2>2, <2>3, <2>4
<1>10. Fits(look'[c], out'[c], phase[c])
  <2>1. phase[c] # "off"
    BY <1>1 DEF Consuming
  <2>2. CASE look'[c] = Idle
    BY <1>5, <1>6, <1>9, <2>1, <2>2, FitsIdle
  <2>3. CASE look'[c] = Asked(Concurrency - busy)
    BY <1>5, <1>6, <1>9, <2>1, <2>3, FitsAsked
  <2> QED
    BY <1>7, <2>2, <2>3
<1>11. look'[c].taken = {}
  BY <1>7 DEF Idle, Asked
<1>12. {Delivered(d) : d \in now} = taken
  <2>1. \A t \in taken : Delivered([of |-> t.of, attempt |-> t.attempt, at |-> "running"]) = t
    BY <1>2 DEF Delivered, Take
  <2> QED
    BY <2>1
<1>13. Running(c)' = Running(c) \cup taken
  BY <1>4, <1>12 DEF Running, Delivered
<1> QED
  BY <1>4, <1>7, <1>10, <1>11, <1>13

LEMMA HandOutIInv == ASSUME IInv, NEW c \in Consumer, HandOut(c) PROVE IInv'
<1>1. /\ look' \in [Consumer -> LookType] /\ timer' \in [Consumer -> BOOLEAN]
      /\ again' \in [Consumer -> BOOLEAN] /\ out' \in [Consumer -> SUBSET OutType]
      /\ Fits(look'[c], out'[c], phase[c]) /\ look'[c].taken = {}
      /\ out'[c] = out[c] \cup {[of |-> t.of, attempt |-> t.attempt, at |-> "running"] : t \in look[c].taken}
      /\ Running(c)' = Running(c) \cup look[c].taken
      /\ \A q \in Consumer \ {c} : look'[q] = look[q] /\ out'[q] = out[q]
  BY HandOutFacts
<1>2. /\ UNCHANGED <<rows, session, faults>>
      /\ phase' = [phase EXCEPT ![c] = Started(c)]
      /\ handed' = handed \cup {<<t.of, t.attempt>> : t \in look[c].taken}
      /\ Consuming(c)
  BY DEF HandOut
<1>3. /\ phase' \in [Consumer -> {"starting", "on", "stopping", "off", "failed"}]
      /\ {phase[c], phase'[c]} \subseteq {"starting", "on"} /\ \A q \in Consumer \ {c} : phase'[q] = phase[q]
  BY <1>2, Types DEF IInv, Started, Consuming
<1>4. handed' \in SUBSET (Message \X Nat)
  BY <1>2, Takes, Types DEF IInv, Take
<1>5. TypeOK'
  BY <1>1, <1>2, <1>3, <1>4 DEF IInv, TypeOK, rows, LookType, OutType
<1>6. Fitting'
  <2>1. Fits(look'[c], out'[c], phase'[c])
    BY <1>1, <1>3 DEF Fits
  <2> QED
    BY <1>1, <1>3, <2>1 DEF IInv, Fitting
<1>7. \A q \in Consumer : TakenBy(q)' \subseteq TakenBy(q) /\ look'[q].taken \cap Running(q)' = {}
  BY <1>1 DEF IInv, NoSharedAttempt, TakenBy, Running
<1>8. \A q \in Consumer : \A d, e \in out'[q] : Delivered(d) = Delivered(e) => d = e
  <2>1. \A d, e \in out[c] : Delivered(d) = Delivered(e) => d = e
    BY DEF IInv, NoSharedAttempt
  <2> DEFINE now == {[of |-> t.of, attempt |-> t.attempt, at |-> "running"] : t \in look[c].taken}
  <2>2. \A d \in now : Delivered(d) \in look[c].taken
                      /\ d = [of |-> Delivered(d).of, attempt |-> Delivered(d).attempt, at |-> "running"]
    <3> SUFFICES ASSUME NEW t \in look[c].taken,
                        NEW d, d = [of |-> t.of, attempt |-> t.attempt, at |-> "running"]
                 PROVE  /\ Delivered(d) \in look[c].taken
                        /\ d = [of |-> Delivered(d).of, attempt |-> Delivered(d).attempt, at |-> "running"]
      OBVIOUS
    <3>1. t \in Take
      BY Takes DEF IInv
    <3>2. Delivered(d) = t
      BY <3>1 DEF Delivered, Take
    <3> QED
      BY <3>2
  <2>3. \A d \in out[c] : Delivered(d) \notin look[c].taken
    BY DEF IInv, NoSharedAttempt, Running
  <2>4. \A d, e \in out'[c] : Delivered(d) = Delivered(e) => d = e
    BY <1>1, <2>1, <2>2, <2>3
  <2> QED
    BY <1>1, <2>4 DEF IInv, NoSharedAttempt
<1>9. attempts' = attempts
  BY <1>2 DEF rows
<1> QED
  BY <1>5, <1>6, <1>7, <1>8, <1>9, NothingNew

-----------------------------------------------------------------------------
(* A message given back: the row is this take's, and no other's.           *)
LEMMA UntakeFacts ==
    ASSUME IInv, NEW c \in Consumer, NEW t \in look[c].taken, Untake(c, t)
    PROVE  /\ look' \in [Consumer -> LookType]
           /\ look'[c].at \in {look[c].at, "idle"} /\ look'[c].room = look[c].room
           /\ look'[c].taken = look[c].taken \ {t}
           /\ \A q \in Consumer \ {c} : look'[q] = look[q]
           /\ t \in Take /\ t \in TakenBy(c)
           /\ \A q \in Consumer : TakenBy(q)' \subseteq TakenBy(q) /\ t \notin TakenBy(q)'
                                  /\ look'[q].taken \subseteq look[q].taken /\ Running(q)' = Running(q)
<1>1. look \in [Consumer -> LookType] /\ look[c] \in LookType
      /\ \/ look' = [look EXCEPT ![c].taken = @ \ {t}]
         \/ look' = [look EXCEPT ![c].at = "idle", ![c].taken = @ \ {t}]
  BY Types DEF IInv, Untake
<1>2. /\ \/ look'[c] = [look[c] EXCEPT !.taken = @ \ {t}]
         \/ look'[c] = [look[c] EXCEPT !.at = "idle", !.taken = @ \ {t}]
      /\ \A q \in Consumer \ {c} : look'[q] = look[q]
  BY <1>1
<1>3. /\ look'[c] \in LookType
      /\ look'[c].at \in {look[c].at, "idle"} /\ look'[c].room = look[c].room
      /\ look'[c].taken = look[c].taken \ {t}
  BY <1>1, <1>2 DEF LookType
<1>4. look' \in [Consumer -> LookType]
  BY <1>1, <1>2, <1>3
<1>5. t \in Take /\ t \in TakenBy(c)
  BY Takes DEF IInv, TakenBy
<1>6. \A q \in Consumer : Running(q)' = Running(q)
  BY DEF Untake, Running
<1>7. \A q \in Consumer : TakenBy(q)' \subseteq TakenBy(q) /\ look'[q].taken \subseteq look[q].taken
  BY <1>2, <1>3, <1>6 DEF TakenBy
<1>8. t \notin TakenBy(c)'
  BY <1>3, <1>6 DEF IInv, NoSharedAttempt, TakenBy
<1>9. \A q \in Consumer \ {c} : t \notin TakenBy(q)'
  BY <1>5, <1>7 DEF IInv, NoSharedAttempt
<1> QED
  BY <1>2, <1>3, <1>4, <1>5, <1>6, <1>7, <1>8, <1>9

LEMMA UntakeIInv == ASSUME IInv, NEW c \in Consumer, NEW t \in look[c].taken, Untake(c, t) PROVE IInv'
<1>1. /\ look' \in [Consumer -> LookType]
      /\ look'[c].at \in {look[c].at, "idle"} /\ look'[c].room = look[c].room
      /\ look'[c].taken = look[c].taken \ {t}
      /\ \A q \in Consumer \ {c} : look'[q] = look[q]
      /\ t \in Take /\ t \in TakenBy(c)
      /\ \A q \in Consumer : TakenBy(q)' \subseteq TakenBy(q) /\ t \notin TakenBy(q)'
                             /\ look'[q].taken \subseteq look[q].taken /\ Running(q)' = Running(q)
  BY UntakeFacts
<1>2. /\ phase[c] \in {"stopping", "off"}
      /\ UNCHANGED <<kept, due, phase, again, session, out, handed>>
      /\ timer' = timer \/ timer' = [timer EXCEPT ![c] = @ \/ look[c].at = "answered"]
      /\ \/ /\ RowOf(t)
            /\ attempts' = [attempts EXCEPT ![t.of] = @ - 1]
            /\ lock' = [lock EXCEPT ![t.of] = "free"]
            /\ faults' = faults
         \/ Fault /\ UNCHANGED <<attempts, lock>>
         \/ UNCHANGED <<attempts, lock, faults>>
  BY DEF Untake
<1>t. timer' \in [Consumer -> BOOLEAN]
  BY <1>2, Types DEF IInv
<1>3. Fitting'
  <2>1. Fits(look[c], out[c], phase[c]) /\ look[c].room \in Nat
    BY BusyType DEF IInv, Fitting
  <2>2. IsFiniteSet(look'[c].taken) /\ Cardinality(look'[c].taken) <= Cardinality(look[c].taken)
        /\ Cardinality(look'[c].taken) \in Nat /\ Cardinality(look[c].taken) \in Nat
    <3>1. IsFiniteSet(look[c].taken) /\ look'[c].taken \in SUBSET look[c].taken
      BY <1>1, <2>1 DEF Fits
    <3> QED
      BY <3>1, FS_Subset, FS_CardinalityType
  <2>3. Fits(look'[c], out[c], phase[c])
    BY <1>1, <1>2, <2>1, <2>2 DEF Fits
  <2> QED
    BY <1>1, <1>2, <2>3 DEF IInv, Fitting
<1>4. attempts \in [Message -> Nat] /\ t.of \in Message /\ t.attempt \in Nat /\ t.attempt >= 1
  BY <1>1, Types DEF IInv, Take, Counted
<1>a. CASE /\ RowOf(t)
           /\ attempts' = [attempts EXCEPT ![t.of] = @ - 1]
           /\ lock' = [lock EXCEPT ![t.of] = "free"]
           /\ faults' = faults
  <2>1. attempts[t.of] = t.attempt
    BY <1>a DEF RowOf, Mine
  <2>2. attempts' \in [Message -> Nat] /\ attempts'[t.of] = t.attempt - 1
        /\ \A m \in Message \ {t.of} : attempts'[m] = attempts[m]
    BY <1>4, <1>a, <2>1
  <2>3. TypeOK'
    BY <1>1, <1>2, <1>t, <1>4, <1>a, <2>2 DEF IInv, TypeOK, LookType
  <2>4. \A q \in Consumer : \A u \in TakenBy(q)' : u.attempt <= attempts'[u.of]
    <3> SUFFICES ASSUME NEW q \in Consumer, NEW u \in TakenBy(q)' PROVE u.attempt <= attempts'[u.of]
      OBVIOUS
    <3>1. u \in TakenBy(q) /\ u # t /\ u \in Take /\ u.attempt <= attempts[u.of]
      BY <1>1, Takes DEF IInv, NoSharedAttempt
    <3>2. CASE u.of = t.of
      <4>1. u.attempt # t.attempt
        BY <1>1, <3>1, <3>2 DEF Take
      <4>2. u.attempt \in Nat
        BY <3>1 DEF Take
      <4> QED
        BY <1>4, <2>1, <2>2, <3>1, <3>2, <4>1, <4>2
    <3>3. CASE u.of # t.of
      BY <2>2, <3>1, <3>3 DEF Take
    <3> QED
      BY <3>2, <3>3
  <2>5. Counted' /\ NoSharedAttempt'
    BY <1>1, <1>2, <2>4 DEF IInv, Counted, NoSharedAttempt, Delivered
  <2> QED
    BY <1>3, <2>3, <2>5, SizesAssumption DEF IInv
<1>b. CASE (Fault \/ faults' = faults) /\ UNCHANGED <<attempts, lock>>
  <2>1. TypeOK'
    BY <1>1, <1>2, <1>t, <1>b, SizesAssumption DEF IInv, TypeOK, LookType, Fault
  <2> QED
    BY <1>1, <1>2, <1>3, <1>b, <2>1, NothingTaken
<1> QED
  BY <1>2, <1>a, <1>b

LEMMA GivenBackIInv == ASSUME IInv, NEW c \in Consumer, GivenBack(c) PROVE IInv'
<1>1. /\ Concurrency \in Nat /\ Busy(c) \in Nat /\ Busy(c) <= Concurrency /\ IsFiniteSet(out[c])
      /\ timer[c] \in BOOLEAN
  BY BusyType, Types DEF IInv
<1>2. /\ phase[c] = "stopping" /\ LookOver(c, Busy(c), timer[c])
      /\ UNCHANGED <<rows, phase, session, out, handed, faults>>
  BY DEF GivenBack
<1>3. /\ look' \in [Consumer -> LookType] /\ timer' \in [Consumer -> BOOLEAN]
      /\ again' \in [Consumer -> BOOLEAN]
      /\ look'[c] = Idle \/ (Consuming(c) /\ look'[c] = Asked(Concurrency - Busy(c)))
      /\ \A q \in Consumer \ {c} : look'[q] = look[q]
  BY <1>1, <1>2, LookIsOver
<1>4. look'[c] = Idle
  BY <1>2, <1>3 DEF Consuming
<1>5. TypeOK'
  BY <1>2, <1>3 DEF IInv, TypeOK, rows, LookType
<1>6. Fits(look'[c], out[c], phase[c])
  BY <1>1, <1>2, <1>4, FitsIdle DEF Busy
<1>7. Fitting'
  BY <1>2, <1>3, <1>6 DEF IInv, Fitting
<1> QED
  BY <1>2, <1>3, <1>4, <1>5, <1>7, NothingTaken DEF rows, Idle

LEMMA LookFailsIInv == ASSUME IInv, NEW c \in Consumer, LookFails(c) PROVE IInv'
<1>1. Concurrency \in Nat /\ Busy(c) \in Nat /\ Busy(c) <= Concurrency /\ IsFiniteSet(out[c])
  BY BusyType
<1>2. /\ look[c].at # "idle" /\ Fault /\ look' = [look EXCEPT ![c] = Idle]
      /\ phase' = [phase EXCEPT ![c] = IF @ = "starting" THEN "failed" ELSE @]
      /\ timer' = [timer EXCEPT ![c] = phase[c] # "starting"]
      /\ UNCHANGED <<rows, again, session, out, handed>>
  BY DEF LookFails
<1>3. Idle \in LookType
  BY <1>1 DEF Idle, LookType
<1>4. /\ look' \in [Consumer -> LookType] /\ look'[c] = Idle
      /\ \A q \in Consumer \ {c} : look'[q] = look[q]
      /\ phase' \in [Consumer -> {"starting", "on", "stopping", "off", "failed"}]
      /\ timer' \in [Consumer -> BOOLEAN]
      /\ \A q \in Consumer : phase'[q] = "off" => phase[q] = "off"
  BY <1>2, <1>3, Types DEF IInv
<1>5. TypeOK'
  BY <1>2, <1>4, SizesAssumption DEF IInv, TypeOK, rows, LookType, Fault
<1>6. phase[c] # "off"
  BY <1>2 DEF IInv, Fitting, Fits
<1>7. Fits(look'[c], out[c], phase'[c])
  BY <1>1, <1>4, <1>6, FitsIdle DEF Busy
<1>8. Fitting'
  BY <1>2, <1>4, <1>7, Types DEF IInv, Fitting
<1> QED
  BY <1>2, <1>4, <1>5, <1>8, NothingTaken DEF rows, Idle

-----------------------------------------------------------------------------
(* An answer is on its way: of the same delivery. *)
LEMMA AnswerFacts ==
    ASSUME IInv, NEW c \in Consumer, NEW d \in out[c], Answer(c, d)
    PROVE  /\ out' \in [Consumer -> SUBSET OutType]
           /\ \E e : /\ out'[c] = (out[c] \ {d}) \cup {e} /\ Delivered(e) = Delivered(d)
                     /\ e \in OutType /\ e.of = d.of /\ e.attempt = d.attempt
           /\ \A q \in Consumer \ {c} : out'[q] = out[q]
<1>1. out \in [Consumer -> SUBSET OutType] /\ d \in OutType
  BY Types, Takes DEF IInv
<1>2. PICK at \in Outcomes : out' = [out EXCEPT ![c] = (@ \ {d}) \cup {[d EXCEPT !.at = at]}]
  BY DEF Answer, Attempted, Outcomes
<1> DEFINE e == [d EXCEPT !.at = at]
<1>3. e \in OutType /\ e.of = d.of /\ e.attempt = d.attempt
  BY <1>1 DEF OutType
<1>4. /\ out' \in [Consumer -> SUBSET OutType] /\ out'[c] = (out[c] \ {d}) \cup {e}
      /\ \A q \in Consumer \ {c} : out'[q] = out[q]
  BY <1>1, <1>2, <1>3
<1> QED
  BY <1>3, <1>4 DEF Delivered

LEMMA AnswerIInv == ASSUME IInv, NEW c \in Consumer, NEW d \in out[c], Answer(c, d) PROVE IInv'
<1>1. PICK e : /\ out'[c] = (out[c] \ {d}) \cup {e} /\ Delivered(e) = Delivered(d)
               /\ e \in OutType /\ e.of = d.of /\ e.attempt = d.attempt
  BY AnswerFacts
<1>2. out' \in [Consumer -> SUBSET OutType] /\ \A q \in Consumer \ {c} : out'[q] = out[q]
  BY AnswerFacts
<1>3. UNCHANGED <<rows, phase, look, again, timer, session, handed>> /\ (Fault \/ faults' = faults)
  BY DEF Answer
<1>4. TypeOK'
  BY <1>2, <1>3, SizesAssumption DEF IInv, TypeOK, rows, OutType, Fault
<1>5. Fitting'
  <2>1. Fits(look[c], out[c], phase[c]) /\ IsFiniteSet(out[c])
    BY DEF IInv, Fitting, Fits
  <2>2. IsFiniteSet(out[c] \ {d}) /\ Cardinality(out[c] \ {d}) = Cardinality(out[c]) - 1
    BY <2>1, FS_RemoveElement
  <2>3. /\ IsFiniteSet((out[c] \ {d}) \cup {e})
        /\ Cardinality((out[c] \ {d}) \cup {e}) = IF e \in out[c] \ {d} THEN Cardinality(out[c] \ {d})
                                                 ELSE Cardinality(out[c] \ {d}) + 1
    BY <2>2, FS_AddElement
  <2>4. /\ Cardinality(out[c]) \in Nat /\ look[c].room \in Nat /\ Concurrency \in Nat
    BY <2>1, FS_CardinalityType, BusyType
  <2>5. Cardinality(out'[c]) <= Cardinality(out[c]) /\ IsFiniteSet(out'[c]) /\ Cardinality(out'[c]) \in Nat
    BY <1>1, <2>2, <2>3, <2>4, FS_CardinalityType
  <2>6. Fits(look[c], out'[c], phase[c])
    BY <2>1, <2>4, <2>5 DEF Fits
  <2> QED
    BY <1>2, <1>3, <2>6 DEF IInv, Fitting
<1>6. Running(c)' = Running(c)
  <2>1. Running(c)' = {Delivered(x) : x \in out'[c]}
    BY DEF Running, Delivered
  <2> QED
    BY <1>1, <2>1 DEF Running
<1>7. \A q \in Consumer : Running(q)' = Running(q)
  BY <1>2, <1>6 DEF Running, Delivered
<1>8. \A q \in Consumer : TakenBy(q)' \subseteq TakenBy(q) /\ look'[q].taken \cap Running(q)' = {}
  BY <1>3, <1>7 DEF IInv, NoSharedAttempt, TakenBy
<1>9. \A q \in Consumer : \A x, y \in out'[q] : Delivered(x) = Delivered(y) => x = y
  BY <1>1, <1>2 DEF IInv, NoSharedAttempt
<1> QED
  BY <1>3, <1>4, <1>5, <1>8, <1>9, NothingNew DEF rows

(* An answer settled: the slot is free, whatever became of the row. *)
LEMMA SettleFacts ==
    ASSUME IInv, NEW c \in Consumer, NEW d \in out[c], Settle(c, d)
    PROVE  /\ d \in OutType /\ d.at \in Outcomes
           /\ out' \in [Consumer -> SUBSET OutType] /\ out'[c] = out[c] \ {d}
           /\ \A q \in Consumer \ {c} : out'[q] = out[q]
           /\ Running(c)' = Running(c) \ {Delivered(d)}
           /\ \A q \in Consumer \ {c} : Running(q)' = Running(q)
           /\ \A q \in Consumer : look'[q].taken = look[q].taken
           /\ look' \in [Consumer -> LookType] /\ timer' \in [Consumer -> BOOLEAN]
           /\ again' \in [Consumer -> BOOLEAN]
           /\ Fitting'
<1>1. /\ d.at \in Outcomes /\ out' = [out EXCEPT ![c] = @ \ {d}] /\ Wake(c, Busy(c) - 1)
      /\ UNCHANGED <<phase, handed>>
  BY DEF Settle
<1>2. out \in [Consumer -> SUBSET OutType] /\ d \in OutType
  BY Types, Takes DEF IInv
<1>3. /\ out' \in [Consumer -> SUBSET OutType] /\ out'[c] = out[c] \ {d}
      /\ \A q \in Consumer \ {c} : out'[q] = out[q]
  BY <1>1, <1>2
<1>4. /\ IsFiniteSet(out'[c]) /\ Cardinality(out'[c]) = Busy(c) - 1 /\ Busy(c) - 1 \in Nat
      /\ Busy(c) - 1 <= Busy(c) /\ Busy(c) - 1 <= Concurrency
  <2>1. IsFiniteSet(out[c]) /\ Busy(c) \in Nat /\ Busy(c) <= Concurrency /\ Concurrency \in Nat
    BY BusyType
  <2>2. IsFiniteSet(out[c] \ {d}) /\ Cardinality(out[c] \ {d}) = Cardinality(out[c]) - 1
    BY <2>1, FS_RemoveElement
  <2>3. Cardinality(out[c] \ {d}) \in Nat
    BY <2>2, FS_CardinalityType
  <2> QED
    BY <1>3, <2>1, <2>2, <2>3 DEF Busy
<1>5. Fitting' /\ \A q \in Consumer : look'[q].taken = look[q].taken
  <2> DEFINE busy == Busy(c) - 1
  <2>1. busy \in Nat /\ busy <= Busy(c) /\ Wake(c, busy) /\ Cardinality(out'[c]) <= busy
    BY <1>1, <1>4
  <2>2. out'[c] \subseteq out[c] /\ phase' = phase
    BY <1>1, <1>3
  <2> HIDE DEF busy
  <2> QED
    BY <1>3, <1>4, <2>1, <2>2, Woken
<1>6. /\ look' \in [Consumer -> LookType] /\ timer' \in [Consumer -> BOOLEAN]
      /\ again' \in [Consumer -> BOOLEAN]
  <2> DEFINE busy == Busy(c) - 1
  <2>1. busy \in Nat /\ busy <= Concurrency /\ Wake(c, busy)
    BY <1>1, <1>4
  <2> HIDE DEF busy
  <2> QED
    BY <2>1, WakeLook
<1>7. Running(c)' = Running(c) \ {Delivered(d)}
  <2>1. Running(c)' = {Delivered(x) : x \in out[c] \ {d}}
    BY <1>3 DEF Running, Delivered
  <2>2. \A x \in out[c] : Delivered(x) = Delivered(d) => x = d
    BY DEF IInv, NoSharedAttempt
  <2> QED
    BY <2>1, <2>2 DEF Running
<1>8. \A q \in Consumer \ {c} : Running(q)' = Running(q)
  BY <1>3 DEF Running, Delivered
<1> QED
  BY <1>1, <1>2, <1>3, <1>5, <1>6, <1>7, <1>8

(* What an answer says of the row: only one that is still this delivery's. *)
LEMMA KeptRows ==
    ASSUME TypeOK, NEW d, d \in OutType, Kept(d)
    PROVE  /\ attempts' = attempts
           /\ kept' \in [Message -> {"unpublished", "kept", "gone", "dead"}]
           /\ due' \in [Message -> BOOLEAN] /\ lock' \in [Message -> {"free", "held", "lapsed"}]
           /\ session' \in [Consumer -> {"quiet", "told", "down"}]
<1>1. d.of \in Message
  BY DEF OutType
<1>2. CASE UNCHANGED <<rows, session>>
  BY <1>2, Types DEF rows
<1>3. CASE kept' = [kept EXCEPT ![d.of] = "gone"] /\ lock' = [lock EXCEPT ![d.of] = "free"] /\ UNCHANGED <<attempts, due, session>>
  BY <1>1, <1>3, Types
<1>4. CASE kept' = [kept EXCEPT ![d.of] = "dead"] /\ lock' = [lock EXCEPT ![d.of] = "free"] /\ UNCHANGED <<attempts, due, session>>
  BY <1>1, <1>4, Types
<1>5. CASE /\ \E now \in BOOLEAN : due' = [due EXCEPT ![d.of] = now]
           /\ lock' = [lock EXCEPT ![d.of] = "free"] /\ Notify /\ UNCHANGED <<kept, attempts>>
  BY <1>1, <1>5, Types DEF Notify
<1> QED
  BY <1>2, <1>3, <1>4, <1>5 DEF Kept

LEMMA SettleIInv == ASSUME IInv, NEW c \in Consumer, NEW d \in out[c], Settle(c, d) PROVE IInv'
<1>1. /\ d \in OutType
      /\ out' \in [Consumer -> SUBSET OutType] /\ out'[c] = out[c] \ {d}
      /\ \A q \in Consumer \ {c} : out'[q] = out[q]
      /\ Running(c)' = Running(c) \ {Delivered(d)}
      /\ \A q \in Consumer \ {c} : Running(q)' = Running(q)
      /\ \A q \in Consumer : look'[q].taken = look[q].taken
      /\ look' \in [Consumer -> LookType] /\ timer' \in [Consumer -> BOOLEAN]
      /\ again' \in [Consumer -> BOOLEAN]
      /\ Fitting'
  BY SettleFacts
<1>2. UNCHANGED <<phase, handed>> /\ ((Kept(d) /\ faults' = faults) \/ (Fault /\ UNCHANGED <<rows, session>>))
  BY DEF Settle
<1>3. /\ attempts' = attempts
      /\ kept' \in [Message -> {"unpublished", "kept", "gone", "dead"}]
      /\ due' \in [Message -> BOOLEAN] /\ lock' \in [Message -> {"free", "held", "lapsed"}]
      /\ session' \in [Consumer -> {"quiet", "told", "down"}]
      /\ faults' \in 0 .. MaxFaults
  BY <1>1, <1>2, KeptRows, SizesAssumption DEF IInv, TypeOK, rows, Fault
<1>4. TypeOK'
  BY <1>1, <1>2, <1>3 DEF IInv, TypeOK, LookType, OutType
<1>5. \A q \in Consumer : TakenBy(q)' \subseteq TakenBy(q) /\ look'[q].taken \cap Running(q)' = {}
  BY <1>1 DEF IInv, NoSharedAttempt, TakenBy
<1>6. \A q \in Consumer : \A x, y \in out'[q] : Delivered(x) = Delivered(y) => x = y
  BY <1>1 DEF IInv, NoSharedAttempt
<1> QED
  BY <1>1, <1>3, <1>4, <1>5, <1>6, NothingNew

LEMMA CrashIInv == ASSUME IInv, NEW c \in Consumer, Crash(c) PROVE IInv'
<1>1. /\ Fault /\ phase' = [phase EXCEPT ![c] = "off"] /\ look' = [look EXCEPT ![c] = Idle]
      /\ again' = [again EXCEPT ![c] = FALSE] /\ timer' = [timer EXCEPT ![c] = FALSE]
      /\ session' = [session EXCEPT ![c] = "quiet"] /\ out' = [out EXCEPT ![c] = {}]
      /\ UNCHANGED <<rows, handed>>
  BY DEF Crash
<1>2. Idle \in LookType
  BY SizesAssumption DEF Idle, LookType, IInv
<1>3. /\ look' \in [Consumer -> LookType] /\ look'[c] = Idle /\ out'[c] = {}
      /\ out' \in [Consumer -> SUBSET OutType]
      /\ \A q \in Consumer \ {c} : look'[q] = look[q] /\ out'[q] = out[q] /\ phase'[q] = phase[q]
  BY <1>1, <1>2, Types DEF IInv
<1>4. TypeOK'
  BY <1>1, <1>3, SizesAssumption DEF IInv, TypeOK, rows, LookType, OutType, Fault
<1>5. Fits(Idle, {}, phase'[c])
  <2>1. IsFiniteSet({}) /\ Cardinality({}) = 0 /\ Concurrency \in Nat
    BY FS_EmptySet, SizesAssumption DEF IInv
  <2> QED
    BY <2>1, FitsIdle
<1>6. Fitting'
  BY <1>3, <1>5 DEF IInv, Fitting
<1>7. /\ Running(c)' = {} /\ look'[c].taken = {}
      /\ \A q \in Consumer \ {c} : Running(q)' = Running(q)
  BY <1>3 DEF Running, Delivered, Idle
<1>8. \A q \in Consumer : TakenBy(q)' \subseteq TakenBy(q) /\ look'[q].taken \cap Running(q)' = {}
  BY <1>3, <1>7 DEF IInv, NoSharedAttempt, TakenBy
<1>9. \A q \in Consumer : \A x, y \in out'[q] : Delivered(x) = Delivered(y) => x = y
  BY <1>3 DEF IInv, NoSharedAttempt
<1> QED
  BY <1>1, <1>4, <1>6, <1>8, <1>9, NothingNew DEF rows

LEMMA NextIInv == IInv /\ [Next]_vars => IInv'
<1> SUFFICES ASSUME IInv, [Next]_vars PROVE IInv'
  OBVIOUS
<1>1. CASE UNCHANGED vars \/ Quiet
  BY <1>1, StutterIInv DEF Quiet
<1>2. ASSUME NEW m \in Message, Publish(m) \/ Time(m) PROVE IInv'
  BY <1>2, RowIInv DEF Time
<1>3. ASSUME NEW c \in Consumer, Listen(c) PROVE IInv'
  BY <1>3, ToldIInv, TimerFiresIInv, AsideIInv DEF Listen
<1>4. ASSUME NEW c \in Consumer, Look(c) PROVE IInv'
  BY <1>4, TakeDueIInv, HandOutIInv, GivenBackIInv, UntakeIInv DEF Look
<1>5. ASSUME NEW c \in Consumer, Deliver(c) PROVE IInv'
  BY <1>5, AnswerIInv, SettleIInv DEF Deliver
<1>6. ASSUME NEW c \in Consumer,
             \/ SessionLost(c) \/ LookFails(c) \/ Stop(c) \/ Stopped(c) \/ Crash(c)
             \/ \E d \in out[c] : Extend(c, d)
      PROVE  IInv'
  BY <1>6, AsideIInv, LookFailsIInv, CrashIInv
<1> QED
  BY <1>1, <1>2, <1>3, <1>4, <1>5, <1>6 DEF Next

-----------------------------------------------------------------------------
(* The state is typed, whatever the sizes of the queue.                    *)
THEOREM TypeCorrect == Spec => []TypeOK
<1>1. Init => IInv
  BY InitIInv
<1>2. IInv => TypeOK
  BY DEF IInv
<1> QED
  BY <1>1, <1>2, NextIInv, PTL DEF Spec

(* However locks lapse and takes are given back, no two takes of a message *)
(* that are about are the same attempt (queue-table.ts:180-217).           *)
THEOREM AttemptsAreApart == Spec => []NoSharedAttempt
<1>1. Init => IInv
  BY InitIInv
<1>2. IInv => NoSharedAttempt
  BY DEF IInv
<1> QED
  BY <1>1, <1>2, NextIInv, PTL DEF Spec

(* Never more at once than `concurrency`, the messages a look has taken and*)
(* not yet handed out included (consumer.ts:108).                          *)
THEOREM NoMoreThanConcurrency == Spec => []BoundedInFlight
<1>1. Init => IInv
  BY InitIInv
<1>2. IInv => BoundedInFlight
  <2> SUFFICES ASSUME IInv, NEW c \in Consumer PROVE Busy(c) + Cardinality(look[c].taken) <= Concurrency
    BY DEF BoundedInFlight
  <2> QED
    BY BusyType
<1> QED
  BY <1>1, <1>2, NextIInv, PTL DEF Spec

-----------------------------------------------------------------------------
(* Most steps leave alone what is in flight and whom the rows are for: they*)
(* take nothing, settle nothing, and a lock that holds holds on, unless    *)
(* something fails.                                                        *)
LocksHold ==
    \A c \in Consumer : \A t \in TakenBy(c) :
        lock[t.of] = "held" /\ t.attempt = attempts[t.of] => lock'[t.of] = "held" \/ faults' # 0

Resting ==
    /\ UNCHANGED <<kept, attempts, handed>>
    /\ \A c \in Consumer : Running(c)' = Running(c) /\ (look'[c] = look[c] \/ look'[c].taken = {})
    /\ LocksHold

LEMMA RestingRows ==
    ASSUME IInv, UNCHANGED <<kept, attempts, lock, handed, out>>,
           \A c \in Consumer : look'[c] = look[c] \/ look'[c].taken = {}
    PROVE  Resting
<1>1. \A c \in Consumer : Running(c)' = Running(c)
  BY DEF Running, Delivered
<1>2. LocksHold
  BY DEF LocksHold
<1> QED
  BY <1>1, <1>2 DEF Resting

LEMMA WakesRest == ASSUME IInv, NEW c \in Consumer, Told(c) \/ TimerFires(c) PROVE Resting
<1>1. Busy(c) \in Nat /\ Busy(c) <= Concurrency /\ Busy(c) <= Busy(c)
  BY BusyType
<1>2. UNCHANGED <<rows, out, handed>> /\ (UNCHANGED look \/ Wake(c, Busy(c)))
  BY DEF Told, TimerFires
<1>3. \A q \in Consumer : look'[q] = look[q] \/ look'[q].taken = {}
  <2>1. CASE Wake(c, Busy(c))
    <3>1. /\ \/ look'[c] = look[c]
             \/ look'[c] = Idle \/ look'[c] = Asked(Concurrency - Busy(c))
          /\ \A q \in Consumer \ {c} : look'[q] = look[q]
      BY <1>1, <2>1, WakeLook
    <3>2. look'[c] = look[c] \/ look'[c].taken = {}
      BY <3>1 DEF Idle, Asked
    <3> QED
      BY <3>1, <3>2
  <2> QED
    BY <1>2, <2>1
<1> QED
  BY <1>2, <1>3, RestingRows DEF rows

LEMMA LooksRest == ASSUME IInv, NEW c \in Consumer, GivenBack(c) \/ LookFails(c) PROVE Resting
<1>1. Busy(c) \in Nat /\ Busy(c) <= Concurrency /\ timer[c] \in BOOLEAN /\ look \in [Consumer -> LookType]
  BY BusyType, Types DEF IInv
<1>2. UNCHANGED <<rows, out, handed>>
  BY DEF GivenBack, LookFails
<1>3. CASE GivenBack(c)
  <2>1. LookOver(c, Busy(c), timer[c])
    BY <1>3 DEF GivenBack
  <2>2. \A q \in Consumer : look'[q] = look[q] \/ look'[q].taken = {}
    <3>1. /\ look'[c] = Idle \/ look'[c] = Asked(Concurrency - Busy(c))
          /\ \A q \in Consumer \ {c} : look'[q] = look[q]
      BY <1>1, <2>1, LookIsOver
    <3>2. look'[c].taken = {}
      BY <3>1 DEF Idle, Asked
    <3> QED
      BY <3>1, <3>2
  <2> QED
    BY <1>2, <2>2, RestingRows DEF rows
<1>4. CASE LookFails(c)
  <2>1. \A q \in Consumer : look'[q] = look[q] \/ look'[q].taken = {}
    BY <1>1, <1>4 DEF LookFails, Idle
  <2> QED
    BY <1>2, <2>1, RestingRows DEF rows
<1> QED
  BY <1>3, <1>4

LEMMA AnswersRest == ASSUME IInv, NEW c \in Consumer, NEW d \in out[c], Answer(c, d) PROVE Resting
<1>1. PICK e : /\ out'[c] = (out[c] \ {d}) \cup {e} /\ Delivered(e) = Delivered(d)
               /\ e \in OutType /\ e.of = d.of /\ e.attempt = d.attempt
  BY AnswerFacts
<1>2. \A q \in Consumer \ {c} : out'[q] = out[q]
  BY AnswerFacts
<1>3. UNCHANGED <<rows, look, handed>>
  BY DEF Answer
<1>4. Running(c)' = Running(c)
  <2>1. Running(c)' = {Delivered(x) : x \in out'[c]}
    BY DEF Running, Delivered
  <2> QED
    BY <1>1, <2>1 DEF Running
<1>5. \A q \in Consumer : Running(q)' = Running(q)
  BY <1>2, <1>4 DEF Running, Delivered
<1> QED
  BY <1>3, <1>5 DEF Resting, LocksHold, rows

LEMMA RowsRest == ASSUME IInv, NEW m \in Message, FallsDue(m) \/ Lapse(m) PROVE Resting
<1>1. CASE FallsDue(m)
  BY <1>1, RestingRows DEF FallsDue
<1>2. CASE Lapse(m)
  <2>1. UNCHANGED <<kept, attempts, look, out, handed>> /\ lock' = [lock EXCEPT ![m] = "lapsed"]
    BY <1>2 DEF Lapse
  <2>2. lock \in [Message -> {"free", "held", "lapsed"}] /\ attempts \in [Message -> Nat] /\ faults \in Nat
    BY Types, SizesAssumption DEF IInv
  <2>3. \A c \in Consumer : Running(c)' = Running(c)
    BY <2>1 DEF Running, Delivered
  <2>4. LocksHold
    <3> SUFFICES ASSUME NEW c \in Consumer, NEW t \in TakenBy(c), lock[t.of] = "held", t.attempt = attempts[t.of],
                        faults' = 0
                 PROVE  lock'[t.of] = "held"
      BY DEF LocksHold
    <3>1. t \in Take
      BY Takes DEF IInv
    <3>2. CASE t.of = m
      <4>1. t = [of |-> m, attempt |-> attempts[m]]
        BY <3>1, <3>2 DEF Take
      <4>2. Fault
        BY <1>2, <4>1 DEF Lapse
      <4> QED
        BY <2>2, <4>2 DEF Fault
    <3>3. CASE t.of # m
      BY <2>1, <2>2, <3>1, <3>3 DEF Take
    <3> QED
      BY <3>2, <3>3
  <2> QED
    BY <2>1, <2>3, <2>4 DEF Resting
<1> QED
  BY <1>1, <1>2

LEMMA AsideRests ==
    ASSUME IInv, NEW c \in Consumer,
           SessionLost(c) \/ Reopen(c) \/ Stop(c) \/ Stopped(c) \/ \E d \in out[c] : Extend(c, d)
    PROVE  Resting
<1>1. CASE SessionLost(c) \/ Reopen(c) \/ Stop(c) \/ Stopped(c)
  <2>1. UNCHANGED <<kept, attempts, lock, handed, out, look>>
    BY <1>1 DEF SessionLost, Reopen, Stop, Stopped, rows
  <2> QED
    BY <2>1, RestingRows
<1>2. ASSUME NEW d \in out[c], Extend(c, d) PROVE Resting
  <2>1. UNCHANGED <<kept, attempts, handed, out, look>> /\ lock' = [lock EXCEPT ![d.of] = "held"]
    BY <1>2 DEF Extend
  <2>2. \A q \in Consumer : Running(q)' = Running(q)
    BY <2>1 DEF Running, Delivered
  <2>3. \A m \in Message : lock[m] = "held" => lock'[m] = "held"
    BY <2>1, Types DEF IInv
  <2>4. LocksHold
    BY <2>3, Takes DEF LocksHold, IInv, Take
  <2> QED
    BY <2>1, <2>2, <2>4 DEF Resting
<1> QED
  BY <1>1, <1>2

LEMMA Steps ==
    ASSUME IInv, [Next]_vars
    PROVE  \/ Resting
           \/ \E m \in Message : Publish(m)
           \/ \E c \in Consumer :
                 \/ TakeDue(c) \/ HandOut(c) \/ Crash(c)
                 \/ \E t \in look[c].taken : Untake(c, t)
                 \/ \E d \in out[c] : Settle(c, d)
<1>1. CASE Quiet \/ UNCHANGED vars
  <2>1. UNCHANGED <<kept, attempts, lock, handed, out, look>>
    BY <1>1 DEF Quiet, vars, rows
  <2> QED
    BY <2>1, RestingRows
<1>2. CASE ~(Quiet \/ UNCHANGED vars)
  BY <1>2, WakesRest, LooksRest, AnswersRest, RowsRest, AsideRests DEF Next, Time, Listen, Look, Deliver
<1> QED
  BY <1>1, <1>2

(* Nothing that failed is undone.                                          *)
LEMMA FaultsStay == ASSUME IInv, [Next]_vars, faults' = 0 PROVE faults = 0
<1>1. faults \in Nat
  BY Types, SizesAssumption DEF IInv
<1>2. faults' = faults \/ faults' = faults + 1
  <2>1. ASSUME NEW m \in Message, Publish(m) \/ Time(m) PROVE faults' = faults \/ faults' = faults + 1
    BY <2>1 DEF Publish, Time, FallsDue, Lapse, Fault
  <2>2. ASSUME NEW c \in Consumer, Listen(c) \/ Look(c) \/ Deliver(c)
        PROVE  faults' = faults \/ faults' = faults + 1
    BY <2>2 DEF Listen, Told, Reopen, TimerFires, Look, TakeDue, HandOut, GivenBack, Untake, Deliver, Answer,
                Settle, Fault
  <2>3. ASSUME NEW c \in Consumer,
               \/ SessionLost(c) \/ LookFails(c) \/ Stop(c) \/ Stopped(c) \/ Crash(c)
               \/ \E d \in out[c] : Extend(c, d)
        PROVE  faults' = faults \/ faults' = faults + 1
    BY <2>3 DEF SessionLost, LookFails, Stop, Stopped, Crash, Extend, Fault
  <2> QED
    BY <2>1, <2>2, <2>3 DEF Next, Quiet, vars
<1> QED
  BY <1>1, <1>2

-----------------------------------------------------------------------------
(* While nothing has failed, a take that is about has the row: the row is  *)
(* locked, and at its attempt.                                             *)
HasTheRow ==
    faults = 0 => \A c \in Consumer : \A t \in TakenBy(c) :
        lock[t.of] = "held" /\ t.attempt = attempts[t.of]

LEMMA InitHasTheRow == Init => HasTheRow
<1>1. Init => \A c \in Consumer : TakenBy(c) = {}
  BY DEF Init, Asked, TakenBy, Running
<1> QED
  BY <1>1 DEF HasTheRow

(* Two takes of one message, each with the row, are the same take.         *)
LEMMA OneHasTheRow ==
    ASSUME IInv, NEW c1 \in Consumer, NEW c2 \in Consumer, NEW t \in TakenBy(c1), NEW u \in TakenBy(c2),
           t.of = u.of, t.attempt = attempts[t.of], u.attempt = attempts[u.of]
    PROVE  t = u /\ c1 = c2
<1>1. t \in Take /\ u \in Take
  BY Takes DEF IInv
<1>2. t = u
  BY <1>1 DEF Take
<1> QED
  BY <1>2 DEF IInv, NoSharedAttempt

LEMMA NextHasTheRow == IInv /\ HasTheRow /\ [Next]_vars => HasTheRow'
<1> SUFFICES ASSUME IInv, HasTheRow, [Next]_vars, faults' = 0, NEW q \in Consumer, NEW t \in TakenBy(q)'
             PROVE  lock'[t.of] = "held" /\ t.attempt = attempts'[t.of]
  BY DEF HasTheRow
<1>1. faults = 0
  BY FaultsStay
<1>2. \A c \in Consumer : \A u \in TakenBy(c) : lock[u.of] = "held" /\ u.attempt = attempts[u.of] /\ u \in Take
  BY <1>1, Takes DEF HasTheRow, IInv
<1>3. CASE Resting
  <2>1. t \in TakenBy(q)
    BY <1>3 DEF Resting, TakenBy
  <2> QED
    BY <1>2, <1>3, <2>1 DEF Resting, LocksHold
<1>4. ASSUME NEW m \in Message, Publish(m) PROVE lock'[t.of] = "held" /\ t.attempt = attempts'[t.of]
  <2>1. t \in TakenBy(q) /\ UNCHANGED <<lock, attempts>>
    BY <1>4 DEF Publish, TakenBy, Running, Delivered
  <2> QED
    BY <1>2, <2>1
<1>5. ASSUME NEW c \in Consumer, TakeDue(c) PROVE lock'[t.of] = "held" /\ t.attempt = attempts'[t.of]
  <2>1. PICK ms \in SUBSET Free :
              /\ attempts' = [m \in Message |-> IF m \in ms THEN attempts[m] + 1 ELSE attempts[m]]
              /\ lock' = [m \in Message |-> IF m \in ms THEN "held" ELSE lock[m]]
              /\ look'[c].taken = {[of |-> m, attempt |-> attempts[m] + 1] : m \in ms}
              /\ \A p \in Consumer \ {c} : look'[p] = look[p]
    BY <1>5, TakeDueFacts
  <2>2. Running(q)' = Running(q)
    BY <1>5 DEF TakeDue, Running, Delivered
  <2>3. t \in TakenBy(q) \/ t \in look'[c].taken
    BY <2>1, <2>2 DEF TakenBy
  <2>4. CASE t \in TakenBy(q)
    <3>1. t.of \in Message /\ t.of \notin ms
      BY <1>2, <2>4 DEF Free, Take
    <3> QED
      BY <1>2, <2>1, <2>4, <3>1
  <2>5. CASE t \in look'[c].taken
    BY <2>1, <2>5 DEF Free
  <2> QED
    BY <2>3, <2>4, <2>5
<1>6. ASSUME NEW c \in Consumer, HandOut(c) PROVE lock'[t.of] = "held" /\ t.attempt = attempts'[t.of]
  <2>1. /\ look'[c].taken = {} /\ Running(c)' = Running(c) \cup look[c].taken
        /\ \A p \in Consumer \ {c} : look'[p] = look[p] /\ out'[p] = out[p]
    BY <1>6, HandOutFacts
  <2>2. t \in TakenBy(q)
    BY <2>1 DEF TakenBy, Running, Delivered
  <2> QED
    BY <1>2, <1>6, <2>2 DEF HandOut, rows
<1>7. ASSUME NEW c \in Consumer, Crash(c) PROVE FALSE
  BY <1>1, <1>7 DEF Crash, Fault
<1>8. ASSUME NEW c \in Consumer, NEW u \in look[c].taken, Untake(c, u)
      PROVE  lock'[t.of] = "held" /\ t.attempt = attempts'[t.of]
  <2>1. t \in TakenBy(q) /\ t # u /\ u \in TakenBy(c)
    BY <1>8, UntakeFacts
  <2>2. t.of # u.of
    BY <1>2, <2>1, OneHasTheRow
  <2>3. /\ attempts' = attempts \/ attempts' = [attempts EXCEPT ![u.of] = @ - 1]
        /\ lock' = lock \/ lock' = [lock EXCEPT ![u.of] = "free"]
    BY <1>8 DEF Untake
  <2>4. attempts'[t.of] = attempts[t.of] /\ lock'[t.of] = lock[t.of]
    BY <2>2, <2>3, <1>2, <2>1, Types DEF IInv, Take
  <2> QED
    BY <1>2, <2>1, <2>4
<1>9. ASSUME NEW c \in Consumer, NEW d \in out[c], Settle(c, d)
      PROVE  lock'[t.of] = "held" /\ t.attempt = attempts'[t.of]
  <2>1. /\ d \in OutType /\ Running(c)' = Running(c) \ {Delivered(d)}
        /\ \A p \in Consumer \ {c} : Running(p)' = Running(p)
        /\ \A p \in Consumer : look'[p].taken = look[p].taken
    BY <1>9, SettleFacts
  <2>2. Delivered(d) \in Running(c) /\ Delivered(d) \in TakenBy(c) /\ Delivered(d).of = d.of
    BY Takes DEF IInv, TakenBy
  <2>3. t \in TakenBy(q)
    BY <2>1 DEF TakenBy
  <2>4. ~(q = c /\ t = Delivered(d))
    BY <2>1, <2>2 DEF TakenBy, IInv, NoSharedAttempt
  <2>5. t.of # d.of
    BY <1>2, <2>2, <2>3, <2>4, OneHasTheRow
  <2>6. attempts' = attempts /\ (lock' = lock \/ lock' = [lock EXCEPT ![d.of] = "free"])
    BY <1>9 DEF Settle, Kept, rows
  <2> QED
    BY <1>2, <2>3, <2>5, <2>6, Types DEF IInv, Take
<1> QED
  BY <1>3, <1>4, <1>5, <1>6, <1>7, <1>8, <1>9, Steps

(* Two deliveries of a message are under way at once only because something*)
(* failed or stalled (queue-table.ts:125-135).                             *)
THEOREM OnlyFaultsOverlap == Spec => []OnceUnlessFaulty
<1>1. Init => IInv /\ HasTheRow
  BY InitIInv, InitHasTheRow
<1>2. IInv /\ HasTheRow => OnceUnlessFaulty
  <2> SUFFICES ASSUME IInv, HasTheRow, faults = 0, NEW m \in Message
               PROVE  Cardinality({t \in UNION {TakenBy(c) : c \in Consumer} : t.of = m}) <= 1
    BY DEF OnceUnlessFaulty
  <2> DEFINE S == {t \in UNION {TakenBy(c) : c \in Consumer} : t.of = m}
  <2>1. \A t, u \in S : t = u
    BY OneHasTheRow DEF HasTheRow
  <2>2. CASE S = {}
    <3>1. Cardinality({}) = 0
      BY FS_EmptySet
    <3>2. Cardinality(S) = 0
      BY <2>2, <3>1
    <3> QED
      BY <3>2
  <2>3. ASSUME NEW t \in S PROVE Cardinality(S) <= 1
    <3>1. S = {t}
      BY <2>1, <2>3
    <3>2. Cardinality({t}) = 1
      BY FS_Singleton
    <3>3. Cardinality(S) = 1
      BY <3>1, <3>2
    <3> QED
      BY <3>3
  <2> QED
    BY <2>2, <2>3
<1> QED
  BY <1>1, <1>2, NextIInv, NextHasTheRow, PTL DEF Spec

-----------------------------------------------------------------------------
LEMMA LocksAreTaken == ASSUME IInv, [Next]_vars PROVE LocksByTaking
<1> SUFFICES ASSUME NEW m \in Message, lock[m] = "free", lock'[m] # "free"
             PROVE  attempts'[m] = attempts[m] + 1
  BY DEF LocksByTaking
<1>1. lock \in [Message -> {"free", "held", "lapsed"}] /\ attempts \in [Message -> Nat] /\ lock' # lock
  BY Types DEF IInv
<1>2. \/ \E n \in Message : Lapse(n)
      \/ \E c \in Consumer :
            \/ TakeDue(c)
            \/ \E t \in look[c].taken : Untake(c, t)
            \/ \E d \in out[c] : Extend(c, d) \/ Settle(c, d)
  <2>1. ASSUME NEW n \in Message, Publish(n) \/ FallsDue(n) PROVE FALSE
    BY <1>1, <2>1 DEF Publish, FallsDue
  <2>2. ASSUME NEW c \in Consumer, Listen(c) \/ HandOut(c) \/ GivenBack(c) PROVE FALSE
    BY <1>1, <2>2 DEF Listen, Told, Reopen, TimerFires, HandOut, GivenBack, rows
  <2>3. ASSUME NEW c \in Consumer, NEW d \in out[c], Answer(c, d) PROVE FALSE
    BY <1>1, <2>3 DEF Answer, rows
  <2>4. ASSUME NEW c \in Consumer, SessionLost(c) \/ LookFails(c) \/ Stop(c) \/ Stopped(c) \/ Crash(c) PROVE FALSE
    BY <1>1, <2>4 DEF SessionLost, LookFails, Stop, Stopped, Crash, rows
  <2>5. ~Quiet /\ ~UNCHANGED vars
    BY <1>1 DEF Quiet, vars, rows
  <2>6. CASE \E n \in Message : Publish(n) \/ Time(n)
    BY <2>1, <2>6 DEF Time
  <2>7. CASE \E c \in Consumer : Listen(c) \/ Look(c)
    BY <2>2, <2>7 DEF Look
  <2>8. CASE \E c \in Consumer : Deliver(c) \/ \E d \in out[c] : Extend(c, d)
    BY <2>3, <2>8 DEF Deliver
  <2>9. CASE \E c \in Consumer : SessionLost(c) \/ LookFails(c) \/ Stop(c) \/ Stopped(c) \/ Crash(c)
    BY <2>4, <2>9
  <2> QED
    BY <2>5, <2>6, <2>7, <2>8, <2>9 DEF Next
<1>3. ASSUME NEW n \in Message, Lapse(n) PROVE FALSE
  BY <1>1, <1>3 DEF Lapse
<1>4. ASSUME NEW c \in Consumer, TakeDue(c) PROVE attempts'[m] = attempts[m] + 1
  <2>1. PICK ms \in SUBSET Free :
              /\ attempts' = [n \in Message |-> IF n \in ms THEN attempts[n] + 1 ELSE attempts[n]]
              /\ lock' = [n \in Message |-> IF n \in ms THEN "held" ELSE lock[n]]
    BY <1>4, TakeDueFacts
  <2> QED
    BY <1>1, <2>1
<1>5. ASSUME NEW c \in Consumer, NEW t \in look[c].taken, Untake(c, t) PROVE FALSE
  <2>1. lock' = lock \/ lock' = [lock EXCEPT ![t.of] = "free"]
    BY <1>5 DEF Untake
  <2> QED
    BY <1>1, <2>1
<1>6. ASSUME NEW c \in Consumer, NEW d \in out[c], Extend(c, d) PROVE FALSE
  <2>1. lock[d.of] # "free" /\ lock' = [lock EXCEPT ![d.of] = "held"]
    BY <1>6 DEF Extend, Extends
  <2> QED
    BY <1>1, <2>1
<1>7. ASSUME NEW c \in Consumer, NEW d \in out[c], Settle(c, d) PROVE FALSE
  <2>1. lock' = lock \/ lock' = [lock EXCEPT ![d.of] = "free"]
    BY <1>7 DEF Settle, Kept, rows
  <2> QED
    BY <1>1, <2>1
<1> QED
  BY <1>2, <1>3, <1>4, <1>5, <1>6, <1>7

(* A row somebody let go of is locked again only by being taken anew: no   *)
(* late extension relocks it (queue-table.ts:166-168).                     *)
THEOREM LocksComeOfTaking == Spec => NeverRelocked
<1>1. Init => IInv
  BY InitIInv
<1>2. IInv /\ [Next]_vars => [LocksByTaking]_vars
  BY LocksAreTaken
<1> QED
  BY <1>1, <1>2, NextIInv, PTL DEF Spec, NeverRelocked

(* While nothing has failed, a look ends with no message that it took and  *)
(* did not hand out or give back: one that does ends as its statement fails*)
Untaken == faults = 0 => \A c \in Consumer : look[c].at = "idle" => look[c].taken = {}

LEMMA InitUntaken == Init => Untaken
BY DEF Init, Asked, Untaken

LEMMA NextUntaken == IInv /\ Untaken /\ [Next]_vars => Untaken'
<1> SUFFICES ASSUME IInv, Untaken, [Next]_vars, faults' = 0, NEW q \in Consumer, look'[q].at = "idle"
             PROVE  look'[q].taken = {}
  BY DEF Untaken
<1>1. faults = 0
  BY FaultsStay
<1>2. look'[q] = look[q] => look'[q].taken = {}
  BY <1>1 DEF Untaken
<1>3. CASE Resting \/ \E m \in Message : Publish(m)
  BY <1>2, <1>3 DEF Resting, Publish
<1>4. ASSUME NEW c \in Consumer, TakeDue(c) PROVE look'[q].taken = {}
  <2>1. look'[c].at = "answered" /\ \A p \in Consumer \ {c} : look'[p] = look[p]
    BY <1>4, TakeDueFacts
  <2> QED
    BY <1>2, <2>1
<1>5. ASSUME NEW c \in Consumer, HandOut(c) PROVE look'[q].taken = {}
  <2>1. look'[c].taken = {} /\ \A p \in Consumer \ {c} : look'[p] = look[p]
    BY <1>5, HandOutFacts
  <2> QED
    BY <1>2, <2>1
<1>6. ASSUME NEW c \in Consumer, Crash(c) PROVE look'[q].taken = {}
  BY <1>1, <1>6 DEF Crash, Fault
<1>7. ASSUME NEW c \in Consumer, NEW t \in look[c].taken, Untake(c, t) PROVE look'[q].taken = {}
  <2>1. look \in [Consumer -> LookType] /\ look[c] \in LookType
    BY Types DEF IInv
  <2>2. look' = [look EXCEPT ![c].taken = @ \ {t}]
    BY <1>1, <1>7 DEF Untake, Fault
  <2>3. look[q].at = "idle" /\ look'[q].taken \subseteq look[q].taken
    BY <2>1, <2>2 DEF LookType
  <2> QED
    BY <1>1, <2>3 DEF Untaken
<1>8. ASSUME NEW c \in Consumer, NEW d \in out[c], Settle(c, d) PROVE look'[q].taken = {}
  <2>1. /\ look \in [Consumer -> LookType] /\ Busy(c) \in Nat /\ Busy(c) <= Concurrency
        /\ Wake(c, Busy(c) - 1)
    BY <1>8, BusyType, Types DEF IInv, Settle
  <2>2. look'[q] = look[q] \/ look'[q] = Idle \/ look'[q].at = "asked"
    BY <2>1 DEF Wake, Begin, Asked
  <2> QED
    BY <1>2, <2>2 DEF Idle
<1> QED
  BY <1>3, <1>4, <1>5, <1>6, <1>7, <1>8, Steps

LEMMA StopsDrain == ASSUME IInv, IInv', Untaken', [Next]_vars PROVE DrainsOnly
<1> SUFFICES ASSUME NEW c \in Consumer
             PROVE  /\ phase[c] = "stopping" => \A d \in out'[c] : Delivered(d) \in Running(c)
                    /\ phase'[c] = "off" => /\ out'[c] = {} /\ look'[c].at = "idle"
                                            /\ faults' = 0 => look'[c].taken = {}
  BY DEF DrainsOnly
<1>1. ASSUME phase'[c] = "off"
      PROVE  /\ out'[c] = {} /\ look'[c].at = "idle"
             /\ faults' = 0 => look'[c].taken = {}
  BY <1>1 DEF IInv, Fitting, Fits, Untaken
<1>2. ASSUME phase[c] = "stopping" PROVE Running(c)' \subseteq Running(c)
  <2>1. CASE Resting
    BY <2>1 DEF Resting
  <2>2. ASSUME out'[c] \subseteq out[c] PROVE Running(c)' \subseteq Running(c)
    BY <2>2 DEF Running, Delivered
  <2>3. ASSUME NEW m \in Message, Publish(m) PROVE out'[c] \subseteq out[c]
    BY <2>3 DEF Publish
  <2>4. ASSUME NEW p \in Consumer,
               \/ TakeDue(p) \/ HandOut(p) \/ Crash(p)
               \/ \E t \in look[p].taken : Untake(p, t)
               \/ \E d \in out[p] : Settle(p, d)
        PROVE  out'[c] \subseteq out[c]
    <3>1. CASE HandOut(p)
      BY <1>2, <3>1, HandOutFacts DEF HandOut, Consuming
    <3>2. CASE Crash(p)
      BY <3>2, Types DEF Crash, IInv
    <3>3. CASE \E d \in out[p] : Settle(p, d)
      BY <3>3, SettleFacts
    <3>4. CASE TakeDue(p) \/ \E t \in look[p].taken : Untake(p, t)
      BY <3>4 DEF TakeDue, Untake
    <3> QED
      BY <2>4, <3>1, <3>2, <3>3, <3>4
  <2> QED
    BY <2>1, <2>2, <2>3, <2>4, Steps
<1>3. \A d \in out'[c] : Delivered(d) \in Running(c)'
  BY DEF Running, Delivered
<1> QED
  BY <1>1, <1>2, <1>3

(* Once a stop has begun nothing is handed out, and one that has answered  *)
(* left neither a delivery nor a look behind, nor, unless something failed,*)
(* a message that it took and did not give back (consumer.ts:74, 113-116). *)
THEOREM StopsLeaveNothing == Spec => StopDrains
<1>1. Init => IInv /\ Untaken
  BY InitIInv, InitUntaken
<1>2. IInv /\ IInv' /\ Untaken' /\ [Next]_vars => [DrainsOnly]_vars
  BY StopsDrain
<1> QED
  BY <1>1, <1>2, NextIInv, NextUntaken, PTL DEF Spec, StopDrains

-----------------------------------------------------------------------------
(* The refinement.  No attempt handed out is ahead of its row; what a look *)
(* took has not been handed out, and was published; and a message that is  *)
(* parked is not the row of any take that is about.                        *)
HandedBehind == \A m \in Message : \A a \in Nat : <<m, a>> \in handed => a <= attempts[m]

NotYetHanded ==
    \A c \in Consumer : \A t \in look[c].taken :
        <<t.of, t.attempt>> \notin handed /\ kept[t.of] # "unpublished"

ParkedIsNobodys ==
    \A c \in Consumer : \A t \in TakenBy(c) : kept[t.of] = "dead" => t.attempt # attempts[t.of]

HInv == HandedBehind /\ NotYetHanded /\ ParkedIsNobodys

LEMMA InitHInv == Init => HInv
<1>1. Init => \A c \in Consumer : TakenBy(c) = {} /\ look[c].taken = {}
  BY DEF Init, Asked, TakenBy, Running
<1> QED
  BY <1>1 DEF Init, HInv, HandedBehind, NotYetHanded, ParkedIsNobodys

(* Its row gone or parked, nothing else is left that has it. *)
LEMMA NextHInv == IInv /\ HInv /\ [Next]_vars => HInv'
<1> SUFFICES ASSUME IInv, HInv, [Next]_vars PROVE HInv'
  OBVIOUS
<1>1. /\ kept \in [Message -> {"unpublished", "kept", "gone", "dead"}] /\ attempts \in [Message -> Nat]
      /\ handed \in SUBSET (Message \X Nat)
  BY Types DEF IInv
<1>2. \A c \in Consumer : \A t \in TakenBy(c) : /\ t \in Take /\ t.of \in Message /\ t.attempt \in Nat
                                               /\ t.attempt <= attempts[t.of]
  BY Takes DEF IInv, NoSharedAttempt, Take
<1>3. \A c \in Consumer : look[c].taken \subseteq TakenBy(c)
  BY DEF TakenBy
<1>4. CASE Resting
  <2>1. \A c \in Consumer : TakenBy(c)' \subseteq TakenBy(c)
    BY <1>4 DEF Resting, TakenBy
  <2> QED
    BY <1>4, <2>1 DEF Resting, HInv, HandedBehind, NotYetHanded, ParkedIsNobodys
<1>5. ASSUME NEW m \in Message, Publish(m) PROVE HInv'
  <2>1. \A c \in Consumer : TakenBy(c)' = TakenBy(c)
    BY <1>5 DEF Publish, TakenBy, Running, Delivered
  <2>2. kept' = [kept EXCEPT ![m] = "kept"] /\ UNCHANGED <<attempts, handed, look>>
    BY <1>5 DEF Publish
  <2>3. \A n \in Message : (kept'[n] = "dead" => kept[n] = "dead") /\ (kept'[n] = "unpublished" => kept[n] = "unpublished")
    BY <1>1, <2>2
  <2> QED
    BY <1>2, <1>3, <2>1, <2>2, <2>3 DEF HInv, HandedBehind, NotYetHanded, ParkedIsNobodys
<1>6. ASSUME NEW c \in Consumer, TakeDue(c) PROVE HInv'
  <2>1. PICK ms \in SUBSET Free :
              /\ attempts' = [m \in Message |-> IF m \in ms THEN attempts[m] + 1 ELSE attempts[m]]
              /\ look'[c].taken = {[of |-> m, attempt |-> attempts[m] + 1] : m \in ms}
              /\ \A p \in Consumer \ {c} : look'[p] = look[p]
    BY <1>6, TakeDueFacts
  <2>2. UNCHANGED <<kept, handed>> /\ \A q \in Consumer : Running(q)' = Running(q)
    BY <1>6 DEF TakeDue, Running, Delivered
  <2>3. \A m \in ms : m \in Message /\ kept[m] = "kept"
    BY DEF Free
  <2>4. \A m \in Message : attempts'[m] >= attempts[m] /\ attempts'[m] \in Nat
                          /\ (m \notin ms => attempts'[m] = attempts[m])
    BY <1>1, <2>1
  <2>5. HandedBehind'
    BY <1>1, <2>2, <2>4 DEF HInv, HandedBehind
  <2>6. \A t \in look'[c].taken : /\ t.of \in ms /\ t.of \in Message /\ t.attempt \in Nat
                                 /\ t.attempt > attempts[t.of]
    BY <1>1, <2>1, <2>3
  <2>7. NotYetHanded'
    <3> SUFFICES ASSUME NEW q \in Consumer, NEW t \in look'[q].taken
                 PROVE  <<t.of, t.attempt>> \notin handed /\ kept[t.of] # "unpublished"
      BY <2>2 DEF NotYetHanded
    <3>1. CASE q = c
      BY <1>1, <2>3, <2>6, <3>1 DEF HInv, HandedBehind
    <3>2. CASE q # c
      BY <2>1, <3>2 DEF HInv, NotYetHanded
    <3> QED
      BY <3>1, <3>2
  <2>8. ParkedIsNobodys'
    <3> SUFFICES ASSUME NEW q \in Consumer, NEW t \in TakenBy(q)', kept[t.of] = "dead"
                 PROVE  t.attempt # attempts'[t.of]
      BY <2>2 DEF ParkedIsNobodys
    <3>1. t \in TakenBy(q) \/ t \in look'[c].taken
      BY <2>1, <2>2 DEF TakenBy
    <3>2. t \in TakenBy(q) /\ t.of \notin ms
      BY <2>3, <2>6, <3>1
    <3> QED
      BY <1>2, <2>4, <3>2 DEF HInv, ParkedIsNobodys
  <2> QED
    BY <2>5, <2>7, <2>8 DEF HInv
<1>7. ASSUME NEW c \in Consumer, HandOut(c) PROVE HInv'
  <2>1. /\ look'[c].taken = {} /\ Running(c)' = Running(c) \cup look[c].taken
        /\ \A p \in Consumer \ {c} : look'[p] = look[p] /\ out'[p] = out[p]
    BY <1>7, HandOutFacts
  <2>2. handed' = handed \cup {<<t.of, t.attempt>> : t \in look[c].taken} /\ UNCHANGED <<kept, attempts>>
    BY <1>7 DEF HandOut, rows
  <2>3. \A q \in Consumer : TakenBy(q)' = TakenBy(q)
    BY <2>1 DEF TakenBy, Running, Delivered
  <2>4. HandedBehind'
    BY <1>2, <1>3, <2>2 DEF HInv, HandedBehind
  <2>5. NotYetHanded'
    <3> SUFFICES ASSUME NEW q \in Consumer, NEW t \in look'[q].taken
                 PROVE  <<t.of, t.attempt>> \notin handed' /\ kept[t.of] # "unpublished"
      BY <2>2 DEF NotYetHanded
    <3>1. q # c /\ t \in look[q].taken
      BY <2>1
    <3>2. <<t.of, t.attempt>> \notin handed /\ kept[t.of] # "unpublished"
      BY <3>1 DEF HInv, NotYetHanded
    <3>3. \A u \in look[c].taken : <<t.of, t.attempt>> # <<u.of, u.attempt>>
      <4> SUFFICES ASSUME NEW u \in look[c].taken, t.of = u.of, t.attempt = u.attempt PROVE FALSE
        OBVIOUS
      <4>1. t = u
        BY <1>2, <1>3, <3>1 DEF Take
      <4> QED
        BY <1>3, <3>1, <4>1 DEF IInv, NoSharedAttempt
    <3> QED
      BY <2>2, <3>2, <3>3
  <2>6. ParkedIsNobodys'
    BY <2>2, <2>3 DEF HInv, ParkedIsNobodys
  <2> QED
    BY <2>4, <2>5, <2>6 DEF HInv
<1>8. ASSUME NEW c \in Consumer, Crash(c) PROVE HInv'
  <2>1. /\ look' = [look EXCEPT ![c] = Idle] /\ out' = [out EXCEPT ![c] = {}]
        /\ UNCHANGED <<kept, attempts, handed>>
    BY <1>8 DEF Crash, rows
  <2>2. \A q \in Consumer : TakenBy(q)' \subseteq TakenBy(q) /\ look'[q].taken \subseteq look[q].taken
    BY <2>1, Types DEF IInv, TakenBy, Running, Delivered, Idle
  <2> QED
    BY <2>1, <2>2 DEF HInv, HandedBehind, NotYetHanded, ParkedIsNobodys
<1>9. ASSUME NEW c \in Consumer, NEW u \in look[c].taken, Untake(c, u) PROVE HInv'
  <2>1. \A q \in Consumer : TakenBy(q)' \subseteq TakenBy(q) /\ look'[q].taken \subseteq look[q].taken
                          /\ u \notin TakenBy(q)'
    BY <1>9, UntakeFacts
  <2>2. UNCHANGED <<kept, handed>>
        /\ (attempts' = attempts \/ (RowOf(u) /\ attempts' = [attempts EXCEPT ![u.of] = @ - 1]))
    BY <1>9 DEF Untake
  <2>3. NotYetHanded'
    BY <2>1, <2>2 DEF HInv, NotYetHanded
  <2>4. CASE attempts' = attempts
    BY <2>1, <2>2, <2>3, <2>4 DEF HInv, HandedBehind, ParkedIsNobodys
  <2>5. CASE RowOf(u) /\ attempts' = [attempts EXCEPT ![u.of] = @ - 1]
    <3>1. u \in TakenBy(c) /\ u.of \in Message /\ attempts[u.of] = u.attempt /\ u.attempt \in Nat
          /\ <<u.of, u.attempt>> \notin handed
      BY <1>2, <1>3, <2>5 DEF RowOf, Mine, HInv, NotYetHanded
    <3>2. attempts'[u.of] = u.attempt - 1 /\ \A m \in Message \ {u.of} : attempts'[m] = attempts[m]
      BY <1>1, <2>5, <3>1
    <3>3. HandedBehind'
      <4> SUFFICES ASSUME NEW m \in Message, NEW a \in Nat, <<m, a>> \in handed PROVE a <= attempts'[m]
        BY <2>2 DEF HandedBehind
      <4>1. a <= attempts[m]
        BY DEF HInv, HandedBehind
      <4>2. CASE m = u.of
        <5>1. a # u.attempt
          BY <3>1, <4>2
        <5> QED
          BY <3>1, <3>2, <4>1, <4>2, <5>1
      <4>3. CASE m # u.of
        BY <3>2, <4>1, <4>3
      <4> QED
        BY <4>2, <4>3
    <3>4. kept[u.of] # "dead"
      BY <3>1 DEF HInv, ParkedIsNobodys
    <3>5. ParkedIsNobodys'
      BY <1>2, <2>1, <2>2, <3>2, <3>4 DEF HInv, ParkedIsNobodys
    <3> QED
      BY <2>3, <3>3, <3>5 DEF HInv
  <2> QED
    BY <2>2, <2>4, <2>5
<1>10. ASSUME NEW c \in Consumer, NEW d \in out[c], Settle(c, d) PROVE HInv'
  <2>1. /\ d \in OutType /\ Running(c)' = Running(c) \ {Delivered(d)}
        /\ \A p \in Consumer \ {c} : Running(p)' = Running(p)
        /\ \A p \in Consumer : look'[p].taken = look[p].taken
    BY <1>10, SettleFacts
  <2>2. /\ Delivered(d) \in TakenBy(c) /\ Delivered(d).of = d.of /\ Delivered(d).attempt = d.attempt
        /\ d.of \in Message /\ Delivered(d) \in Running(c)
    BY <2>1, Takes DEF IInv, TakenBy, OutType
  <2>3. /\ \A q \in Consumer : TakenBy(q)' \subseteq TakenBy(q)
        /\ Delivered(d) \notin TakenBy(c)'
    BY <2>1, <2>2 DEF TakenBy, IInv, NoSharedAttempt
  <2>4. /\ UNCHANGED <<attempts, handed>>
        /\ \/ kept' = kept
           \/ RowOf(d) /\ kept' = [kept EXCEPT ![d.of] = "gone"]
           \/ RowOf(d) /\ kept' = [kept EXCEPT ![d.of] = "dead"]
    BY <1>10 DEF Settle, Kept, rows
  <2>5. NotYetHanded'
    <3>1. \A m \in Message : kept'[m] = "unpublished" => kept[m] = "unpublished"
      BY <1>1, <2>4
    <3>2. \A q \in Consumer : \A t \in look'[q].taken : t \in look[q].taken /\ t.of \in Message
      BY <1>2, <1>3, <2>1
    <3> QED
      BY <2>4, <3>1, <3>2 DEF HInv, NotYetHanded
  <2>6. ParkedIsNobodys'
    <3> SUFFICES ASSUME NEW q \in Consumer, NEW t \in TakenBy(q)', kept'[t.of] = "dead"
                 PROVE  t.attempt # attempts[t.of]
      BY <2>4 DEF ParkedIsNobodys
    <3>1. t \in TakenBy(q) /\ t.of \in Message
      BY <1>2, <2>3
    <3>2. CASE kept[t.of] = "dead"
      BY <3>1, <3>2 DEF HInv, ParkedIsNobodys
    <3>3. CASE kept[t.of] # "dead"
      <4>1. t.of = d.of /\ RowOf(d)
        BY <1>1, <2>4, <3>1, <3>3
      <4>2. d.attempt = attempts[d.of]
        BY <4>1 DEF RowOf, Mine
      <4> SUFFICES ASSUME t.attempt = attempts[t.of] PROVE FALSE
        OBVIOUS
      <4>3. t = Delivered(d) /\ q = c
        BY <2>2, <3>1, <4>1, <4>2, OneHasTheRow
      <4> QED
        BY <2>3, <4>3
    <3> QED
      BY <3>2, <3>3
  <2> QED
    BY <2>4, <2>5, <2>6 DEF HInv, HandedBehind
<1> QED
  BY <1>4, <1>5, <1>6, <1>7, <1>8, <1>9, <1>10, Steps

(* What is in flight, as Delivery sees it. *)
LEMMA InFlight ==
    \A x : x \in Deliveries <=> \E c \in Consumer : \E t \in Running(c) : x = <<t.of, t.attempt>>
<1>1. \A x : x \in Deliveries <=> \E c \in Consumer : \E d \in out[c] : x = <<d.of, d.attempt>>
  BY DEF Deliveries
<1>2. \A c \in Consumer : \A x :
        (\E d \in out[c] : x = <<d.of, d.attempt>>) <=> \E t \in Running(c) : x = <<t.of, t.attempt>>
  <2>1. \A d : Delivered(d).of = d.of /\ Delivered(d).attempt = d.attempt
    BY DEF Delivered
  <2> QED
    BY <2>1 DEF Running
<1> QED
  BY <1>1, <1>2

LEMMA InFlightNext ==
    \A x : x \in Deliveries' <=> \E c \in Consumer : \E t \in Running(c)' : x = <<t.of, t.attempt>>
<1>1. \A x : x \in Deliveries' <=> \E c \in Consumer : \E d \in out'[c] : x = <<d.of, d.attempt>>
  BY DEF Deliveries
<1>2. \A c \in Consumer : \A x :
        (\E d \in out'[c] : x = <<d.of, d.attempt>>) <=> \E t \in Running(c)' : x = <<t.of, t.attempt>>
  <2>1. \A d : Delivered(d).of = d.of /\ Delivered(d).attempt = d.attempt
    BY DEF Delivered
  <2>2. \A c \in Consumer : Running(c)' = {Delivered(d) : d \in out'[c]}
    BY DEF Running, Delivered
  <2> QED
    BY <2>1, <2>2
<1> QED
  BY <1>1, <1>2

LEMMA SameInFlight ==
    ASSUME \A c \in Consumer : Running(c)' = Running(c)
    PROVE  Deliveries' = Deliveries
BY InFlight, InFlightNext

LEMMA InitRefines == Init => Abstract!Init
<1>1. Init => \A c \in Consumer : Running(c) = {}
  BY DEF Init, Running
<1>2. Init => Deliveries = {}
  BY <1>1, InFlight
<1> QED
  BY <1>2 DEF Init, Abstract!Init

(* Each step is one of Delivery's, or none. *)
LEMMA StepRefines == ASSUME IInv, HInv, [Next]_vars PROVE [Abstract!Next]_(Abstract!vars)
<1>1. CASE Resting
  BY <1>1, SameInFlight DEF Resting, Abstract!vars
<1>2. ASSUME NEW m \in Message, Publish(m) PROVE Abstract!Next
  <2>1. Deliveries' = Deliveries
    BY <1>2, SameInFlight DEF Publish, Running, Delivered
  <2>2. handed' = handed /\ kept[m] = "unpublished" /\ kept' = [kept EXCEPT ![m] = "kept"]
    BY <1>2 DEF Publish
  <2>3. Abstract!HandsOut(Deliveries)
    BY <2>1, <2>2 DEF Abstract!HandsOut
  <2> QED
    BY <2>2, <2>3 DEF Abstract!Publish, Abstract!Next
<1>3. ASSUME NEW c \in Consumer, TakeDue(c) \/ \E t \in look[c].taken : Untake(c, t)
      PROVE  UNCHANGED Abstract!vars
  <2>1. UNCHANGED <<kept, handed, out>>
    BY <1>3 DEF TakeDue, Untake
  <2> QED
    BY <2>1, SameInFlight DEF Running, Delivered, Abstract!vars
<1>4. ASSUME NEW c \in Consumer, HandOut(c) PROVE Abstract!Next
  <2> DEFINE new == {<<t.of, t.attempt>> : t \in look[c].taken}
  <2>1. /\ Running(c)' = Running(c) \cup look[c].taken
        /\ \A p \in Consumer \ {c} : out'[p] = out[p]
    BY <1>4, HandOutFacts
  <2>2. handed' = handed \cup new /\ kept' = kept
    BY <1>4 DEF HandOut, rows
  <2>3. \A t \in look[c].taken : /\ <<t.of, t.attempt>> \notin handed /\ kept[t.of] # "unpublished"
                                /\ t.of \in Message /\ t.attempt \in Nat
    BY Takes DEF HInv, NotYetHanded, IInv, Take
  <2>4. handed' \ handed = new
    BY <2>2, <2>3
  <2>5. \A p \in Consumer \ {c} : Running(p)' = Running(p)
    BY <2>1 DEF Running, Delivered
  <2>6. Deliveries' = Deliveries \cup new
    BY <2>1, <2>5, InFlight, InFlightNext
  <2>7. Abstract!HandsOut(Deliveries)
    BY <2>2, <2>3, <2>4, <2>6 DEF Abstract!HandsOut
  <2> QED
    BY <2>2, <2>7 DEF Abstract!HandOut, Abstract!Next
<1>5. ASSUME NEW c \in Consumer, Crash(c) PROVE Abstract!Next
  <2>1. out' = [out EXCEPT ![c] = {}] /\ UNCHANGED <<kept, handed>>
    BY <1>5 DEF Crash, rows
  <2>2. \A q \in Consumer : Running(q)' \subseteq Running(q)
    BY <2>1, Types DEF IInv, Running, Delivered
  <2>3. Deliveries' \subseteq Deliveries
    BY <2>2, InFlight, InFlightNext
  <2> QED
    BY <2>1, <2>3 DEF Abstract!Die, Abstract!Next
<1>6. ASSUME NEW c \in Consumer, NEW d \in out[c], Settle(c, d) PROVE Abstract!Next
  <2> DEFINE x == <<d.of, d.attempt>>
  <2>1. /\ d \in OutType /\ Running(c)' = Running(c) \ {Delivered(d)}
        /\ \A p \in Consumer \ {c} : Running(p)' = Running(p)
    BY <1>6, SettleFacts
  <2>2. /\ Delivered(d) \in TakenBy(c) /\ Delivered(d).of = d.of /\ Delivered(d).attempt = d.attempt
        /\ d.of \in Message /\ d.attempt \in Nat /\ Delivered(d) \in Running(c)
    BY <2>1, Takes DEF IInv, TakenBy, OutType
  <2>3. x \in Deliveries
    BY <2>2, InFlight
  <2>4. \A q \in Consumer : \A t \in Running(q) : x = <<t.of, t.attempt>> => q = c /\ t = Delivered(d)
    <3> SUFFICES ASSUME NEW q \in Consumer, NEW t \in Running(q), t.of = d.of, t.attempt = d.attempt
                 PROVE  q = c /\ t = Delivered(d)
      OBVIOUS
    <3>1. t \in Take /\ t \in TakenBy(q)
      BY Takes DEF IInv, TakenBy
    <3>2. t = Delivered(d)
      BY <3>1, <2>1 DEF Take, Delivered, OutType
    <3> QED
      BY <2>2, <3>1, <3>2 DEF IInv, NoSharedAttempt
  <2>5. Deliveries' = Deliveries \ {x}
    <3>1. \A y : y \in Deliveries' => y \in Deliveries /\ y # x
      BY <2>1, <2>4, InFlight, InFlightNext
    <3>2. \A y : y \in Deliveries /\ y # x => y \in Deliveries'
      BY <2>1, <2>2, InFlight, InFlightNext
    <3> QED
      BY <3>1, <3>2
  <2>6. handed' = handed
    BY <1>6 DEF Settle
  <2>7. Abstract!HandsOut(Deliveries \ {x})
    BY <2>5, <2>6 DEF Abstract!HandsOut
  <2>8. \/ kept' = kept
        \/ RowOf(d) /\ d.at = "ack" /\ kept' = [kept EXCEPT ![d.of] = "gone"]
        \/ RowOf(d) /\ d.at = "dead" /\ kept' = [kept EXCEPT ![d.of] = "dead"]
    BY <1>6 DEF Settle, Kept, rows
  <2>9. RowOf(d) => Abstract!Latest(x) /\ kept[x[1]] = "kept"
    <3> SUFFICES ASSUME RowOf(d) PROVE Abstract!Latest(x) /\ kept[d.of] = "kept"
      OBVIOUS
    <3>1. d.attempt = attempts[d.of] /\ kept[d.of] \in {"kept", "dead"}
      BY DEF RowOf, Mine
    <3>2. kept[d.of] # "dead"
      BY <2>2, <3>1 DEF HInv, ParkedIsNobodys
    <3>3. handed \in SUBSET (Message \X Nat)
      BY Types DEF IInv
    <3>4. Abstract!Latest(x)
      BY <3>1, <3>3 DEF Abstract!Latest, HInv, HandedBehind
    <3> QED
      BY <3>1, <3>2, <3>4
  <2>10. Abstract!Answer(x)
    BY <2>3, <2>7, <2>8, <2>9 DEF Abstract!Answer
  <2> QED
    BY <2>3, <2>10 DEF Abstract!Next
<1> QED
  BY <1>1, <1>2, <1>3, <1>4, <1>5, <1>6, Steps

(* The table broker keeps what @queue's Broker promises (brokers.ts): at   *)
(* least once, each delivery an attempt of its own, and no answer counts   *)
(* but that of the latest one handed out.                                  *)
THEOREM KeepsThePromise == Spec => ImplementsDelivery
<1>1. Init => IInv /\ HInv /\ Abstract!Init
  BY InitIInv, InitHInv, InitRefines
<1>2. IInv /\ HInv /\ [Next]_vars => [Abstract!Next]_(Abstract!vars)
  BY StepRefines
<1> QED
  BY <1>1, <1>2, NextIInv, NextHInv, PTL DEF Spec, ImplementsDelivery, Abstract!Spec
====
