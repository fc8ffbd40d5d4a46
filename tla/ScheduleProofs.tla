---------------------------- MODULE ScheduleProofs ----------------------------
(***************************************************************************)
(* What holds of one trigger's schedulers, however many processes share the*)
(* lease, whatever their clocks, and for any bounds: proofs about Schedule.*)
(***************************************************************************)
EXTENDS Schedule, FiniteSetTheorems, TLAPS

(* A process asks for a tick just when it awaits a reply.                  *)
AskedIsAwaited == \A p \in Process : asked[p] = NoTick <=> reply[p] = "none"

(* Ticks are asked for in order: what is in flight, or kept back, came     *)
(* before the one being asked for, and before the one due next.            *)
AskedInOrder ==
    \A p \in Process :
        /\ asked[p] <= due[p]
        /\ \A t \in Tick : runs[p][t] # "none" \/ waiting[p] = t =>
              t < due[p] /\ (reply[p] # "none" => t < asked[p])

(* Unless the trigger is concurrent, no two runs are in flight.            *)
AtMostOne ==
    overlap # "concurrent" =>
        \A p \in Process : \A t, u \in Tick :
            runs[p][t] # "none" /\ runs[p][u] # "none" => t = u

(* A tick kept back has a run in flight to wait for, or its process stops. *)
WaitsForARun ==
    \A p \in Process : waiting[p] # NoTick =>
        /\ overlap = "wait"
        /\ stage[p] = "up" => /\ \E t \in Tick : runs[p][t] # "none"
                              /\ runs[p][waiting[p]] = "none"

(* A process that is down does nothing.                                    *)
DownIsEmpty ==
    \A p \in Process : stage[p] = "down" => reply[p] = "none" /\ \A t \in Tick : runs[p][t] = "none"

IInv == TypeOK /\ AskedIsAwaited /\ AskedInOrder /\ AtMostOne /\ WaitsForARun /\ DownIsEmpty

-----------------------------------------------------------------------------
LEMMA TickType == LastTick \in Nat \ {0} /\ Tick \subseteq Nat /\ NoTick \notin Tick
BY BoundsAssumption DEF Tick, NoTick

LEMMA InitIInv == Init => IInv
<1> SUFFICES ASSUME Init PROVE IInv
  OBVIOUS
<1>1. TypeOK
  BY BoundsAssumption DEF Init, TypeOK, NoRuns, Tick
<1>2. AskedIsAwaited /\ AskedInOrder /\ AtMostOne /\ WaitsForARun /\ DownIsEmpty
  BY TickType DEF Init, AskedIsAwaited, AskedInOrder, AtMostOne, WaitsForARun, DownIsEmpty, NoRuns, NoTick
<1> QED
  BY <1>1, <1>2 DEF IInv

(* The steps that leave the loop, and what it keeps, alone. *)
LEMMA KeeperOnly ==
    ASSUME IInv, UNCHANGED <<overlap, stage, loop, kept>>, TypeOK'
    PROVE  IInv'
BY DEF IInv, loop, kept, AskedIsAwaited, AskedInOrder, AtMostOne, WaitsForARun, DownIsEmpty

(* A tick that was judged is asked for no more. *)
LEMMA AskedType ==
    ASSUME IInv, NEW p \in Process, Asked(p), reply[p] # "none"
    PROVE  /\ due' \in [Process -> 1 .. (LastTick + 1)]
           /\ asked' \in [Process -> Tick \cup {NoTick}]
           /\ reply' \in [Process -> {"none", "reading", "sent", "granted"}]
           /\ asked[p] \in Tick /\ asked[p] < due'[p] /\ asked'[p] = NoTick /\ reply'[p] = "none"
           /\ \A q \in Process : due[q] <= due'[q] /\ due[q] \in Nat /\ due'[q] \in Nat
           /\ \A q \in Process \ {p} : due'[q] = due[q] /\ asked'[q] = asked[q] /\ reply'[q] = reply[q]
<1>1. /\ due \in [Process -> 1 .. (LastTick + 1)] /\ asked \in [Process -> Tick \cup {NoTick}]
      /\ reply \in [Process -> {"none", "reading", "sent", "granted"}]
  BY DEF IInv, TypeOK
<1>2. asked[p] \in Tick /\ asked[p] <= due[p]
  BY <1>1 DEF IInv, AskedIsAwaited, AskedInOrder
<1>3. LastTick \in Nat /\ Tick = 1 .. LastTick
  BY BoundsAssumption DEF Tick
<1>4. CASE asked[p] = due[p]
  BY <1>1, <1>2, <1>3, <1>4 DEF Asked, Judged, NoTick
<1>5. CASE asked[p] # due[p]
  BY <1>1, <1>2, <1>3, <1>5 DEF Asked, Judged, NoTick
<1> QED
  BY <1>4, <1>5

(* A tick let go. *)
LEMMA LetGo ==
    ASSUME IInv, TypeOK', NEW p \in Process, Asked(p), reply[p] # "none",
           UNCHANGED <<overlap, stage, runs, waiting>>
    PROVE  IInv'
<1>1. /\ asked[p] \in Tick /\ asked[p] < due'[p] /\ asked'[p] = NoTick /\ reply'[p] = "none"
      /\ \A q \in Process : due[q] <= due'[q] /\ due[q] \in Nat /\ due'[q] \in Nat
      /\ \A q \in Process \ {p} : due'[q] = due[q] /\ asked'[q] = asked[q] /\ reply'[q] = reply[q]
  BY AskedType
<1>2. AskedIsAwaited'
  BY <1>1 DEF IInv, AskedIsAwaited
<1>3. AskedInOrder'
  <2> SUFFICES ASSUME NEW q \in Process
               PROVE  /\ asked'[q] <= due'[q]
                      /\ \A t \in Tick : runs[q][t] # "none" \/ waiting[q] = t =>
                            t < due'[q] /\ (reply'[q] # "none" => t < asked'[q])
    BY DEF AskedInOrder
  <2>1. CASE q = p
    BY <1>1, <2>1, TickType DEF IInv, AskedInOrder, NoTick
  <2>2. CASE q # p
    BY <1>1, <2>2 DEF IInv, AskedInOrder
  <2> QED
    BY <2>1, <2>2
<1>4. AtMostOne' /\ WaitsForARun'
  BY DEF IInv, AtMostOne, WaitsForARun
<1>5. DownIsEmpty'
  BY <1>1 DEF IInv, DownIsEmpty
<1> QED
  BY <1>2, <1>3, <1>4, <1>5 DEF IInv

LEMMA AcquireIInv == ASSUME IInv, NEW p \in Process, Acquire(p) PROVE IInv'
<1>1. CASE Asked(p) /\ UNCHANGED <<holder, lapsed>>
  <2>1. reply[p] # "none"
    BY DEF Acquire
  <2>2. TypeOK'
    BY <1>1, <2>1, AskedType DEF IInv, TypeOK, Acquire, kept, bounds
  <2> QED
    BY <1>1, <2>1, <2>2, LetGo DEF Acquire, kept
<1>2. CASE holder' = p /\ lapsed' = FALSE /\ reply' = [reply EXCEPT ![p] = "granted"] /\ UNCHANGED <<due, asked>>
  <2>2. TypeOK'
    BY <1>2 DEF IInv, TypeOK, Acquire, kept, bounds
  <2> QED
    BY <1>2, <2>2
    DEF IInv, TypeOK, Acquire, kept, AskedIsAwaited, AskedInOrder, AtMostOne, WaitsForARun, DownIsEmpty
<1> QED
  BY <1>1, <1>2 DEF Acquire

LEMMA AcquireFailsIInv == ASSUME IInv, NEW p \in Process, AcquireFails(p) PROVE IInv'
<1>1. reply[p] # "none"
  BY DEF AcquireFails
<1>2. failures' \in 0 .. MaxFaults
  BY BoundsAssumption DEF AcquireFails, IInv, TypeOK
<1>3. TypeOK'
  BY <1>1, <1>2, AskedType DEF IInv, TypeOK, AcquireFails, kept, row
<1> QED
  BY <1>1, <1>3, LetGo DEF AcquireFails, kept

LEMMA RenewIInv == ASSUME IInv, NEW p \in Process, NEW t \in Tick, Renew(p, t) PROVE IInv'
<1>1. TypeOK'
  BY DEF IInv, TypeOK, Renew, loop, kept, bounds
<1> QED
  BY <1>1, KeeperOnly DEF Renew

LEMMA LapseIInv == ASSUME IInv, Lapse PROVE IInv'
<1>1. failures' \in 0 .. MaxFaults
  BY BoundsAssumption DEF Lapse, IInv, TypeOK
<1>2. TypeOK'
  BY <1>1 DEF IInv, TypeOK, Lapse, loop, kept
<1> QED
  BY <1>2, KeeperOnly DEF Lapse

LEMMA ReachIInv == ASSUME IInv, NEW p \in Process, Reach(p) PROVE IInv'
<1>1. due[p] \in Tick /\ Tick \subseteq Nat /\ NoTick \notin Tick
  BY TickType DEF Reach, IInv, TypeOK, Tick
<1>2. TypeOK'
  BY <1>1 DEF IInv, TypeOK, Reach, row, kept, bounds
<1>3. AskedIsAwaited'
  BY <1>1 DEF IInv, TypeOK, AskedIsAwaited, Reach
<1>4. AskedInOrder'
  <2> SUFFICES ASSUME NEW q \in Process
               PROVE  /\ asked'[q] <= due[q]
                      /\ \A t \in Tick : runs[q][t] # "none" \/ waiting[q] = t =>
                            t < due[q] /\ (reply'[q] # "none" => t < asked'[q])
    BY DEF AskedInOrder, Reach, kept
  <2>1. CASE q = p
    BY <1>1, <2>1 DEF IInv, TypeOK, AskedInOrder, Reach
  <2>2. CASE q # p
    BY <2>2 DEF IInv, TypeOK, AskedInOrder, Reach
  <2> QED
    BY <2>1, <2>2
<1>5. AtMostOne' /\ WaitsForARun' /\ DownIsEmpty'
  BY DEF IInv, TypeOK, AtMostOne, WaitsForARun, DownIsEmpty, Reach, kept
<1> QED
  BY <1>2, <1>3, <1>4, <1>5 DEF IInv

(* Starting a run of t, where the runs left are among those there were, and *)
(* none of them is left unless the trigger is concurrent.                  *)
LEMMA RunType ==
    ASSUME IInv, NEW p \in Process, NEW t \in Tick,
           NEW runsNow \in [Tick -> {"none", "running", "marked", "released"}],
           Run(p, t, runsNow)
    PROVE  /\ runs' \in [Process -> [Tick -> {"none", "running", "marked", "released"}]]
           /\ fires' \in [Process -> [Tick -> Nat]]
           /\ latest' \in [Process -> Tick \cup {NoTick}]
           /\ runs'[p] = [runsNow EXCEPT ![t] = "running"]
           /\ \A q \in Process \ {p} : runs'[q] = runs[q]
<1>1. /\ runs \in [Process -> [Tick -> {"none", "running", "marked", "released"}]]
      /\ fires \in [Process -> [Tick -> Nat]] /\ latest \in [Process -> Tick \cup {NoTick}]
  BY DEF IInv, TypeOK
<1>2. [runsNow EXCEPT ![t] = "running"] \in [Tick -> {"none", "running", "marked", "released"}]
  OBVIOUS
<1>3. [fires[p] EXCEPT ![t] = @ + 1] \in [Tick -> Nat]
  BY <1>1
<1>4. fires' = [fires EXCEPT ![p] = [fires[p] EXCEPT ![t] = @ + 1]]
  BY DEF Run
<1>5. fires' \in [Process -> [Tick -> Nat]]
  BY <1>1, <1>3, <1>4
<1>6. latest' \in [Process -> Tick \cup {NoTick}]
  BY <1>1 DEF Run
<1> QED
  BY <1>1, <1>2, <1>5, <1>6 DEF Run

LEMMA TakenIInv == ASSUME IInv, NEW p \in Process, Taken(p) PROVE IInv'
<1> DEFINE t == asked[p]
<1>1. reply[p] = "granted" /\ Asked(p)
  BY DEF Taken
<1>2. /\ t \in Tick /\ t < due'[p] /\ asked'[p] = NoTick /\ reply'[p] = "none"
      /\ \A q \in Process : due[q] <= due'[q] /\ due[q] \in Nat /\ due'[q] \in Nat
      /\ \A q \in Process \ {p} : due'[q] = due[q] /\ asked'[q] = asked[q] /\ reply'[q] = reply[q]
      /\ due' \in [Process -> 1 .. (LastTick + 1)]
      /\ asked' \in [Process -> Tick \cup {NoTick}]
      /\ reply' \in [Process -> {"none", "reading", "sent", "granted"}]
  BY <1>1, AskedType
<1>3. loose' \in SUBSET Tick
  BY <1>2 DEF Taken, IInv, TypeOK
<1>4. runs[p] \in [Tick -> {"none", "running", "marked", "released"}]
  BY DEF IInv, TypeOK
<1>5. AskedIsAwaited'
  BY <1>2 DEF IInv, AskedIsAwaited
<1>6. stage[p] # "down"
  BY <1>1 DEF IInv, DownIsEmpty
<1>7. \A u \in Tick : runs[p][u] # "none" \/ waiting[p] = u => u < t
  BY <1>1 DEF IInv, AskedInOrder
<1>8. t \in Nat /\ due'[p] \in Nat /\ \A u \in Tick : u \in Nat
  BY <1>2, TickType
<1>a. CASE RunsNow(p) /\ Run(p, t, runs[p]) /\ UNCHANGED waiting
  <2>1. /\ runs' \in [Process -> [Tick -> {"none", "running", "marked", "released"}]]
        /\ fires' \in [Process -> [Tick -> Nat]]
        /\ latest' \in [Process -> Tick \cup {NoTick}]
        /\ runs'[p] = [runs[p] EXCEPT ![t] = "running"]
        /\ \A q \in Process \ {p} : runs'[q] = runs[q]
    BY <1>a, <1>2, <1>4, RunType
  <2>2. TypeOK'
    BY <1>2, <1>3, <1>a, <2>1 DEF IInv, TypeOK, Taken, row, bounds
  <2>3. AskedInOrder'
    <3> SUFFICES ASSUME NEW q \in Process
                 PROVE  /\ asked'[q] <= due'[q]
                        /\ \A u \in Tick : runs'[q][u] # "none" \/ waiting[q] = u =>
                              u < due'[q] /\ (reply'[q] # "none" => u < asked'[q])
      BY <1>a DEF AskedInOrder
    <3>1. CASE q = p
      <4>1. \A u \in Tick : runs'[p][u] # "none" => u = t \/ runs[p][u] # "none"
        BY <2>1, <1>4
      <4> QED
        BY <1>2, <1>7, <4>1, <3>1, TickType DEF NoTick
    <3>2. CASE q # p
      BY <1>2, <2>1, <3>2 DEF IInv, AskedInOrder
    <3> QED
      BY <3>1, <3>2
  <2>4. overlap # "concurrent" => \A u \in Tick : runs[p][u] = "none"
    BY <1>a DEF RunsNow, InFlight
  <2>5. AtMostOne'
    <3>1. overlap' = overlap
      BY DEF Taken
    <3> QED
      BY <1>4, <2>1, <2>4, <3>1 DEF IInv, AtMostOne
  <2>6. waiting[p] # NoTick => overlap = "wait"
    BY DEF IInv, WaitsForARun
  <2>7. WaitsForARun'
    <3> SUFFICES ASSUME NEW q \in Process, waiting[q] # NoTick
                 PROVE  /\ overlap = "wait"
                        /\ stage[q] = "up" => /\ \E u \in Tick : runs'[q][u] # "none"
                                              /\ runs'[q][waiting[q]] = "none"
      BY <1>a DEF WaitsForARun, Taken
    <3>1. CASE q = p
      <4>1. stage[p] # "up"
        BY <2>4, <2>6, <3>1 DEF IInv, WaitsForARun
      <4> QED
        BY <2>6, <3>1, <4>1
    <3>2. CASE q # p
      BY <2>1, <3>2 DEF IInv, WaitsForARun
    <3> QED
      BY <3>1, <3>2
  <2>8. DownIsEmpty'
    BY <1>2, <1>6, <1>a, <2>1 DEF IInv, DownIsEmpty, Taken
  <2> QED
    BY <2>2, <1>5, <2>3, <2>5, <2>7, <2>8 DEF IInv
<1>b. CASE ~RunsNow(p) /\ KeepsBack(p) /\ waiting' = [waiting EXCEPT ![p] = t] /\ UNCHANGED <<runs, latest, fires>>
  <2>2. TypeOK'
    BY <1>2, <1>3, <1>b DEF IInv, TypeOK, Taken, row, bounds
  <2>3. AskedInOrder'
    <3> SUFFICES ASSUME NEW q \in Process
                 PROVE  /\ asked'[q] <= due'[q]
                        /\ \A u \in Tick : runs[q][u] # "none" \/ waiting'[q] = u =>
                              u < due'[q] /\ (reply'[q] # "none" => u < asked'[q])
      BY <1>b DEF AskedInOrder
    <3>1. CASE q = p
      <4>1. waiting'[p] = t /\ t <= due'[p] /\ reply'[p] = "none" /\ asked'[p] <= due'[p]
        BY <1>2, <1>8, <1>b DEF NoTick, IInv, TypeOK
      <4>2. \A u \in Tick : runs[p][u] # "none" => u < due'[p]
        BY <1>2, <1>7, <1>8
      <4> QED
        BY <1>2, <3>1, <4>1, <4>2
    <3>2. CASE q # p
      BY <1>2, <1>b, <3>2 DEF IInv, TypeOK, AskedInOrder
    <3> QED
      BY <3>1, <3>2
  <2>4. AtMostOne'
    BY <1>b DEF IInv, AtMostOne, Taken
  <2>5. WaitsForARun'
    <3>1. overlap = "wait" /\ \E u \in Tick : runs[p][u] # "none"
      BY <1>b DEF RunsNow, KeepsBack, InFlight
    <3>2. runs[p][t] = "none"
      <4> SUFFICES ASSUME runs[p][t] # "none" PROVE FALSE
        OBVIOUS
      <4>1. t < t
        BY <1>2, <1>7
      <4> QED
        BY <4>1, <1>8
    <3>3. waiting'[p] = t /\ \A q \in Process \ {p} : waiting'[q] = waiting[q]
      BY <1>b DEF IInv, TypeOK
    <3> QED
      BY <1>b, <3>1, <3>2, <3>3 DEF IInv, WaitsForARun, Taken
  <2>6. DownIsEmpty'
    BY <1>2, <1>6, <1>b DEF IInv, TypeOK, DownIsEmpty, Taken
  <2> QED
    BY <2>2, <1>5, <2>3, <2>4, <2>5, <2>6 DEF IInv
<1>c. CASE ~RunsNow(p) /\ ~KeepsBack(p) /\ UNCHANGED kept
  <2>1. TypeOK'
    BY <1>2, <1>3, <1>c DEF IInv, TypeOK, Taken, row, bounds, kept
  <2> QED
    BY <1>1, <2>1, <1>c, LetGo DEF Taken, kept
<1> QED
  BY <1>a, <1>b, <1>c DEF Taken

(* The steps of one run towards its end. *)
LEMMA RunMoves ==
    ASSUME IInv, TypeOK', NEW p \in Process, NEW t \in Tick, runs[p][t] # "none",
           NEW is \in {"marked", "released"}, runs' = [runs EXCEPT ![p][t] = is],
           UNCHANGED <<overlap, stage, loop, waiting>>
    PROVE  IInv'
<1>1. runs \in [Process -> [Tick -> {"none", "running", "marked", "released"}]]
  BY DEF IInv, TypeOK
<1>2. \A q \in Process : \A u \in Tick : runs'[q][u] = "none" <=> runs[q][u] = "none"
  BY <1>1
<1> QED
  BY <1>2 DEF IInv, TypeOK, loop, AskedIsAwaited, AskedInOrder, AtMostOne, WaitsForARun, DownIsEmpty

LEMMA MarkFiredIInv == ASSUME IInv, NEW p \in Process, NEW t \in Tick, MarkFired(p, t) PROVE IInv'
<1>1. runs' \in [Process -> [Tick -> {"none", "running", "marked", "released"}]]
  BY DEF IInv, TypeOK, MarkFired, At
<1>2. TypeOK'
  BY <1>1 DEF IInv, TypeOK, MarkFired, Greatest, loop, bounds
<1> QED
  BY <1>2, RunMoves DEF MarkFired, At

LEMMA ReleaseIInv == ASSUME IInv, NEW p \in Process, NEW t \in Tick, Release(p, t) PROVE IInv'
<1>1. runs' \in [Process -> [Tick -> {"none", "running", "marked", "released"}]]
  BY DEF IInv, TypeOK, Release, At
<1>2. TypeOK'
  BY <1>1 DEF IInv, TypeOK, Release, loop, bounds
<1> QED
  BY <1>2, RunMoves DEF Release, At

LEMMA SettleFailsIInv == ASSUME IInv, NEW p \in Process, NEW t \in Tick, SettleFails(p, t) PROVE IInv'
<1>1. runs' \in [Process -> [Tick -> {"none", "running", "marked", "released"}]]
  BY DEF IInv, TypeOK, SettleFails
<1>2. failures' \in 0 .. MaxFaults
  BY BoundsAssumption DEF SettleFails, IInv, TypeOK
<1>3. TypeOK'
  BY <1>1, <1>2 DEF IInv, TypeOK, SettleFails, loop, row
<1> QED
  BY <1>3, RunMoves DEF SettleFails

LEMMA RunOverIInv == ASSUME IInv, NEW p \in Process, NEW t \in Tick, RunOver(p, t) PROVE IInv'
<1> DEFINE rest == [runs[p] EXCEPT ![t] = "none"]
           w == waiting[p]
<1>1. /\ rest \in [Tick -> {"none", "running", "marked", "released"}]
      /\ runs \in [Process -> [Tick -> {"none", "running", "marked", "released"}]]
      /\ waiting \in [Process -> Tick \cup {NoTick}]
      /\ runs[p][t] = "released" /\ UNCHANGED <<overlap, row, stage, loop, loose, bounds>>
  BY DEF IInv, TypeOK, RunOver
<1>2. AskedIsAwaited'
  BY <1>1 DEF IInv, AskedIsAwaited, loop
<1>3. stage[p] # "down"
  BY <1>1 DEF IInv, DownIsEmpty
<1>a. CASE StartsWaiting(p, t) /\ Run(p, w, rest) /\ waiting' = [waiting EXCEPT ![p] = NoTick]
  <2>1. w \in Tick
    BY <1>1, <1>a DEF StartsWaiting
  <2>2. /\ runs' \in [Process -> [Tick -> {"none", "running", "marked", "released"}]]
        /\ fires' \in [Process -> [Tick -> Nat]]
        /\ latest' \in [Process -> Tick \cup {NoTick}]
        /\ runs'[p] = [rest EXCEPT ![w] = "running"]
        /\ \A q \in Process \ {p} : runs'[q] = runs[q]
    BY <1>1, <1>a, <2>1, RunType
  <2>3. TypeOK'
    BY <1>1, <1>a, <2>2 DEF IInv, TypeOK, row, loop, bounds
  <2>4. \A u \in Tick : runs'[p][u] # "none" => u = w
    <3>1. \A u \in Tick : runs[p][u] # "none" <=> u = t
      BY <1>a DEF StartsWaiting, InFlight
    <3> QED
      BY <1>1, <2>2, <3>1
  <2>5. AskedInOrder'
    <3> SUFFICES ASSUME NEW q \in Process
                 PROVE  /\ asked[q] <= due[q]
                        /\ \A u \in Tick : runs'[q][u] # "none" \/ waiting'[q] = u =>
                              u < due[q] /\ (reply[q] # "none" => u < asked[q])
      BY <1>1 DEF AskedInOrder, loop
    <3>1. CASE q = p
      BY <1>1, <1>a, <2>4, <3>1, TickType DEF IInv, AskedInOrder
    <3>2. CASE q # p
      BY <1>1, <1>a, <2>2, <3>2 DEF IInv, AskedInOrder
    <3> QED
      BY <3>1, <3>2
  <2>6. AtMostOne'
    <3> SUFFICES ASSUME overlap # "concurrent", NEW q \in Process, NEW u \in Tick, NEW v \in Tick,
                        runs'[q][u] # "none", runs'[q][v] # "none"
                 PROVE  u = v
      BY <1>1 DEF AtMostOne
    <3>1. CASE q = p
      BY <2>4, <3>1
    <3>2. CASE q # p
      BY <2>2, <3>2 DEF IInv, AtMostOne
    <3> QED
      BY <3>1, <3>2
  <2>7. waiting'[p] = NoTick /\ \A q \in Process \ {p} : waiting'[q] = waiting[q]
    BY <1>1, <1>a
  <2>8. WaitsForARun'
    BY <1>1, <2>2, <2>7 DEF IInv, WaitsForARun
  <2>9. DownIsEmpty'
    BY <1>1, <1>3, <2>2 DEF IInv, DownIsEmpty, loop
  <2> QED
    BY <1>2, <2>3, <2>5, <2>6, <2>8, <2>9 DEF IInv
<1>b. CASE ~StartsWaiting(p, t) /\ runs' = [runs EXCEPT ![p][t] = "none"] /\ UNCHANGED <<waiting, latest, fires>>
  <2>1. /\ runs' \in [Process -> [Tick -> {"none", "running", "marked", "released"}]]
        /\ \A u \in Tick : runs'[p][u] = IF u = t THEN "none" ELSE runs[p][u]
        /\ \A q \in Process \ {p} : runs'[q] = runs[q]
    BY <1>1, <1>b
  <2>2. TypeOK'
    BY <1>1, <1>b, <2>1 DEF IInv, TypeOK, row, loop, bounds
  <2>3. AskedInOrder' /\ AtMostOne' /\ DownIsEmpty'
    BY <1>1, <1>b, <2>1 DEF IInv, AskedInOrder, AtMostOne, DownIsEmpty, loop
  <2>4. waiting[p] # NoTick /\ stage[p] = "up" => \E u \in Tick : u # t /\ runs[p][u] # "none"
    BY <1>1, <1>3, <1>b DEF StartsWaiting, InFlight, IInv, TypeOK
  <2>5. WaitsForARun'
    <3> SUFFICES ASSUME NEW q \in Process, waiting[q] # NoTick
                 PROVE  /\ overlap = "wait"
                        /\ stage[q] = "up" => /\ \E u \in Tick : runs'[q][u] # "none"
                                              /\ runs'[q][waiting[q]] = "none"
      BY <1>1, <1>b DEF WaitsForARun
    <3>1. CASE q = p
      BY <1>1, <2>1, <2>4, <3>1 DEF IInv, WaitsForARun
    <3>2. CASE q # p
      BY <2>1, <3>2 DEF IInv, WaitsForARun
    <3> QED
      BY <3>1, <3>2
  <2> QED
    BY <1>2, <2>2, <2>3, <2>5 DEF IInv
<1> QED
  BY <1>a, <1>b DEF RunOver

LEMMA StopIInv == ASSUME IInv, NEW p \in Process, Stop(p) PROVE IInv'
<1>1. TypeOK'
  BY DEF IInv, TypeOK, Stop, InFlight, row, loop, kept, bounds
<1>2. /\ stage \in [Process -> {"up", "stopping", "down"}]
      /\ stage[p] = "up" /\ stage' = [stage EXCEPT ![p] = "stopping"]
      /\ UNCHANGED <<overlap, loop, kept>>
  BY DEF IInv, TypeOK, Stop
<1> QED
  BY <1>1, <1>2 DEF IInv, loop, kept, AskedIsAwaited, AskedInOrder, AtMostOne, WaitsForARun, DownIsEmpty

LEMMA StoppedIInv == ASSUME IInv, NEW p \in Process, Stopped(p) PROVE IInv'
<1>1. TypeOK'
  BY DEF IInv, TypeOK, Stopped, row, loop, kept, bounds
<1>2. /\ stage \in [Process -> {"up", "stopping", "down"}]
      /\ stage' = [stage EXCEPT ![p] = "down"] /\ UNCHANGED <<overlap, loop, kept>>
      /\ reply[p] = "none" /\ \A t \in Tick : runs[p][t] = "none"
  BY DEF IInv, TypeOK, Stopped, Drained, InFlight
<1> QED
  BY <1>1, <1>2 DEF IInv, loop, kept, AskedIsAwaited, AskedInOrder, AtMostOne, WaitsForARun, DownIsEmpty

LEMMA CrashIInv == ASSUME IInv, NEW p \in Process, Crash(p) PROVE IInv'
<1>0. crashes' \in 0 .. MaxFaults
  BY BoundsAssumption DEF Crash, IInv, TypeOK
<1>a. TypeOK'
  BY <1>0 DEF IInv, TypeOK, Crash, Afresh, NoRuns
<1>1. /\ stage'[p] = "down" /\ waiting'[p] = NoTick /\ asked'[p] = NoTick /\ reply'[p] = "none"
      /\ \A u \in Tick : runs'[p][u] = "none"
      /\ \A q \in Process \ {p} : /\ stage'[q] = stage[q] /\ waiting'[q] = waiting[q]
                                   /\ asked'[q] = asked[q] /\ reply'[q] = reply[q]
                                   /\ runs'[q] = runs[q]
  BY DEF Crash, Afresh, IInv, TypeOK, NoRuns
<1>2. due[p] \in Nat /\ due' = due /\ overlap' = overlap
  BY BoundsAssumption DEF Crash, IInv, TypeOK
<1>3. AskedInOrder'
  BY <1>1, <1>2, TickType DEF IInv, AskedInOrder, NoTick
<1>4. AskedIsAwaited' /\ AtMostOne' /\ WaitsForARun' /\ DownIsEmpty'
  BY <1>1, <1>2 DEF IInv, AskedIsAwaited, AtMostOne, WaitsForARun, DownIsEmpty
<1> QED
  BY <1>a, <1>3, <1>4 DEF IInv

LEMMA StartIInv == ASSUME IInv, NEW p \in Process, Start(p) PROVE IInv'
<1>1. PICK now \in (due[p] - 1) .. LastTick :
          /\ due' = [due EXCEPT ![p] = now + 1]
          /\ \/ now = 0 /\ UNCHANGED <<asked, reply>>
             \/ now > 0 /\ \E catchUp \in BOOLEAN :
                   /\ reply' = [reply EXCEPT ![p] = IF catchUp THEN "reading" ELSE "none"]
                   /\ asked' = [asked EXCEPT ![p] = IF catchUp THEN now ELSE NoTick]
  BY DEF Start
<1>2. /\ starts' \in 0 .. MaxStarts
      /\ due[p] \in 1 .. (LastTick + 1) /\ now \in Nat /\ now + 1 \in 1 .. (LastTick + 1)
      /\ now > 0 => now \in Tick
  BY BoundsAssumption, <1>1 DEF Start, IInv, TypeOK, Tick
<1>3. reply[p] = "none" /\ asked[p] = NoTick
  BY DEF Start, IInv, DownIsEmpty, AskedIsAwaited
<1>4. /\ stage' = [stage EXCEPT ![p] = "up"]
      /\ UNCHANGED <<overlap, lapsed, lastFired, fires, loose, crashes, failures>>
      /\ runs' \in [Process -> [Tick -> {"none", "running", "marked", "released"}]]
      /\ waiting' \in [Process -> Tick \cup {NoTick}] /\ latest' \in [Process -> Tick \cup {NoTick}]
      /\ holder' \in Process \cup {Nobody, Former}
      /\ waiting'[p] = NoTick /\ \A u \in Tick : runs'[p][u] = "none"
      /\ \A q \in Process \ {p} : waiting'[q] = waiting[q] /\ runs'[q] = runs[q] /\ stage'[q] = stage[q]
  BY DEF Start, Afresh, IInv, TypeOK, NoRuns
<1>5. /\ asked' \in [Process -> Tick \cup {NoTick}]
      /\ reply' \in [Process -> {"none", "reading", "sent", "granted"}]
      /\ \A q \in Process \ {p} : asked'[q] = asked[q] /\ reply'[q] = reply[q]
      /\ \/ asked'[p] = NoTick /\ reply'[p] = "none"
         \/ asked'[p] = now /\ now > 0 /\ reply'[p] = "reading"
  <2>1. /\ asked \in [Process -> Tick \cup {NoTick}]
        /\ reply \in [Process -> {"none", "reading", "sent", "granted"}]
    BY DEF IInv, TypeOK
  <2>2. CASE now = 0 /\ UNCHANGED <<asked, reply>>
    BY <1>3, <2>1, <2>2
  <2>3. ASSUME now > 0, NEW catchUp \in BOOLEAN,
               reply' = [reply EXCEPT ![p] = IF catchUp THEN "reading" ELSE "none"],
               asked' = [asked EXCEPT ![p] = IF catchUp THEN now ELSE NoTick]
        PROVE  /\ asked' \in [Process -> Tick \cup {NoTick}]
               /\ reply' \in [Process -> {"none", "reading", "sent", "granted"}]
               /\ \A q \in Process \ {p} : asked'[q] = asked[q] /\ reply'[q] = reply[q]
               /\ \/ asked'[p] = NoTick /\ reply'[p] = "none"
                  \/ asked'[p] = now /\ now > 0 /\ reply'[p] = "reading"
    BY <1>2, <2>1, <2>3
  <2> QED
    BY <1>1, <2>2, <2>3
<1>6. TypeOK'
  BY <1>1, <1>2, <1>4, <1>5 DEF IInv, TypeOK
<1>7. AskedIsAwaited'
  BY <1>2, <1>5, TickType DEF IInv, AskedIsAwaited
<1>8. due'[p] = now + 1 /\ \A q \in Process \ {p} : due'[q] = due[q]
  BY <1>1 DEF IInv, TypeOK
<1>9. AskedInOrder'
  <2> SUFFICES ASSUME NEW q \in Process
               PROVE  /\ asked'[q] <= due'[q]
                      /\ \A u \in Tick : runs'[q][u] # "none" \/ waiting'[q] = u =>
                            u < due'[q] /\ (reply'[q] # "none" => u < asked'[q])
    BY DEF AskedInOrder
  <2>1. CASE q = p
    <3>1. asked'[p] <= due'[p]
      BY <1>2, <1>5, <1>8 DEF NoTick
    <3>2. \A u \in Tick : runs'[p][u] = "none" /\ waiting'[p] # u
      BY <1>4, TickType
    <3> QED
      BY <2>1, <3>1, <3>2
  <2>2. CASE q # p
    BY <1>4, <1>5, <1>8, <2>2 DEF IInv, AskedInOrder
  <2> QED
    BY <2>1, <2>2
<1>10. AtMostOne' /\ WaitsForARun'
  <2>1. AtMostOne'
    BY <1>4 DEF IInv, AtMostOne
  <2>2. WaitsForARun'
    <3> SUFFICES ASSUME NEW q \in Process, waiting'[q] # NoTick
                 PROVE  /\ overlap = "wait"
                        /\ stage'[q] = "up" => /\ \E u \in Tick : runs'[q][u] # "none"
                                               /\ runs'[q][waiting'[q]] = "none"
      BY <1>4 DEF WaitsForARun
    <3>1. /\ waiting[q] # NoTick
          /\ waiting'[q] = waiting[q] /\ runs'[q] = runs[q] /\ stage'[q] = stage[q]
      BY <1>4
    <3> QED
      BY <3>1 DEF IInv, WaitsForARun
  <2> QED
    BY <2>1, <2>2
<1>11. stage'[p] = "up"
  BY <1>4 DEF IInv, TypeOK
<1>12. DownIsEmpty'
  BY <1>4, <1>5, <1>11 DEF IInv, DownIsEmpty
<1> QED
  BY <1>6, <1>7, <1>9, <1>10, <1>12 DEF IInv

LEMMA CatchUpIInv == ASSUME IInv, NEW p \in Process, CatchUp(p) PROVE IInv'
<1>1. TypeOK'
  <2>1. /\ asked' \in [Process -> Tick \cup {NoTick}]
        /\ reply' \in [Process -> {"none", "reading", "sent", "granted"}]
        /\ latest' \in [Process -> Tick \cup {NoTick}]
    <3>1. /\ asked \in [Process -> Tick \cup {NoTick}] /\ lastFired \in Tick \cup {NoTick}
          /\ reply \in [Process -> {"none", "reading", "sent", "granted"}]
          /\ latest \in [Process -> Tick \cup {NoTick}]
      BY DEF IInv, TypeOK
    <3> QED
      BY <3>1 DEF CatchUp
  <2> QED
    BY <2>1 DEF IInv, TypeOK, CatchUp, row, bounds
<1>2. /\ reply[p] = "reading" /\ UNCHANGED <<overlap, row, stage, due, runs, waiting, fires, loose, bounds>>
  BY DEF CatchUp
<1>3. /\ \A q \in Process \ {p} : asked'[q] = asked[q] /\ reply'[q] = reply[q]
      /\ \/ asked'[p] = asked[p] /\ reply'[p] = "sent"
         \/ asked'[p] = NoTick /\ reply'[p] = "none"
  BY DEF IInv, TypeOK, CatchUp
<1>4. due[p] \in Nat
  BY BoundsAssumption DEF IInv, TypeOK
<1>5. AskedIsAwaited' /\ AtMostOne' /\ WaitsForARun' /\ DownIsEmpty'
  BY <1>2, <1>3 DEF IInv, AskedIsAwaited, AtMostOne, WaitsForARun, DownIsEmpty
<1>6. AskedInOrder'
  BY <1>2, <1>3, <1>4, TickType DEF IInv, AskedInOrder, NoTick
<1> QED
  BY <1>1, <1>5, <1>6 DEF IInv

LEMMA NextIInv == IInv /\ [Next]_vars => IInv'
<1> SUFFICES ASSUME IInv, [Next]_vars PROVE IInv'
  OBVIOUS
<1>1. CASE UNCHANGED vars
  <2>1. UNCHANGED <<overlap, stage, loop, kept>> /\ TypeOK'
    BY <1>1 DEF vars, row, loop, kept, bounds, IInv, TypeOK
  <2> QED
    BY <2>1, KeeperOnly
<1>2. CASE Lapse
  BY <1>2, LapseIInv
<1>3. ASSUME NEW p \in Process, Keeper(p) PROVE IInv'
  BY <1>3, AcquireIInv, CatchUpIInv, MarkFiredIInv, ReleaseIInv DEF Keeper
<1>4. ASSUME NEW p \in Process, Loop(p) PROVE IInv'
  BY <1>4, ReachIInv, TakenIInv, StopIInv, StoppedIInv, StartIInv DEF Loop
<1>5. ASSUME NEW p \in Process, Runs(p) PROVE IInv'
  BY <1>5, RenewIInv, RunOverIInv DEF Runs
<1>6. ASSUME NEW p \in Process, Fails(p) PROVE IInv'
  BY <1>6, AcquireFailsIInv, SettleFailsIInv, CrashIInv DEF Fails
<1> QED
  BY <1>1, <1>2, <1>3, <1>4, <1>5, <1>6 DEF Next, AtRest

-----------------------------------------------------------------------------
(* Whatever the bounds, the overlap and the processes, the state is typed. *)
THEOREM TypeCorrect == Spec => []TypeOK
<1>1. IInv => TypeOK
  BY DEF IInv
<1> QED
  BY <1>1, InitIInv, NextIInv, PTL DEF Spec

(* Runs of a process do not overlap unless the trigger says so, settling   *)
(* included, and a tick kept back has a run in flight whose end starts it  *)
(* (scheduler.ts:232-241).                                                 *)
THEOREM OneRunAfterAnother == Spec => []OneAfterAnother
<1>1. IInv => OneAfterAnother
  <2> SUFFICES ASSUME IInv, NEW p \in Process
               PROVE  /\ overlap # "concurrent" => Cardinality(InFlight(p)) <= 1
                      /\ waiting[p] # NoTick =>
                            stage[p] # "up" \/ (InFlight(p) # {} /\ waiting[p] \notin InFlight(p))
    BY DEF OneAfterAnother
  <2>1. ASSUME overlap # "concurrent" PROVE Cardinality(InFlight(p)) <= 1
    <3>1. CASE InFlight(p) = {}
      BY <3>1, FS_EmptySet
    <3>2. ASSUME NEW t \in InFlight(p) PROVE Cardinality(InFlight(p)) <= 1
      <4>1. InFlight(p) = {t}
        BY <2>1, <3>2 DEF IInv, AtMostOne, InFlight
      <4>2. Cardinality({t}) = 1
        BY FS_Singleton
      <4> QED
        BY <4>1, <4>2
    <3> QED
      BY <3>1, <3>2
  <2>2. waiting[p] # NoTick => stage[p] # "up" \/ (InFlight(p) # {} /\ waiting[p] \notin InFlight(p))
    BY DEF IInv, WaitsForARun, InFlight
  <2> QED
    BY <2>1, <2>2
<1> QED
  BY <1>1, InitIInv, NextIInv, PTL DEF Spec

-----------------------------------------------------------------------------
(* A process starts a run of a tick it had asked for, or of the one it kept*)
(* back -- and that one only while it is up.                               *)
LEMMA StartsWhatItAsked ==
    ASSUME IInv, [Next]_vars, NEW p \in Process, NEW t \in Tick,
           fires'[p][t] > fires[p][t], stage[p] # "up"
    PROVE  asked[p] = t
<1>1. fires \in [Process -> [Tick -> Nat]] /\ fires[p][t] \in Nat
  BY DEF IInv, TypeOK
<1>2. fires' # fires
  BY <1>1
<1>3. PICK q \in Process : Taken(q) \/ \E u \in Tick : RunOver(q, u)
  BY <1>2 DEF Next, vars, kept, Lapse, AtRest, Keeper, Loop, Runs, Fails, Acquire, CatchUp, MarkFired, Release,
              Reach, Stop, Stopped, Start, Renew, AcquireFails, SettleFails, Crash
<1>4. CASE Taken(q)
  <2>1. Run(q, asked[q], runs[q])
    BY <1>2, <1>4 DEF Taken, kept
  <2>2. fires'[p][t] = fires[p][t] \/ (p = q /\ t = asked[q])
    BY <1>1, <2>1 DEF Run
  <2> QED
    BY <1>1, <2>2
<1>5. ASSUME NEW u \in Tick, RunOver(q, u) PROVE FALSE
  <2>1. StartsWaiting(q, u) /\ Run(q, waiting[q], [runs[q] EXCEPT ![u] = "none"])
    BY <1>2, <1>5 DEF RunOver
  <2>2. fires'[p][t] = fires[p][t] \/ p = q
    BY <1>1, <2>1 DEF Run
  <2> QED
    BY <1>1, <2>1, <2>2 DEF StartsWaiting
<1> QED
  BY <1>3, <1>4, <1>5

(* Stop drains: it answers once no run is in flight and no tick is being   *)
(* asked for, and nothing but a tick already asked for starts from then on *)
(* or meanwhile, the one kept back least of all (scheduler.ts:234-238,     *)
(* 287-293).                                                               *)
THEOREM NothingIsLeftBehind == Spec => StopLeavesNothing
<1>1. IInv /\ IInv' /\ [Next]_vars =>
        [\A p \in Process :
            /\ \A t \in Tick : fires'[p][t] > fires[p][t] /\ stage[p] # "up" => asked[p] = t
            /\ stage'[p] = "down" => InFlight(p)' = {} /\ reply'[p] = "none"]_vars
  <2> SUFFICES ASSUME IInv, IInv', [Next]_vars, NEW p \in Process
               PROVE  /\ \A t \in Tick : fires'[p][t] > fires[p][t] /\ stage[p] # "up" => asked[p] = t
                      /\ stage'[p] = "down" => InFlight(p)' = {} /\ reply'[p] = "none"
    OBVIOUS
  <2>1. \A t \in Tick : fires'[p][t] > fires[p][t] /\ stage[p] # "up" => asked[p] = t
    BY StartsWhatItAsked
  <2>2. stage'[p] = "down" => InFlight(p)' = {} /\ reply'[p] = "none"
    BY DEF IInv, DownIsEmpty, InFlight
  <2> QED
    BY <2>1, <2>2
<1> QED
  BY <1>1, InitIInv, NextIInv, PTL DEF Spec, StopLeavesNothing

-----------------------------------------------------------------------------
(* While no process died and the keeper never failed: a tick whose hold is *)
(* kept up fires once.  What is asked for, and is not loose, is asked for  *)
(* by a process with no run in flight;                                     *)
AskedAlone ==
    \A p \in Process : reply[p] # "none" /\ asked[p] \notin loose =>
        \A t \in Tick : runs[p][t] = "none"

(* a grant keeps the hold, of a tick that nobody fired;                    *)
GrantHolds ==
    \A p \in Process : reply[p] = "granted" /\ asked[p] \notin loose =>
        holder = p /\ ~lapsed /\ \A q \in Process : fires[q][asked[p]] = 0

(* a tick that fired is recorded, or its run keeps the hold;               *)
FiredHolds ==
    \A q \in Process : \A t \in Tick \ loose : fires[q][t] > 0 =>
        lastFired >= t \/ (runs[q][t] = "running" /\ stage[q] = "up" /\ holder = q /\ ~lapsed)

(* a run is marked once its tick is recorded;                              *)
MarkedIsRecorded == \A p \in Process : \A t \in Tick : runs[p][t] = "marked" => lastFired >= t

(* a tick kept back is taken beside a run;                                 *)
KeptBackIsLoose == \A p \in Process : waiting[p] # NoTick => waiting[p] \in loose

(* nothing older is in flight beside a run that keeps the hold;            *)
NothingOlder ==
    \A p \in Process : \A t \in Tick \ loose : \A u \in Tick :
        runs[p][t] = "running" /\ runs[p][u] # "none" => u >= t

(* and no tick fired twice.                                                *)
FiredOnce ==
    \A t \in Tick \ loose : \A p, q \in Process :
        fires[p][t] > 0 /\ fires[q][t] > 0 => p = q /\ fires[p][t] = 1

HeldUp ==
    /\ AskedAlone /\ GrantHolds /\ FiredHolds /\ MarkedIsRecorded
    /\ KeptBackIsLoose /\ NothingOlder /\ FiredOnce

Faultless == crashes = 0 /\ failures = 0

HeldInv == Faultless => HeldUp

-----------------------------------------------------------------------------
LEMMA InitHeldUp == Init => HeldUp
<1> SUFFICES ASSUME Init PROVE HeldUp
  OBVIOUS
<1>1. \A p \in Process : /\ reply[p] = "none" /\ waiting[p] = NoTick
                          /\ \A t \in Tick : runs[p][t] = "none" /\ fires[p][t] = 0
  BY DEF Init, NoRuns
<1> QED
  BY <1>1 DEF HeldUp, AskedAlone, GrantHolds, FiredHolds, MarkedIsRecorded, KeptBackIsLoose, NothingOlder, FiredOnce

(* Of the types, what these proofs need. *)
LEMMA TypeFacts ==
    ASSUME TypeOK
    PROVE  /\ lastFired \in Nat /\ Tick \subseteq Nat /\ NoTick \notin Tick
           /\ fires \in [Process -> [Tick -> Nat]]
           /\ runs \in [Process -> [Tick -> {"none", "running", "marked", "released"}]]
           /\ stage \in [Process -> {"up", "stopping", "down"}]
           /\ asked \in [Process -> Tick \cup {NoTick}]
           /\ reply \in [Process -> {"none", "reading", "sent", "granted"}]
           /\ waiting \in [Process -> Tick \cup {NoTick}]
           /\ lapsed \in BOOLEAN
BY TickType DEF TypeOK, NoTick

(* The keeper grants a process what it asked for: nobody had fired that.   *)
LEMMA AcquireHeldUp == ASSUME IInv, HeldUp, NEW p \in Process, Acquire(p) PROVE HeldUp'
<1>1. /\ reply[p] = "sent" /\ UNCHANGED <<overlap, lastFired, stage, kept, loose, bounds>>
      /\ UNCHANGED <<runs, waiting, fires>>
  BY DEF Acquire, kept
<1>2. asked[p] \in Tick /\ TypeOK
  BY <1>1 DEF IInv, TypeOK, AskedIsAwaited
<1>3. MarkedIsRecorded' /\ KeptBackIsLoose' /\ NothingOlder' /\ FiredOnce'
  BY <1>1 DEF HeldUp, MarkedIsRecorded, KeptBackIsLoose, NothingOlder, FiredOnce
<1>a. CASE Asked(p) /\ UNCHANGED <<holder, lapsed>>
  <2>1. /\ reply'[p] = "none"
        /\ \A q \in Process \ {p} : reply'[q] = reply[q] /\ asked'[q] = asked[q]
    BY <1>1, <1>a, AskedType
  <2>2. AskedAlone' /\ GrantHolds' /\ FiredHolds'
    BY <1>1, <1>a, <2>1 DEF HeldUp, AskedAlone, GrantHolds, FiredHolds
  <2> QED
    BY <1>3, <2>2 DEF HeldUp
<1>b. CASE /\ Grants(p, asked[p]) /\ holder' = p /\ lapsed' = FALSE
           /\ reply' = [reply EXCEPT ![p] = "granted"] /\ UNCHANGED <<due, asked>>
  <2>1. reply'[p] = "granted" /\ \A q \in Process \ {p} : reply'[q] = reply[q]
    BY <1>b, <1>2, TypeFacts
  <2>2. AskedAlone'
    BY <1>1, <1>b, <2>1 DEF HeldUp, AskedAlone
  <2>3. holder = Nobody \/ lapsed \/ holder = p
    BY <1>b DEF Grants
  <2>4. FiredHolds'
    BY <1>1, <1>b, <2>3, ProcessAssumption DEF HeldUp, FiredHolds
  <2>5. ASSUME asked[p] \notin loose, NEW q \in Process PROVE fires[q][asked[p]] = 0
    <3> SUFFICES ASSUME fires[q][asked[p]] > 0 PROVE FALSE
      BY <1>2, TypeFacts
    <3>1. ~(lastFired >= asked[p])
      BY <1>2, <1>b, TypeFacts DEF Grants
    <3>2. runs[q][asked[p]] = "running" /\ holder = q /\ ~lapsed
      BY <1>2, <2>5, <3>1 DEF HeldUp, FiredHolds
    <3>3. q = p
      BY <2>3, <3>2, ProcessAssumption
    <3> QED
      BY <1>1, <1>2, <2>5, <3>2, <3>3 DEF HeldUp, AskedAlone
  <2>6. GrantHolds'
    <3> SUFFICES ASSUME NEW r \in Process, reply'[r] = "granted", asked[r] \notin loose
                 PROVE  holder' = r /\ ~lapsed' /\ \A q \in Process : fires[q][asked[r]] = 0
      BY <1>1, <1>b DEF GrantHolds
    <3>1. CASE r = p
      BY <1>b, <2>5, <3>1
    <3>2. CASE r # p
      BY <2>1, <2>3, <3>2, ProcessAssumption DEF HeldUp, GrantHolds
    <3> QED
      BY <3>1, <3>2
  <2> QED
    BY <1>3, <2>2, <2>4, <2>6 DEF HeldUp
<1> QED
  BY <1>a, <1>b DEF Acquire

(* A renewal is granted to who holds it, or to nobody. *)
LEMMA RenewHeldUp == ASSUME IInv, HeldUp, NEW p \in Process, NEW t \in Tick, Renew(p, t) PROVE HeldUp'
<1>1. /\ UNCHANGED <<asked, reply, lastFired, stage, runs, waiting, fires, loose>>
      /\ holder = Nobody \/ lapsed \/ holder = p
      /\ holder' = p /\ lapsed' = FALSE
  BY DEF Renew, Grants, loop, kept
<1>2. GrantHolds' /\ FiredHolds'
  BY <1>1, ProcessAssumption DEF HeldUp, GrantHolds, FiredHolds
<1> QED
  BY <1>1, <1>2 DEF HeldUp, AskedAlone, MarkedIsRecorded, KeptBackIsLoose, NothingOlder, FiredOnce

(* Without a failure, what lapses is a hold nobody keeps up. *)
LEMMA LapseHeldUp == ASSUME IInv, HeldUp, Faultless, Faultless', Lapse PROVE HeldUp'
<1>1. UNCHANGED <<holder, lastFired, stage, loop, kept, loose>> /\ UNCHANGED <<asked, reply, runs, waiting, fires>>
  BY DEF Lapse, loop, kept
<1>2. failures' # failures + 1
  BY DEF Faultless
<1>3. \A p \in Process : holder = p => ~Renews(p) /\ reply[p] # "granted"
  BY <1>2 DEF Lapse
<1>4. GrantHolds'
  BY <1>1, <1>3 DEF HeldUp, GrantHolds
<1>5. FiredHolds'
  BY <1>1, <1>3 DEF HeldUp, FiredHolds, Renews
<1> QED
  BY <1>1, <1>4, <1>5 DEF HeldUp, AskedAlone, MarkedIsRecorded, KeptBackIsLoose, NothingOlder, FiredOnce

(* What is asked for beside a run is loose. *)
LEMMA ReachHeldUp == ASSUME IInv, HeldUp, NEW p \in Process, Reach(p) PROVE HeldUp'
<1>1. /\ UNCHANGED <<holder, lapsed, lastFired, stage, runs, waiting, fires>>
      /\ loose' = IF InFlight(p) = {} THEN loose ELSE loose \cup {due[p]}
      /\ loose \subseteq loose'
  BY DEF Reach, row, kept
<1>2. /\ reply'[p] = "sent" /\ asked'[p] = due[p]
      /\ \A q \in Process \ {p} : reply'[q] = reply[q] /\ asked'[q] = asked[q]
  BY DEF Reach, IInv, TypeOK
<1>3. AskedAlone'
  BY <1>1, <1>2 DEF HeldUp, AskedAlone, InFlight
<1>4. GrantHolds'
  BY <1>1, <1>2 DEF HeldUp, GrantHolds
<1> QED
  BY <1>1, <1>3, <1>4 DEF HeldUp, FiredHolds, MarkedIsRecorded, KeptBackIsLoose, NothingOlder, FiredOnce

(* What a run that starts adds to what fired. *)
LEMMA RunFires ==
    ASSUME TypeOK, NEW p \in Process, NEW t \in Tick, NEW runsNow, Run(p, t, runsNow)
    PROVE  /\ fires'[p][t] = fires[p][t] + 1
           /\ \A q \in Process : \A u \in Tick : q # p \/ u # t => fires'[q][u] = fires[q][u]
<1>1. fires \in [Process -> [Tick -> Nat]]
  BY DEF TypeOK
<1> QED
  BY <1>1 DEF Run

(* A tick taken is recorded as asked for alone, or is loose. *)
LEMMA TakenHeldUp == ASSUME IInv, HeldUp, NEW p \in Process, Taken(p) PROVE HeldUp'
<1> DEFINE t == asked[p]
<1>1. /\ reply[p] = "granted" /\ Asked(p) /\ UNCHANGED <<holder, lapsed, lastFired, stage>>
      /\ loose' = IF stage[p] = "up" THEN loose ELSE loose \cup {t}
      /\ loose \subseteq loose'
  BY DEF Taken, row
<1>2. /\ t \in Tick /\ reply'[p] = "none"
      /\ \A q \in Process \ {p} : reply'[q] = reply[q] /\ asked'[q] = asked[q]
  BY <1>1, AskedType
<1>3. TypeOK
  BY DEF IInv
<1>4. t \notin loose => /\ \A u \in Tick : runs[p][u] = "none"
                       /\ holder = p /\ ~lapsed /\ \A q \in Process : fires[q][t] = 0
  BY <1>1 DEF HeldUp, AskedAlone, GrantHolds
<1>a. CASE RunsNow(p) /\ Run(p, t, runs[p]) /\ UNCHANGED waiting
  <2>1. /\ runs'[p][t] = "running" /\ \A u \in Tick \ {t} : runs'[p][u] = runs[p][u]
        /\ \A q \in Process \ {p} : runs'[q] = runs[q]
    <3>1. runs[p] \in [Tick -> {"none", "running", "marked", "released"}]
      BY <1>3 DEF TypeOK
    <3>2. runs'[p] = [runs[p] EXCEPT ![t] = "running"] /\ \A q \in Process \ {p} : runs'[q] = runs[q]
      BY <1>a, <1>2, <3>1, RunType
    <3> QED
      BY <1>2, <3>1, <3>2
  <2>2. /\ fires'[p][t] = fires[p][t] + 1
        /\ \A q \in Process : \A u \in Tick : q # p \/ u # t => fires'[q][u] = fires[q][u]
    BY <1>a, <1>2, <1>3, RunFires
  <2>3. AskedAlone'
    BY <1>1, <1>2, <2>1 DEF HeldUp, AskedAlone
  <2>4. GrantHolds'
    <3> SUFFICES ASSUME NEW q \in Process, reply'[q] = "granted", asked'[q] \notin loose'
                 PROVE  holder = q /\ ~lapsed /\ \A r \in Process : fires'[r][asked'[q]] = 0
      BY <1>1 DEF GrantHolds
    <3>1. q # p /\ reply[q] = "granted" /\ asked[q] = asked'[q] /\ asked[q] \notin loose
      BY <1>1, <1>2
    <3>2. holder = q /\ ~lapsed /\ \A r \in Process : fires[r][asked[q]] = 0
      BY <3>1 DEF HeldUp, GrantHolds
    <3>3. asked[q] # t
      BY <1>4, <3>1, <3>2
    <3>4. asked[q] \in Tick
      BY <1>3, <3>1 DEF IInv, TypeOK, AskedIsAwaited
    <3> QED
      BY <2>2, <3>1, <3>2, <3>3, <3>4
  <2>5. FiredHolds'
    <3> SUFFICES ASSUME NEW q \in Process, NEW u \in Tick, u \notin loose', fires'[q][u] > 0
                 PROVE  lastFired >= u \/ (runs'[q][u] = "running" /\ stage[q] = "up" /\ holder = q /\ ~lapsed)
      BY <1>1 DEF FiredHolds
    <3>1. CASE q = p /\ u = t
      BY <1>1, <1>4, <2>1, <3>1
    <3>2. CASE ~(q = p /\ u = t)
      <4>1. fires[q][u] > 0 /\ runs'[q][u] = runs[q][u] /\ u \notin loose
        BY <1>1, <2>1, <2>2, <3>2
      <4> QED
        BY <4>1 DEF HeldUp, FiredHolds
    <3> QED
      BY <3>1, <3>2
  <2>6. MarkedIsRecorded'
    <3> SUFFICES ASSUME NEW q \in Process, NEW u \in Tick, runs'[q][u] = "marked" PROVE lastFired >= u
      BY <1>1 DEF MarkedIsRecorded
    <3>1. runs[q][u] = "marked"
      BY <1>2, <2>1
    <3> QED
      BY <3>1 DEF HeldUp, MarkedIsRecorded
  <2>7. KeptBackIsLoose'
    BY <1>1, <1>a DEF HeldUp, KeptBackIsLoose
  <2>8. NothingOlder'
    <3> SUFFICES ASSUME NEW q \in Process, NEW u \in Tick, u \notin loose', NEW v \in Tick,
                        runs'[q][u] = "running", runs'[q][v] # "none"
                 PROVE  v >= u
      BY DEF NothingOlder
    <3>1. CASE q # p
      BY <1>1, <2>1, <3>1 DEF HeldUp, NothingOlder
    <3>2. CASE q = p /\ u = t
      <4>1. v = t
        BY <1>1, <1>4, <2>1, <3>2
      <4> QED
        BY <3>2, <4>1, <1>3, TypeFacts
    <3>3. CASE q = p /\ u # t /\ v = t
      <4>1. u < t
        BY <1>1, <2>1, <3>3 DEF IInv, AskedInOrder
      <4>2. u \in Nat /\ t \in Nat
        BY <1>2, <1>3, TypeFacts
      <4> QED
        BY <3>3, <4>1, <4>2
    <3>4. CASE q = p /\ u # t /\ v # t
      BY <1>1, <2>1, <3>4 DEF HeldUp, NothingOlder
    <3> QED
      BY <3>1, <3>2, <3>3, <3>4
  <2>9. FiredOnce'
    <3> SUFFICES ASSUME NEW u \in Tick, u \notin loose', NEW q \in Process, NEW r \in Process,
                        fires'[q][u] > 0, fires'[r][u] > 0
                 PROVE  q = r /\ fires'[q][u] = 1
      BY DEF FiredOnce
    <3>1. CASE u = t
      BY <1>1, <1>4, <2>2, <3>1
    <3>2. CASE u # t
      BY <1>1, <2>2, <3>2 DEF HeldUp, FiredOnce
    <3> QED
      BY <3>1, <3>2
  <2> QED
    BY <2>3, <2>4, <2>5, <2>6, <2>7, <2>8, <2>9 DEF HeldUp
<1>b. CASE ~RunsNow(p) /\ UNCHANGED <<runs, latest, fires>>
           /\ (waiting' = [waiting EXCEPT ![p] = t] \/ UNCHANGED waiting)
  <2>1. t \in loose
    BY <1>4, <1>b DEF RunsNow, InFlight
  <2>2. AskedAlone' /\ GrantHolds'
    BY <1>1, <1>2, <1>b DEF HeldUp, AskedAlone, GrantHolds
  <2>3. KeptBackIsLoose'
    BY <1>1, <1>b, <1>3, <2>1, TypeFacts DEF HeldUp, KeptBackIsLoose
  <2> QED
    BY <1>1, <1>b, <2>2, <2>3 DEF HeldUp, FiredHolds, MarkedIsRecorded, NothingOlder, FiredOnce
<1> QED
  BY <1>a, <1>b DEF Taken, kept

LEMMA MarkFiredHeldUp == ASSUME IInv, HeldUp, NEW p \in Process, NEW t \in Tick, MarkFired(p, t) PROVE HeldUp'
<1>1. /\ UNCHANGED <<holder, lapsed, stage, asked, reply, waiting, fires, loose>>
      /\ runs[p][t] = "running"
  BY DEF MarkFired, At, loop
<1>2. TypeOK
  BY DEF IInv
<1>3. /\ runs'[p][t] = "marked"
      /\ \A q \in Process : \A u \in Tick : q # p \/ u # t => runs'[q][u] = runs[q][u]
  BY <1>2, TypeFacts DEF MarkFired, At
<1>4. /\ lastFired' >= lastFired /\ lastFired' >= t /\ lastFired' \in Nat /\ lastFired \in Nat
      /\ \A u \in Tick : u \in Nat
  BY <1>2, TypeFacts DEF MarkFired, Greatest
<1>5. AskedAlone' /\ GrantHolds'
  BY <1>1, <1>3 DEF HeldUp, AskedAlone, GrantHolds
<1>6. FiredHolds'
  BY <1>1, <1>3, <1>4 DEF HeldUp, FiredHolds
<1>7. MarkedIsRecorded'
  BY <1>1, <1>3, <1>4 DEF HeldUp, MarkedIsRecorded
<1>8. NothingOlder'
  BY <1>1, <1>3 DEF HeldUp, NothingOlder
<1> QED
  BY <1>1, <1>5, <1>6, <1>7, <1>8 DEF HeldUp, KeptBackIsLoose, FiredOnce

(* Letting go of a hold: what else that process fired is no newer. *)
LEMMA ReleaseHeldUp == ASSUME IInv, HeldUp, NEW p \in Process, NEW t \in Tick, Release(p, t) PROVE HeldUp'
<1>1. /\ UNCHANGED <<holder, lastFired, stage, asked, reply, waiting, fires, loose>>
      /\ runs[p][t] = "marked" /\ lapsed' = (lapsed \/ holder = p)
  BY DEF Release, At, loop
<1>2. TypeOK
  BY DEF IInv
<1>3. /\ runs'[p][t] = "released"
      /\ \A q \in Process : \A u \in Tick : q # p \/ u # t => runs'[q][u] = runs[q][u]
  BY <1>2, TypeFacts DEF Release, At
<1>4. AskedAlone' /\ MarkedIsRecorded' /\ NothingOlder'
  BY <1>1, <1>3 DEF HeldUp, AskedAlone, MarkedIsRecorded, NothingOlder
<1>5. GrantHolds'
  BY <1>1 DEF HeldUp, AskedAlone, GrantHolds
<1>6. FiredHolds'
  <2> SUFFICES ASSUME NEW q \in Process, NEW u \in Tick, u \notin loose, fires[q][u] > 0, ~(lastFired >= u)
               PROVE  runs'[q][u] = "running" /\ stage[q] = "up" /\ holder = q /\ ~lapsed'
    BY <1>1 DEF FiredHolds
  <2>1. runs[q][u] = "running" /\ stage[q] = "up" /\ holder = q /\ ~lapsed
    BY DEF HeldUp, FiredHolds
  <2>2. q # p
    <3> SUFFICES ASSUME q = p PROVE FALSE
      OBVIOUS
    <3>1. t >= u
      BY <1>1, <2>1 DEF HeldUp, NothingOlder
    <3>2. lastFired >= t
      BY <1>1 DEF HeldUp, MarkedIsRecorded
    <3>3. lastFired \in Nat /\ t \in Nat /\ u \in Nat
      BY <1>2, TypeFacts
    <3> QED
      BY <3>1, <3>2, <3>3
  <2> QED
    BY <1>1, <1>3, <2>1, <2>2
<1> QED
  BY <1>1, <1>4, <1>5, <1>6 DEF HeldUp, KeptBackIsLoose, FiredOnce

(* The tick kept back that starts is a loose one. *)
LEMMA RunOverHeldUp == ASSUME IInv, HeldUp, NEW p \in Process, NEW t \in Tick, RunOver(p, t) PROVE HeldUp'
<1> DEFINE w == waiting[p]
           rest == [runs[p] EXCEPT ![t] = "none"]
<1>1. /\ UNCHANGED <<holder, lapsed, lastFired, stage, asked, reply, loose>>
      /\ runs[p][t] = "released"
  BY DEF RunOver, row, loop
<1>2. TypeOK
  BY DEF IInv
<1>3. rest \in [Tick -> {"none", "running", "marked", "released"}]
  BY <1>2, TypeFacts
<1>a. CASE StartsWaiting(p, t) /\ Run(p, w, rest) /\ waiting' = [waiting EXCEPT ![p] = NoTick]
  <2>1. w \in Tick /\ w \in loose
    BY <1>2, <1>a, TypeFacts DEF StartsWaiting, HeldUp, KeptBackIsLoose
  <2>2. /\ fires'[p][w] = fires[p][w] + 1
        /\ \A q \in Process : \A u \in Tick : q # p \/ u # w => fires'[q][u] = fires[q][u]
    BY <1>2, <1>a, <2>1, RunFires
  <2>3. \A u \in Tick : runs[p][u] # "none" <=> u = t
    BY <1>a DEF StartsWaiting, InFlight
  <2>4. /\ \A u \in Tick : runs'[p][u] = IF u = w THEN "running" ELSE "none"
        /\ \A q \in Process \ {p} : runs'[q] = runs[q]
    <3>1. runs'[p] = [rest EXCEPT ![w] = "running"] /\ \A q \in Process \ {p} : runs'[q] = runs[q]
      BY <1>3, <1>a, <2>1, RunType
    <3>2. \A u \in Tick : rest[u] = "none"
      BY <1>2, <2>3, TypeFacts
    <3> QED
      BY <1>3, <2>1, <3>1, <3>2
  <2>5. AskedAlone'
    <3>1. reply[p] # "none" => asked[p] \in loose
      BY <1>1 DEF HeldUp, AskedAlone
    <3> QED
      BY <1>1, <2>4, <3>1 DEF HeldUp, AskedAlone
  <2>6. GrantHolds'
    <3> SUFFICES ASSUME NEW q \in Process, reply[q] = "granted", asked[q] \notin loose
                 PROVE  holder = q /\ ~lapsed /\ \A r \in Process : fires'[r][asked[q]] = 0
      BY <1>1 DEF GrantHolds
    <3>1. asked[q] \in Tick /\ asked[q] # w
      BY <1>2, <2>1 DEF IInv, TypeOK, AskedIsAwaited
    <3> QED
      BY <2>2, <3>1 DEF HeldUp, GrantHolds
  <2>7. FiredHolds'
    <3> SUFFICES ASSUME NEW q \in Process, NEW u \in Tick, u \notin loose, fires'[q][u] > 0
                 PROVE  lastFired >= u \/ (runs'[q][u] = "running" /\ stage[q] = "up" /\ holder = q /\ ~lapsed)
      BY <1>1 DEF FiredHolds
    <3>1. fires[q][u] > 0
      BY <2>1, <2>2
    <3>2. lastFired >= u \/ (runs[q][u] = "running" /\ stage[q] = "up" /\ holder = q /\ ~lapsed)
      BY <3>1 DEF HeldUp, FiredHolds
    <3>3. CASE q = p
      BY <1>1, <2>3, <3>2, <3>3
    <3>4. CASE q # p
      BY <2>4, <3>2, <3>4
    <3> QED
      BY <3>3, <3>4
  <2>8. MarkedIsRecorded' /\ KeptBackIsLoose'
    BY <1>1, <1>2, <1>a, <2>4, TypeFacts DEF HeldUp, MarkedIsRecorded, KeptBackIsLoose
  <2>9. NothingOlder' /\ FiredOnce'
    BY <1>1, <2>1, <2>2, <2>4 DEF HeldUp, NothingOlder, FiredOnce
  <2> QED
    BY <2>5, <2>6, <2>7, <2>8, <2>9 DEF HeldUp
<1>b. CASE runs' = [runs EXCEPT ![p][t] = "none"] /\ UNCHANGED <<waiting, latest, fires>>
  <2>1. /\ runs'[p][t] = "none"
        /\ \A q \in Process : \A u \in Tick : q # p \/ u # t => runs'[q][u] = runs[q][u]
    BY <1>2, <1>b, TypeFacts
  <2>2. FiredHolds'
    BY <1>1, <1>b, <2>1 DEF HeldUp, FiredHolds
  <2>3. AskedAlone' /\ MarkedIsRecorded' /\ NothingOlder'
    BY <1>1, <2>1 DEF HeldUp, AskedAlone, MarkedIsRecorded, NothingOlder
  <2> QED
    BY <1>1, <1>b, <2>2, <2>3 DEF HeldUp, GrantHolds, KeptBackIsLoose, FiredOnce
<1> QED
  BY <1>a, <1>b DEF RunOver

LEMMA StopHeldUp == ASSUME IInv, HeldUp, NEW p \in Process, Stop(p) PROVE HeldUp'
<1>1. /\ UNCHANGED <<holder, lapsed, lastFired, asked, reply, runs, waiting, fires>>
      /\ loose' = loose \cup InFlight(p) /\ loose \subseteq loose'
      /\ \A q \in Process \ {p} : stage'[q] = stage[q]
  BY DEF Stop, IInv, TypeOK, row, loop, kept
<1>2. FiredHolds'
  BY <1>1 DEF HeldUp, FiredHolds, InFlight
<1> QED
  BY <1>1, <1>2 DEF HeldUp, AskedAlone, GrantHolds, MarkedIsRecorded, KeptBackIsLoose, NothingOlder, FiredOnce

(* A process that stopped held nothing that has yet to be recorded. *)
LEMMA StoppedHeldUp == ASSUME IInv, HeldUp, NEW p \in Process, Stopped(p) PROVE HeldUp'
<1>1. /\ UNCHANGED <<holder, lapsed, lastFired, asked, reply, runs, waiting, fires, loose>>
      /\ stage[p] = "stopping" /\ \A q \in Process \ {p} : stage'[q] = stage[q]
  BY DEF Stopped, IInv, TypeOK, row, loop, kept
<1>2. FiredHolds'
  BY <1>1 DEF HeldUp, FiredHolds
<1> QED
  BY <1>1, <1>2 DEF HeldUp, AskedAlone, GrantHolds, MarkedIsRecorded, KeptBackIsLoose, NothingOlder, FiredOnce

LEMMA StartHeldUp == ASSUME IInv, HeldUp, NEW p \in Process, Start(p) PROVE HeldUp'
<1>1. /\ UNCHANGED <<lapsed, lastFired, fires, loose>> /\ stage[p] = "down" /\ reply[p] = "none"
      /\ holder' = IF holder = p THEN Former ELSE holder
      /\ reply'[p] # "granted"
  BY DEF Start, Afresh, IInv, TypeOK, DownIsEmpty
<1>2. /\ waiting'[p] = NoTick /\ \A u \in Tick : runs'[p][u] = "none"
      /\ \A q \in Process \ {p} : /\ stage'[q] = stage[q] /\ waiting'[q] = waiting[q] /\ runs'[q] = runs[q]
                                   /\ asked'[q] = asked[q] /\ reply'[q] = reply[q]
  BY DEF Start, Afresh, IInv, TypeOK, NoRuns
<1>3. AskedAlone' /\ GrantHolds' /\ FiredHolds'
  BY <1>1, <1>2 DEF HeldUp, AskedAlone, GrantHolds, FiredHolds
<1> QED
  BY <1>1, <1>2, <1>3 DEF HeldUp, MarkedIsRecorded, KeptBackIsLoose, NothingOlder, FiredOnce

LEMMA CatchUpHeldUp == ASSUME IInv, HeldUp, NEW p \in Process, CatchUp(p) PROVE HeldUp'
<1>1. /\ UNCHANGED <<holder, lapsed, lastFired, stage, runs, waiting, fires, loose>>
      /\ reply[p] = "reading"
  BY DEF CatchUp, row
<1>2. /\ \A q \in Process \ {p} : asked'[q] = asked[q] /\ reply'[q] = reply[q]
      /\ reply'[p] # "granted" /\ (reply'[p] # "none" => asked'[p] = asked[p])
  BY DEF CatchUp, IInv, TypeOK
<1>3. AskedAlone' /\ GrantHolds' /\ FiredHolds'
  BY <1>1, <1>2 DEF HeldUp, AskedAlone, GrantHolds, FiredHolds
<1> QED
  BY <1>1, <1>3 DEF HeldUp, MarkedIsRecorded, KeptBackIsLoose, NothingOlder, FiredOnce

LEMMA NextHeldInv == IInv /\ HeldInv /\ [Next]_vars => HeldInv'
<1> SUFFICES ASSUME IInv, HeldInv, [Next]_vars, Faultless' PROVE HeldUp'
  BY DEF HeldInv
<1>1. crashes \in Nat /\ failures \in Nat
  BY BoundsAssumption DEF IInv, TypeOK
<1>a. \A p \in Process : ~Fails(p)
  BY <1>1 DEF Faultless, Fails, AcquireFails, SettleFails, Crash
<1>2. Faultless
  <2>1. crashes' >= crashes /\ failures' >= failures
    <3>1. ASSUME NEW p \in Process, Keeper(p) \/ Loop(p) \/ Runs(p) PROVE UNCHANGED <<crashes, failures>>
      BY <3>1 DEF Keeper, Loop, Runs, bounds, Acquire, CatchUp, MarkFired, Release, Reach, Taken, Stop, Stopped,
                  Start, Renew, RunOver
    <3>2. CASE Lapse \/ AtRest \/ UNCHANGED vars
      BY <1>1, <3>2 DEF Lapse, AtRest, vars, bounds
    <3> QED
      BY <1>1, <1>a, <3>1, <3>2 DEF Next
  <2> QED
    BY <1>1, <2>1 DEF Faultless
<1>3. HeldUp
  BY <1>2 DEF HeldInv
<1>4. CASE UNCHANGED vars
  BY <1>3, <1>4 DEF vars, row, loop, kept, bounds, HeldUp, AskedAlone, GrantHolds, FiredHolds, MarkedIsRecorded,
              KeptBackIsLoose, NothingOlder, FiredOnce
<1>5. CASE Lapse
  BY <1>2, <1>3, <1>5, LapseHeldUp
<1>6. ASSUME NEW p \in Process, Keeper(p) PROVE HeldUp'
  BY <1>3, <1>6, AcquireHeldUp, CatchUpHeldUp, MarkFiredHeldUp, ReleaseHeldUp DEF Keeper
<1>7. ASSUME NEW p \in Process, Loop(p) PROVE HeldUp'
  BY <1>3, <1>7, ReachHeldUp, TakenHeldUp, StopHeldUp, StoppedHeldUp, StartHeldUp DEF Loop
<1>8. ASSUME NEW p \in Process, Runs(p) PROVE HeldUp'
  BY <1>3, <1>8, RenewHeldUp, RunOverHeldUp DEF Runs
<1> QED
  BY <1>4, <1>5, <1>6, <1>7, <1>8, <1>a DEF Next, AtRest

(* A tick fires once, whichever processes reach it and however late their  *)
(* clocks, while no process died, the keeper never failed and the tick's   *)
(* hold was kept up to its end (leases.ts:20-22, RFC 0010:288-291).        *)
THEOREM FiresOnce == Spec => []OnceUnlessLoose
<1>1. ASSUME IInv, HeldInv PROVE OnceUnlessLoose
  <2> SUFFICES ASSUME Faultless, NEW t \in Tick, t \notin loose
               PROVE  Times(t) <= 1 /\ \A p \in Process : fires[p][t] <= 1
    BY DEF OnceUnlessLoose, Faultless
  <2>1. \A p, q \in Process : fires[p][t] > 0 /\ fires[q][t] > 0 => p = q /\ fires[p][t] = 1
    BY <1>1 DEF HeldInv, HeldUp, FiredOnce
  <2>2. \A p \in Process : fires[p][t] \in Nat
    BY <1>1 DEF IInv, TypeOK
  <2>3. \A p \in Process : fires[p][t] <= 1
    BY <2>1, <2>2
  <2> DEFINE firers == {p \in Process : fires[p][t] > 0}
  <2>4. CASE firers = {}
    BY <2>3, <2>4, FS_EmptySet DEF Times
  <2>5. ASSUME NEW p \in firers PROVE Times(t) <= 1
    <3>1. firers = {p}
      BY <2>1, <2>5
    <3>2. Cardinality({p}) = 1
      BY FS_Singleton
    <3> QED
      BY <3>1, <3>2 DEF Times
  <2> QED
    BY <2>3, <2>4, <2>5
<1>2. Init => HeldInv
  BY InitHeldUp DEF HeldInv
<1> QED
  BY <1>1, <1>2, InitIInv, NextIInv, NextHeldInv, PTL DEF Spec
====
