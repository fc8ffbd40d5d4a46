----------------------------- MODULE TimeProofs -----------------------------
(***************************************************************************)
(* What holds of the loop that keeps a schedule, for every tree, reload,   *)
(* zone and lateness, of schedules whose instants are as TickLoop takes    *)
(* them to be, and that what Cron works out is so, for every expression,   *)
(* interval and zone: proofs about TickLoop, and from IsZone on about Cron.*)
(***************************************************************************)
EXTENDS TickLoop, Cron, FiniteSetTheorems, WellFoundedInduction, TLAPS

Modes == {"catchUp", "ticks", "asleep"}

(* What the variables hold: the trees are some there may be, and a pass has*)
(* triggers of the tree it read left.                                      *)
Sane ==
    /\ timezone \in Zones /\ triggers \in Tree /\ read \in Tree
    /\ now \in Instant /\ judging \in Instant /\ judging <= now
    /\ mode \in Modes /\ left \in SUBSET Schedules(read)
    /\ due \in [Name -> Nat \cup {Never}] /\ \A n \in Name : due[n] # Never => StartTime < due[n]
    /\ seededAt \in [Name -> Instant] /\ taken \in [Name -> Seq(Nat)] /\ edited \in [Name -> BOOLEAN]

(* Of a trigger no reload changed the pass read what is there; it is next  *)
(* due at an instant promised, after all those it took.                    *)
TakenSo(n) ==
    due[n] # Never =>
        /\ seededAt[n] < due[n] /\ IsTick(triggers[n], timezone, due[n])
        /\ ToSet(taken[n]) = TicksIn(triggers[n], timezone, seededAt[n], due[n])
        /\ \A i, j \in DOMAIN taken[n] : i < j => taken[n][i] < taken[n][j]

AsRead == \A n \in Name : ~edited[n] => read[n] = triggers[n]

Takes == \A n \in Name : triggers[n] # Absent /\ ~edited[n] => TakenSo(n)

IInv == Sane /\ AsRead /\ Takes

(* As long as nothing is reloaded, the ticks dropped since the last one    *)
(* fired are all there were before the next one due, or, with none due, by *)
(* the end of what is looked at.                                           *)
Upto(n) == IF due[n] = Never THEN EndTime + 1 ELSE due[n]

DropsSo(n) ==
    lastFired[n] # Never =>
        /\ lastFired[n] \in Looked /\ lastFired[n] <= now /\ lastFired[n] < Upto(n)
        /\ dropped[n] = TicksIn(triggers[n], timezone, lastFired[n], Upto(n))
        /\ \A t \in dropped[n] : t <= now

(* While the last ticks before the start are caught up, none since was due.*)
NoneSince(n) ==
    mode = "catchUp" =>
        judging = StartTime /\ StartTime < Upto(n) /\ TicksIn(triggers[n], timezone, StartTime, Upto(n)) = {}

Whole ==
    /\ remembered \in [Name -> Remembered \cup {Never}] /\ reloads \in Nat
    /\ DOMAIN lastFired = Name /\ DOMAIN dropped = Name /\ DOMAIN missed = Name /\ DOMAIN owed = Name

Unchanged == \A n \in Name : ~edited[n]

Drops == \A n \in Name :
    /\ triggers[n] # Absent => DropsSo(n) /\ NoneSince(n)
    /\ missed[n] = owed[n]

DropIInv == IInv /\ Whole /\ (reloads = 0 => Unchanged /\ Drops)

-----------------------------------------------------------------------------
(* The instants.                                                           *)

LEMMA TicksInAre ==
    ASSUME NEW s, NEW z, NEW from \in Int, NEW to \in Int
    PROVE  \A t : t \in TicksIn(s, z, from, to) <=> t \in Int /\ from < t /\ t < to /\ IsTick(s, z, t)
  BY DEF TicksIn

LEMMA KnownIs ==
    ASSUME NEW t \in Tree, NEW n \in Name, t[n] # Absent PROVE t[n] \in Known
  BY DEF Known

(* The next instant, as the loop takes it to be.                           *)
LEMMA NextIs ==
    ASSUME NEW s \in Known, NEW at \in Instant, timezone \in Zones
    PROVE  LET next == NextAfter(s, at) IN
           /\ next \in Nat \cup {Never} /\ Never \notin Nat /\ at \in Nat
           /\ next # Never => at < next /\ IsTick(s, timezone, next) /\ TicksIn(s, timezone, at, next) = {}
           /\ next = Never => TicksIn(s, timezone, at, EndTime + 1) = {}
<1>1. at \in Nat
  BY TimesAssumption DEF Instant
<1>2. CASE TickAfter(s, timezone, at) = Never
  BY <1>1, <1>2, NextAssumption, TimesAssumption DEF NextAfter
<1>3. CASE TickAfter(s, timezone, at) # Never
  BY <1>1, <1>3, NextAssumption, TimesAssumption DEF NextAfter
<1> QED
  BY <1>2, <1>3

LEMMA TreesAre == Firsts \subseteq Tree /\ \A edit \in Edits : edit[2] \in Tree
  BY DEF Tree

LEMMA PlaceIs == ASSUME NEW i \in DOMAIN Names PROVE Names[i] \in Name
  BY DEF Name, ToSet

(* A tick seeded at an instant, and none taken yet.                        *)
LEMMA SeededIs ==
    ASSUME NEW t \in Tree, NEW kept \in [Name -> Nat \cup {Never}], timezone \in Zones, now \in Instant,
           \A n \in Name : kept[n] # Never => StartTime < kept[n]
    PROVE  /\ SeededAt(t, kept) \in [Name -> Nat \cup {Never}]
           /\ \A n \in Name : SeededAt(t, kept)[n] # Never => StartTime < SeededAt(t, kept)[n]
           /\ \A n \in Name \ Seeded(t, kept) : SeededAt(t, kept)[n] = kept[n]
           /\ \A n \in Seeded(t, kept) : /\ t[n] \in Known /\ kept[n] = Never
                                        /\ SeededAt(t, kept)[n] = NextAfter(t[n], now)
<1>1. \A n \in Seeded(t, kept) : n \in Name /\ t[n] \in Known /\ kept[n] = Never
  BY KnownIs DEF Seeded
<1>2. \A n \in Name : SeededAt(t, kept)[n] = IF n \in Seeded(t, kept) THEN NextAfter(t[n], now) ELSE kept[n]
  BY DEF SeededAt
<1>3. ASSUME NEW n \in Seeded(t, kept)
      PROVE  NextAfter(t[n], now) \in Nat \cup {Never} /\ (NextAfter(t[n], now) # Never => StartTime < NextAfter(t[n], now))
  <2>1. /\ NextAfter(t[n], now) \in Nat \cup {Never} /\ now \in Nat
        /\ NextAfter(t[n], now) # Never => now < NextAfter(t[n], now)
    BY <1>1, NextIs
  <2>2. StartTime \in Nat /\ StartTime <= now
    BY TimesAssumption DEF Instant
  <2> QED
    BY <2>1, <2>2
<1>4. \A n \in Name : SeededAt(t, kept)[n] \in Nat \cup {Never}
  BY <1>2, <1>3
<1>5. SeededAt(t, kept) \in [Name -> Nat \cup {Never}]
  BY <1>4 DEF SeededAt
<1> QED
  BY <1>1, <1>2, <1>3, <1>5

LEMMA FreshIsTaken ==
    ASSUME NEW s \in Known, NEW at \in Instant, timezone \in Zones, NextAfter(s, at) # Never
    PROVE  /\ at < NextAfter(s, at) /\ IsTick(s, timezone, NextAfter(s, at))
           /\ ToSet(<<>>) = TicksIn(s, timezone, at, NextAfter(s, at))
           /\ \A i, j \in DOMAIN <<>> : i < j => <<>>[i] < <<>>[j]
<1>1. ToSet(<<>>) = {} /\ \A i \in DOMAIN <<>> : FALSE
  BY DEF ToSet
<1>2. /\ at < NextAfter(s, at) /\ IsTick(s, timezone, NextAfter(s, at))
      /\ TicksIn(s, timezone, at, NextAfter(s, at)) = {}
  BY NextIs
<1> QED
  BY <1>1, <1>2

LEMMA InitIInv == LoopInit => IInv
<1> SUFFICES ASSUME LoopInit PROVE IInv
  OBVIOUS
<1>1. /\ timezone \in Zones /\ triggers \in Tree /\ read = triggers /\ now = StartTime /\ judging = StartTime
      /\ StartTime \in Instant /\ left = Schedules(read) /\ mode \in Modes
  BY TreesAre, TimesAssumption DEF LoopInit, Instant, Modes
<1>2. NoTicks \in [Name -> Nat \cup {Never}] /\ \A n \in Name : NoTicks[n] = Never
  BY DEF NoTicks
<1>3. due = SeededAt(triggers, NoTicks)
  BY DEF LoopInit
<1>4. /\ due \in [Name -> Nat \cup {Never}] /\ \A n \in Name : due[n] # Never => StartTime < due[n]
      /\ \A n \in Seeded(triggers, NoTicks) : triggers[n] \in Known /\ due[n] = NextAfter(triggers[n], StartTime)
  BY <1>1, <1>2, <1>3, SeededIs
<1>5. /\ seededAt = [n \in Name |-> StartTime] /\ taken = [n \in Name |-> <<>>] /\ edited = [n \in Name |-> FALSE]
  BY DEF LoopInit
<1>6. Sane
  BY <1>1, <1>4, <1>5, TimesAssumption DEF Sane
<1>7. Takes
  <2> SUFFICES ASSUME NEW n \in Name, triggers[n] # Absent, due[n] # Never PROVE TakenSo(n)
    BY DEF Takes, TakenSo
  <2>1. n \in Seeded(triggers, NoTicks)
    BY <1>2 DEF Seeded
  <2>2. triggers[n] \in Known /\ due[n] = NextAfter(triggers[n], StartTime)
    BY <1>4, <2>1
  <2>3. taken[n] = <<>> /\ seededAt[n] = StartTime
    BY <1>5
  <2> QED
    BY <1>1, <2>2, <2>3, FreshIsTaken DEF TakenSo
<1> QED
  BY <1>1, <1>6, <1>7 DEF IInv, AsRead

(* Where no trigger's tick, nor what it took, changes, nothing does.       *)
LEMMA TakesAsBefore ==
    ASSUME NEW n, TakenSo(n), UNCHANGED timezone, due'[n] = due[n], taken'[n] = taken[n],
           seededAt'[n] = seededAt[n], triggers'[n] = triggers[n]
    PROVE  TakenSo(n)'
  BY DEF TakenSo

(* One judged and found not to be due, in a pass or at the start.          *)
LEMMA PassesOn ==
    ASSUME IInv, UNCHANGED <<timezone, triggers, mode, read, judging, due, seen>>,
           now' \in Instant, now <= now', left' \in SUBSET left
    PROVE  IInv'
<1>1. Sane'
  <2>1. Schedules(read)' = Schedules(read) /\ left' \in SUBSET Schedules(read)
    BY DEF IInv, Sane, Schedules
  <2>2. judging <= now'
    BY TimesAssumption DEF IInv, Sane, Instant
  <2> QED
    BY <2>1, <2>2 DEF IInv, Sane, seen
<1>2. AsRead'
  BY DEF IInv, AsRead, seen
<1>3. Takes'
  BY TakesAsBefore DEF IInv, Takes, seen
<1> QED
  BY <1>1, <1>2, <1>3 DEF IInv

LEMMA SleepIInv == ASSUME IInv, Sleep PROVE IInv'
<1>1. Sane'
  <2>1. mode' \in Modes /\ left' \in SUBSET Schedules(read)'
    BY DEF IInv, Sane, Sleep, passVars, Modes, Schedules
  <2> QED
    BY <2>1 DEF IInv, Sane, Sleep, passVars, seen
<1>2. AsRead'
  BY DEF IInv, AsRead, Sleep, passVars, seen
<1>3. Takes'
  BY TakesAsBefore DEF IInv, Takes, Sleep, seen
<1> QED
  BY <1>1, <1>2, <1>3 DEF IInv

(* A trigger a reload changes is no longer looked at.                      *)
LEMMA ReloadIInv == ASSUME IInv, Reload PROVE IInv'
<1>1. triggers' \in Tree
  BY TreesAre DEF Reload
<1>2. edited' = [n \in Name |-> edited[n] \/ triggers'[n] # triggers[n]]
  BY DEF Reload
<1>3. edited' \in [Name -> BOOLEAN]
  BY <1>2 DEF IInv, Sane
<1>4. \A n \in Name : ~edited'[n] => ~edited[n] /\ triggers'[n] = triggers[n]
  BY <1>2
<1>5. Sane'
  <2>1. left' \in SUBSET Schedules(read)'
    BY DEF IInv, Sane, Reload, passVars, Schedules
  <2> QED
    BY <1>1, <1>3, <2>1 DEF IInv, Sane, Reload, passVars
<1>6. AsRead'
  BY <1>4 DEF IInv, AsRead, Reload, passVars
<1>7. Takes'
  BY <1>4, TakesAsBefore DEF IInv, Takes, Reload
<1> QED
  BY <1>5, <1>6, <1>7 DEF IInv

(* What is kept of a tree's due ticks.                                     *)
LEMMA KeptIs ==
    ASSUME IInv PROVE
    /\ Kept(triggers) \in [Name -> Nat \cup {Never}]
    /\ \A n \in Name : Kept(triggers)[n] # Never => Kept(triggers)[n] = due[n] /\ StartTime < Kept(triggers)[n]
    /\ \A n \in Name : triggers[n] # Absent => Kept(triggers)[n] = due[n]
  BY DEF IInv, Sane, Kept

(* A pass starts: what is not due yet is from now on.                      *)
LEMMA WakeIs ==
    ASSUME IInv, Wake PROVE
    /\ due' \in [Name -> Nat \cup {Never}] /\ \A n \in Name : due'[n] # Never => StartTime < due'[n]
    /\ \A n \in Name : triggers[n] # Absent /\ due[n] # Never =>
          /\ n \notin Seeded(triggers, Kept(triggers)) /\ due'[n] = due[n]
    /\ \A n \in Name : triggers[n] # Absent /\ due[n] = Never =>
          /\ n \in Seeded(triggers, Kept(triggers)) /\ triggers[n] \in Known /\ due'[n] = NextAfter(triggers[n], now)
<1>1. /\ Kept(triggers) \in [Name -> Nat \cup {Never}]
      /\ \A n \in Name : Kept(triggers)[n] # Never => StartTime < Kept(triggers)[n]
      /\ \A n \in Name : triggers[n] # Absent => Kept(triggers)[n] = due[n]
  BY KeptIs
<1>2. triggers \in Tree /\ timezone \in Zones /\ now \in Instant
  BY DEF IInv, Sane
<1>3. due' = SeededAt(triggers, Kept(triggers))
  BY DEF Wake
<1>4. /\ due' \in [Name -> Nat \cup {Never}] /\ \A n \in Name : due'[n] # Never => StartTime < due'[n]
      /\ \A n \in Name \ Seeded(triggers, Kept(triggers)) : due'[n] = Kept(triggers)[n]
      /\ \A n \in Seeded(triggers, Kept(triggers)) :
            triggers[n] \in Known /\ due'[n] = NextAfter(triggers[n], now)
  BY <1>1, <1>2, <1>3, SeededIs
<1>5. \A n \in Name : n \in Seeded(triggers, Kept(triggers)) <=> triggers[n] # Absent /\ Kept(triggers)[n] = Never
  BY DEF Seeded
<1> QED
  BY <1>1, <1>4, <1>5

LEMMA WakeIInv == ASSUME IInv, Wake PROVE IInv'
<1> DEFINE fresh == Seeded(triggers, Kept(triggers))
<1>1. /\ taken' = [n \in Name |-> IF n \in fresh THEN <<>> ELSE taken[n]]
      /\ seededAt' = [n \in Name |-> IF n \in fresh THEN now ELSE seededAt[n]]
      /\ edited' = [n \in Name |-> edited[n] /\ n \notin fresh]
      /\ UNCHANGED <<timezone, triggers, now>> /\ read' = triggers /\ judging' = now
      /\ left' = Schedules(triggers) /\ mode' \in Modes
  BY DEF Wake, Modes
<1> HIDE DEF fresh
<1>2. Sane'
  <2>1. taken' \in [Name -> Seq(Nat)] /\ seededAt' \in [Name -> Instant] /\ edited' \in [Name -> BOOLEAN]
    BY <1>1 DEF IInv, Sane
  <2>2. left' \in SUBSET Schedules(read)' /\ judging' \in Instant /\ judging' <= now'
    BY <1>1, TimesAssumption DEF IInv, Sane, Schedules, Instant
  <2> QED
    BY <1>1, <2>1, <2>2, WakeIs DEF IInv, Sane
<1>3. AsRead'
  BY <1>1 DEF AsRead
<1>4. Takes'
  <2> SUFFICES ASSUME NEW n \in Name, triggers[n] # Absent, ~edited'[n] PROVE TakenSo(n)'
    BY <1>1 DEF Takes
  <2>1. CASE due[n] # Never
    <3>1. n \notin fresh /\ due'[n] = due[n]
      BY <2>1, WakeIs DEF fresh
    <3>2. ~edited[n] /\ taken'[n] = taken[n] /\ seededAt'[n] = seededAt[n]
      BY <1>1, <3>1
    <3> QED
      BY <1>1, <3>1, <3>2, TakesAsBefore DEF IInv, Takes
  <2>2. CASE due[n] = Never
    <3>1. n \in fresh /\ triggers[n] \in Known /\ due'[n] = NextAfter(triggers[n], now)
      BY <2>2, WakeIs DEF fresh
    <3>2. taken'[n] = <<>> /\ seededAt'[n] = now
      BY <1>1, <3>1
    <3>3. now \in Instant /\ timezone \in Zones
      BY DEF IInv, Sane
    <3>4. due'[n] # Never =>
            /\ now < due'[n] /\ IsTick(triggers[n], timezone, due'[n])
            /\ ToSet(<<>>) = TicksIn(triggers[n], timezone, now, due'[n])
            /\ \A i, j \in DOMAIN <<>> : i < j => <<>>[i] < <<>>[j]
      BY <3>1, <3>3, FreshIsTaken
    <3> QED
      BY <1>1, <3>2, <3>4 DEF TakenSo
  <2> QED
    BY <2>1, <2>2
<1> QED
  BY <1>2, <1>3, <1>4 DEF IInv

(* Of the ticks of a schedule before one it names, and up to the next.     *)
LEMMA TicksInNext ==
    ASSUME NEW s, NEW z, NEW from \in Int, NEW at \in Int, NEW to \in Int,
           from < at, at < to, IsTick(s, z, at), TicksIn(s, z, at, to) = {}
    PROVE  TicksIn(s, z, from, at) \cup {at} = TicksIn(s, z, from, to)
<1>1. \A t \in Int : t \notin TicksIn(s, z, at, to)
  OBVIOUS
<1>2. \A t \in Int : ~(at < t /\ t < to /\ IsTick(s, z, t))
  BY <1>1, TicksInAre
<1>3. \A t : t \in TicksIn(s, z, from, at) <=> t \in Int /\ from < t /\ t < at /\ IsTick(s, z, t)
  BY TicksInAre
<1>4. \A t : t \in TicksIn(s, z, from, to) <=> t \in Int /\ from < t /\ t < to /\ IsTick(s, z, t)
  BY TicksInAre
<1>5. \A t \in Int : t \in TicksIn(s, z, from, at) \cup {at} <=> t \in TicksIn(s, z, from, to)
  BY <1>2, <1>3, <1>4
<1> QED
  BY <1>3, <1>4, <1>5

LEMMA ToSetAppend ==
    ASSUME NEW S, NEW seq \in Seq(S), NEW e PROVE ToSet(Append(seq, e)) = ToSet(seq) \cup {e}
<1>1. \A x : x \in ToSet(Append(seq, e)) <=> x \in ToSet(seq) \cup {e}
  <2> TAKE x
  <2>1. Len(Append(seq, e)) = Len(seq) + 1 /\ Len(seq) \in Nat /\ DOMAIN seq = 1 .. Len(seq)
        /\ DOMAIN Append(seq, e) = 1 .. (Len(seq) + 1)
        /\ Append(seq, e)[Len(seq) + 1] = e /\ \A i \in 1 .. Len(seq) : Append(seq, e)[i] = seq[i]
    OBVIOUS
  <2>2. ASSUME NEW i \in DOMAIN Append(seq, e), x = Append(seq, e)[i] PROVE x \in ToSet(seq) \cup {e}
    BY <2>1, <2>2 DEF ToSet
  <2>3. ASSUME NEW i \in DOMAIN seq, x = seq[i] PROVE \E j \in DOMAIN Append(seq, e) : x = Append(seq, e)[j]
    <3>1. i \in DOMAIN Append(seq, e) /\ Append(seq, e)[i] = seq[i]
      BY <2>1
    <3> QED
      BY <2>3, <3>1
  <2>4. Len(seq) + 1 \in DOMAIN Append(seq, e)
    BY <2>1
  <2> QED
    BY <2>1, <2>2, <2>3, <2>4 DEF ToSet
<1> QED
  BY <1>1

(* A tick that is due, as the pass sees it.                                *)
LEMMA DueIs ==
    ASSUME IInv, NEW i \in left, IsDue(Names[i]) PROVE
    LET n == Names[i] IN
    /\ n \in Name /\ read[n] # Absent /\ read[n] \in Known /\ due[n] \in Instant /\ due[n] \in Nat
    /\ due[n] <= judging /\ due[n] <= now /\ timezone \in Zones
<1> DEFINE n == Names[i]
<1>1. i \in DOMAIN Names /\ read[n] # Absent /\ read \in Tree
  BY DEF IInv, Sane, Schedules
<1>2. n \in Name /\ read[n] \in Known
  BY <1>1, PlaceIs, KnownIs
<1>3. due[n] \in Nat /\ StartTime < due[n] /\ due[n] <= judging
  BY <1>2 DEF IInv, Sane, IsDue
<1>4. judging \in Instant /\ now \in Instant /\ judging <= now /\ timezone \in Zones
  BY DEF IInv, Sane
<1> QED
  BY <1>1, <1>2, <1>3, <1>4, TimesAssumption DEF Instant

LEMMA AdvanceIInv == ASSUME IInv, Advance PROVE IInv'
<1>1. PICK i \in left :
        /\ IsDue(Names[i])
        /\ taken' = [taken EXCEPT ![Names[i]] = Append(@, due[Names[i]])]
        /\ due' = [due EXCEPT ![Names[i]] = NextAfter(read[Names[i]], @)]
  BY DEF Advance
<1> DEFINE n == Names[i]
           next == NextAfter(read[n], due[n])
<1>2. UNCHANGED <<timezone, triggers, now, mode, read, left, judging, seededAt, edited>>
  BY DEF Advance, passVars
<1>3. /\ n \in Name /\ read[n] # Absent /\ read[n] \in Known /\ due[n] \in Instant /\ due[n] \in Nat
      /\ due[n] <= judging /\ due[n] <= now /\ timezone \in Zones
  BY <1>1, DueIs
<1>4. /\ next \in Nat \cup {Never}
      /\ next # Never => due[n] < next /\ IsTick(read[n], timezone, next) /\ TicksIn(read[n], timezone, due[n], next) = {}
  BY <1>3, NextIs
<1>5. /\ due'[n] = next /\ taken'[n] = Append(taken[n], due[n]) /\ taken[n] \in Seq(Nat)
      /\ \A m \in Name : m # n => due'[m] = due[m] /\ taken'[m] = taken[m]
      /\ taken' \in [Name -> Seq(Nat)] /\ due' \in [Name -> Nat \cup {Never}]
  <2>1. taken \in [Name -> Seq(Nat)] /\ due \in [Name -> Nat \cup {Never}] /\ taken[n] \in Seq(Nat)
    BY <1>3 DEF IInv, Sane
  <2>2. Append(taken[n], due[n]) \in Seq(Nat)
    BY <1>3, <2>1
  <2>3. /\ taken' = [taken EXCEPT ![n] = Append(taken[n], due[n])]
        /\ due' = [due EXCEPT ![n] = next]
    BY <1>1
  <2> HIDE DEF n, next
  <2>4. taken' \in [Name -> Seq(Nat)] /\ due' \in [Name -> Nat \cup {Never}]
    BY <1>3, <1>4, <2>1, <2>2, <2>3
  <2> QED
    BY <1>3, <2>1, <2>3, <2>4
<1> HIDE DEF n, next
<1>6. Sane'
  <2>1. \A m \in Name : due'[m] # Never => StartTime < due'[m]
    <3>1. next # Never => StartTime < next
      BY <1>3, <1>4, TimesAssumption DEF Instant
    <3>2. \A m \in Name : due[m] # Never => StartTime < due[m]
      BY DEF IInv, Sane
    <3> QED
      BY <1>5, <3>1, <3>2
  <2>2. left' \in SUBSET Schedules(read)'
    BY <1>2 DEF IInv, Sane, Schedules
  <2> QED
    BY <1>2, <1>5, <2>1, <2>2 DEF IInv, Sane
<1>7. AsRead'
  BY <1>2 DEF IInv, AsRead
<1>8. Takes'
  <2> SUFFICES ASSUME NEW m \in Name, triggers[m] # Absent, ~edited[m] PROVE TakenSo(m)'
    BY <1>2 DEF Takes
  <2>1. CASE m # n
    BY <1>2, <1>5, <2>1, TakesAsBefore DEF IInv, Takes
  <2>2. CASE m = n
    <3> SUFFICES ASSUME next # Never PROVE TakenSo(n)'
      BY <1>5, <2>2 DEF TakenSo
    <3>1. read[n] = triggers[n] /\ due[n] # Never
      BY <1>3, <2>2, TimesAssumption DEF IInv, AsRead
    <3>2. /\ seededAt[n] < due[n] /\ IsTick(triggers[n], timezone, due[n])
          /\ ToSet(taken[n]) = TicksIn(triggers[n], timezone, seededAt[n], due[n])
          /\ \A j, k \in DOMAIN taken[n] : j < k => taken[n][j] < taken[n][k]
      BY <2>2, <3>1 DEF IInv, Takes, TakenSo
    <3>3. seededAt[n] \in Nat
      BY <1>3, TimesAssumption DEF IInv, Sane, Instant
    <3>4. ToSet(taken'[n]) = TicksIn(triggers[n], timezone, seededAt[n], next)
      <4>1. ToSet(taken'[n]) = ToSet(taken[n]) \cup {due[n]}
        BY <1>5, ToSetAppend
      <4>2. TicksIn(triggers[n], timezone, seededAt[n], due[n]) \cup {due[n]}
               = TicksIn(triggers[n], timezone, seededAt[n], next)
        <5>1. seededAt[n] \in Int /\ due[n] \in Int /\ next \in Int
          BY <1>3, <1>4, <3>3
        <5> QED
          BY <1>4, <3>1, <3>2, <5>1, TicksInNext
      <4> QED
        BY <3>2, <4>1, <4>2
    <3>5. \A j, k \in DOMAIN taken'[n] : j < k => taken'[n][j] < taken'[n][k]
      <4> SUFFICES ASSUME NEW j \in DOMAIN taken'[n], NEW k \in DOMAIN taken'[n], j < k
                   PROVE  taken'[n][j] < taken'[n][k]
        OBVIOUS
      <4> DEFINE seq == taken[n]
                 last == due[n]
      <4>1. /\ seq \in Seq(Nat) /\ last \in Nat /\ taken'[n] = Append(seq, last)
            /\ \A a, b \in DOMAIN seq : a < b => seq[a] < seq[b]
        BY <1>3, <1>5, <3>2
      <4>2. \A a \in DOMAIN seq : seq[a] < last
        <5> SUFFICES ASSUME NEW a \in DOMAIN taken[n] PROVE taken[n][a] < due[n]
          OBVIOUS
        <5>1. taken[n][a] \in ToSet(taken[n])
          BY DEF ToSet
        <5>2. seededAt[n] \in Int /\ due[n] \in Int
          BY <1>3, <3>3
        <5> QED
          BY <3>2, <5>1, <5>2, TicksInAre
      <4> HIDE DEF seq, last
      <4>3. j \in 1 .. (Len(seq) + 1) /\ k \in 1 .. (Len(seq) + 1) /\ Len(seq) \in Nat /\ DOMAIN seq = 1 .. Len(seq)
        BY <4>1
      <4>4. j \in DOMAIN seq /\ taken'[n][j] = seq[j]
        BY <4>1, <4>3
      <4>5. CASE k = Len(seq) + 1
        BY <4>1, <4>2, <4>3, <4>4, <4>5
      <4>6. CASE k # Len(seq) + 1
        <5>1. k \in DOMAIN seq /\ taken'[n][k] = seq[k]
          BY <4>1, <4>3, <4>6
        <5> QED
          BY <4>1, <4>4, <5>1
      <4> QED
        BY <4>5, <4>6
    <3>6. seededAt[n] < next
      BY <1>3, <1>4, <3>2, <3>3
    <3> QED
      BY <1>2, <1>4, <1>5, <3>1, <3>4, <3>5, <3>6 DEF TakenSo
  <2> QED
    BY <2>1, <2>2
<1> QED
  BY <1>6, <1>7, <1>8 DEF IInv

LEMMA NextIInv == IInv /\ [LoopNext]_tickVars => IInv'
<1> SUFFICES ASSUME IInv, [LoopNext]_tickVars PROVE IInv'
  OBVIOUS
<1>1. now \in Instant /\ now <= now
  BY TimesAssumption DEF IInv, Sane, Instant
<1>2. CASE CatchUp
  <2>1. left' \in SUBSET left /\ UNCHANGED <<timezone, triggers, now, mode, read, judging, due, seen>>
    BY <1>2 DEF CatchUp
  <2> QED
    BY <1>1, <2>1, PassesOn
<1>3. CASE NoneIsDue
  <2>1. left' \in SUBSET left /\ UNCHANGED <<timezone, triggers, now, mode, read, judging, due, seen>>
    BY <1>3 DEF NoneIsDue
  <2> QED
    BY <1>1, <2>1, PassesOn
<1>4. CASE Clock
  <2>1. now' \in Instant /\ now <= now'
    BY <1>1, <1>4, TimesAssumption DEF Clock, Instant
  <2>2. left' \in SUBSET left /\ UNCHANGED <<timezone, triggers, mode, read, judging, due, seen>>
    BY <1>4 DEF Clock, passVars
  <2> QED
    BY <2>1, <2>2, PassesOn
<1>5. ASSUME NEW n \in Name, RunAnswers(n) PROVE IInv'
  <2>1. left' \in SUBSET left /\ UNCHANGED <<timezone, triggers, now, mode, read, judging, due, seen>>
    BY <1>5 DEF RunAnswers, passVars
  <2> QED
    BY <1>1, <2>1, PassesOn
<1>6. CASE UNCHANGED tickVars
  <2>1. left' \in SUBSET left /\ UNCHANGED <<timezone, triggers, now, mode, read, judging, due, seen>>
    BY <1>6 DEF tickVars, passVars
  <2> QED
    BY <1>1, <2>1, PassesOn
<1> QED
  BY <1>2, <1>3, <1>4, <1>5, <1>6, WakeIInv, AdvanceIInv, SleepIInv, ReloadIInv DEF LoopNext

LEMMA Invariant == LoopSpec => []IInv
<1> QED
  BY InitIInv, NextIInv, PTL DEF LoopSpec

-----------------------------------------------------------------------------
(* For any trees, reloads, zone and lateness: as long as no reload changes *)
(* a trigger, every instant its schedule names between the one its first   *)
(* tick was worked out at and the tick next due has been taken, once and in*)
(* order, and no other (scheduler.ts:178-192).                             *)
THEOREM TicksAreTakenOnce == LoopSpec => []EveryTickOnce
<1>1. IInv => EveryTickOnce
  BY DEF IInv, Takes, TakenSo, EveryTickOnce
<1> QED
  BY <1>1, Invariant, PTL

-----------------------------------------------------------------------------
(* What is said to be missed.                                              *)

LEMMA LookedIs ==
    /\ Looked \in SUBSET Nat /\ Instant \in SUBSET Looked /\ Remembered \in SUBSET Looked
    /\ \A since \in Remembered, t \in Nat : since <= t /\ t <= EndTime => t \in Looked
<1>1. \A since \in {StartTime} \cup Remembered : since \in Nat /\ since <= EndTime /\ since .. EndTime \in SUBSET Nat
  BY TimesAssumption
<1>2. \A t : t \in Looked <=> \E since \in {StartTime} \cup Remembered : t \in since .. EndTime
  BY DEF Looked
<1>3. \A since \in Remembered, t \in Nat : since <= t /\ t <= EndTime => t \in Looked
  BY <1>1, <1>2
<1>4. Looked \in SUBSET Nat
  BY <1>1, <1>2
<1>5. Instant \in SUBSET Looked
  BY <1>2 DEF Instant
<1>6. Remembered \in SUBSET Looked
  BY <1>1, <1>3
<1> QED
  BY <1>3, <1>4, <1>5, <1>6

LEMMA LaterIs ==
    ASSUME NEW at \in Nat, NEW since, since = Never \/ (since \in Nat /\ since < at)
    PROVE  Later(at, since) = at
<1>1. CASE since = Never
  BY <1>1 DEF Later
<1>2. CASE since # Never
  <2>1. since \in Nat /\ since < at
    BY <1>2
  <2>2. at \in {at, since} /\ \A x \in {at, since} : at >= x
    BY <2>1
  <2>3. \A x \in {at, since} : (\A y \in {at, since} : x >= y) => x = at
    BY <2>1
  <2>4. Max({at, since}) = at
    BY <2>2, <2>3 DEF Max
  <2> QED
    BY <1>2, <2>4 DEF Later
<1> QED
  BY <1>1, <1>2

(* A tick that is reached is fired, and what was dropped before it counted,*)
(* or is dropped itself.                                                   *)
LEMMA ReachedIs ==
    ASSUME NEW n \in Name, NEW s \in Known, NEW at \in Looked, NEW since, NEW before, timezone \in Zones, Whole,
           since = Never \/ (since \in Looked /\ since < at /\ before = TicksIn(s, timezone, since, at)),
           Reached(n, s, at, since, before)
    PROVE  /\ \A m \in Name \ {n} : /\ lastFired'[m] = lastFired[m] /\ dropped'[m] = dropped[m]
                                    /\ missed'[m] = missed[m] /\ owed'[m] = owed[m]
           /\ missed[n] = owed[n] => missed'[n] = owed'[n]
           /\ \/ lastFired'[n] = since /\ dropped'[n] = before \cup {at}
              \/ lastFired'[n] = at /\ dropped'[n] = {}
           /\ DOMAIN lastFired' = Name /\ DOMAIN dropped' = Name /\ DOMAIN missed' = Name /\ DOMAIN owed' = Name
<1>1. DOMAIN lastFired = Name /\ DOMAIN dropped = Name /\ DOMAIN missed = Name /\ DOMAIN owed = Name
  BY DEF Whole
<1>2. CASE inFlight[n]
  <2>1. /\ dropped' = [dropped EXCEPT ![n] = before \cup {at}]
        /\ lastFired' = [lastFired EXCEPT ![n] = since] /\ missed' = missed /\ owed' = owed
    BY <1>2 DEF Reached
  <2> QED
    BY <1>1, <2>1
<1>3. CASE ~inFlight[n]
  <2>1. /\ lastFired' = [lastFired EXCEPT ![n] = Later(at, since)] /\ dropped' = [dropped EXCEPT ![n] = {}]
        /\ missed' = [missed EXCEPT ![n] = Missed(s, since, at)]
        /\ owed' = [owed EXCEPT ![n] = IF since = Never THEN 0 ELSE Cardinality(before)]
    BY <1>3 DEF Reached
  <2>2. Later(at, since) = at
    BY LookedIs, LaterIs
  <2>3. Missed(s, since, at) = IF since = Never THEN 0 ELSE Cardinality(before)
    BY BetweenAssumption DEF Missed
  <2> QED
    BY <1>1, <2>1, <2>2, <2>3
<1> QED
  BY <1>2, <1>3

(* None promised after it, the ticks before it and itself are all there    *)
(* were, whether it was fired or not.                                      *)
LEMMA DropsOn ==
    ASSUME NEW n, NEW at \in Looked, NEW since, NEW before, now' \in Nat, at <= now', Upto(n)' \in Nat, at < Upto(n)',
           IsTick(triggers'[n], timezone', at), TicksIn(triggers'[n], timezone', at, Upto(n)') = {},
           since = Never \/ (since \in Looked /\ since < at /\ before = TicksIn(triggers'[n], timezone', since, at)),
           \/ lastFired'[n] = since /\ dropped'[n] = before \cup {at}
           \/ lastFired'[n] = at /\ dropped'[n] = {}
    PROVE  DropsSo(n)'
<1> DEFINE z == timezone'
           s == triggers'[n]
           up == Upto(n)'
           soon == now'
           lf == lastFired'[n]
           dr == dropped'[n]
<1> SUFFICES ASSUME lf # Never
             PROVE  lf \in Looked /\ lf <= soon /\ lf < up /\ dr = TicksIn(s, z, lf, up) /\ \A t \in dr : t <= soon
  BY DEF DropsSo
<1>1. at \in Nat /\ Looked \in SUBSET Nat
  BY LookedIs
<1> HIDE DEF z, s, up, soon, lf, dr
<1>2. CASE lf = at /\ dr = {}
  BY <1>1, <1>2 DEF z, s, up, soon, lf, dr
<1>3. CASE lf = since /\ dr = before \cup {at}
  <2>1. since \in Nat /\ since < at /\ since \in Looked /\ before = TicksIn(s, z, since, at)
    BY <1>1, <1>3 DEF s, z
  <2>2. up \in Nat /\ soon \in Nat /\ at < up /\ at <= soon /\ IsTick(s, z, at) /\ TicksIn(s, z, at, up) = {}
    BY DEF up, s, z, soon
  <2>3. TicksIn(s, z, since, at) \cup {at} = TicksIn(s, z, since, up)
    BY <1>1, <2>1, <2>2, TicksInNext
  <2>4. \A t \in before : t \in Int /\ t < at
    BY <1>1, <2>1, TicksInAre
  <2>5. \A t \in dr : t <= soon
    BY <1>1, <1>3, <2>2, <2>4
  <2> QED
    BY <1>1, <1>3, <2>1, <2>2, <2>3, <2>5
<1> QED
  BY <1>2, <1>3 DEF lf, dr

LEMMA DropsAsBefore ==
    ASSUME NEW n, DropsSo(n), UNCHANGED timezone, triggers'[n] = triggers[n], due'[n] = due[n],
           lastFired'[n] = lastFired[n], dropped'[n] = dropped[n], Upto(n) \in Nat, now \in Nat, now' \in Nat, now <= now'
    PROVE  DropsSo(n)'
<1> SUFFICES ASSUME lastFired[n] # Never PROVE DropsSo(n)'
  BY DEF DropsSo
<1>1. /\ lastFired[n] \in Looked /\ lastFired[n] <= now /\ lastFired[n] < Upto(n)
      /\ dropped[n] = TicksIn(triggers[n], timezone, lastFired[n], Upto(n)) /\ \A t \in dropped[n] : t <= now
  BY DEF DropsSo
<1>2. lastFired[n] \in Nat /\ \A t \in dropped[n] : t \in Int
  <2>1. \A t \in TicksIn(triggers[n], timezone, lastFired[n], Upto(n)) : t \in (lastFired[n] + 1) .. (Upto(n) - 1)
    BY DEF TicksIn
  <2>2. lastFired[n] \in Nat
    BY <1>1, LookedIs
  <2> QED
    BY <1>1, <2>1, <2>2
<1>3. lastFired[n] <= now' /\ \A t \in dropped[n] : t <= now'
  BY <1>1, <1>2
<1>4. Upto(n)' = Upto(n)
  BY DEF Upto
<1> QED
  BY <1>1, <1>3, <1>4 DEF DropsSo

LEMMA NoneAsBefore ==
    ASSUME NEW n, NoneSince(n), UNCHANGED timezone, triggers'[n] = triggers[n], due'[n] = due[n], judging' = judging,
           mode' = mode
    PROVE  NoneSince(n)'
  BY DEF NoneSince, Upto

(* A tick first worked out where none was due is none that was dropped.    *)
LEMMA FreshKeepsDrops ==
    ASSUME NEW n \in Name, IInv, DropsSo(n), triggers[n] \in Known, due[n] = Never, due'[n] = NextAfter(triggers[n], now),
           UNCHANGED <<timezone, triggers, now>>, lastFired'[n] = lastFired[n], dropped'[n] = dropped[n]
    PROVE  DropsSo(n)'
<1> DEFINE z == timezone
           s == triggers[n]
           next == NextAfter(s, now)
           lf == lastFired[n]
<1>1. now \in Nat /\ now \in Instant /\ now <= EndTime /\ EndTime \in Nat /\ timezone \in Zones
  BY TimesAssumption DEF IInv, Sane, Instant
<1>2. CASE next = Never
  <2>1. due'[n] = due[n] /\ triggers'[n] = triggers[n] /\ now' = now /\ Upto(n) \in Nat
    BY <1>1, <1>2 DEF Upto
  <2> QED
    BY <1>1, <2>1, DropsAsBefore
<1>3. CASE next # Never
  <2> SUFFICES ASSUME lf # Never PROVE DropsSo(n)'
    BY DEF DropsSo
  <2>1. /\ lf \in Looked /\ lf <= now /\ dropped[n] = TicksIn(s, z, lf, EndTime + 1) /\ \A t \in dropped[n] : t <= now
    BY DEF DropsSo, Upto
  <2>2. lf \in Nat
    BY <2>1, LookedIs
  <2>3. next \in Nat /\ now < next /\ TicksIn(s, z, now, next) = {}
    BY <1>1, <1>3, NextIs
  <2> HIDE DEF z, s, next, lf
  <2>4. \A t : t \in TicksIn(s, z, lf, EndTime + 1) <=> t \in Int /\ lf < t /\ t < EndTime + 1 /\ IsTick(s, z, t)
    BY <1>1, <2>2, TicksInAre
  <2>5. \A t : t \in TicksIn(s, z, lf, next) <=> t \in Int /\ lf < t /\ t < next /\ IsTick(s, z, t)
    BY <2>2, <2>3, TicksInAre
  <2>6. \A t : ~(t \in Int /\ now < t /\ t < next /\ IsTick(s, z, t))
    <3>1. \A t : t \in TicksIn(s, z, now, next) <=> t \in Int /\ now < t /\ t < next /\ IsTick(s, z, t)
      BY <1>1, <2>3, TicksInAre
    <3> QED
      BY <2>3, <3>1
  <2>7. \A t : t \in TicksIn(s, z, lf, EndTime + 1) <=> t \in TicksIn(s, z, lf, next)
    BY <1>1, <2>1, <2>2, <2>3, <2>4, <2>5, <2>6
  <2>8. TicksIn(s, z, lf, EndTime + 1) = TicksIn(s, z, lf, next)
    BY <2>7
  <2>9. Upto(n)' = next /\ lf < next
    BY <1>1, <1>3, <2>1, <2>2, <2>3 DEF Upto, next, s
  <2> QED
    BY <2>1, <2>8, <2>9 DEF DropsSo, lf, s, z
<1> QED
  BY <1>2, <1>3

LEMMA InitDrops == LoopInit => DropIInv
<1> SUFFICES ASSUME LoopInit PROVE DropIInv
  OBVIOUS
<1>1. IInv
  BY InitIInv
<1>2. /\ mode = "catchUp" /\ judging = StartTime /\ now = StartTime /\ reloads = 0
      /\ lastFired = [n \in Name |-> Never] /\ dropped = [n \in Name |-> {}]
      /\ missed = [n \in Name |-> 0] /\ owed = [n \in Name |-> 0] /\ edited = [n \in Name |-> FALSE]
  BY DEF LoopInit, NoTicks
<1>3. Whole
  <2>1. remembered \in [Name -> Remembered \cup {Never}]
    BY DEF LoopInit
  <2> QED
    BY <1>2, <2>1 DEF Whole
<1>4. ASSUME NEW n \in Name, triggers[n] # Absent PROVE NoneSince(n)
  <2>1. /\ NoTicks \in [Name -> Nat \cup {Never}] /\ \A m \in Name : NoTicks[m] = Never
        /\ triggers \in Tree /\ timezone \in Zones /\ now \in Instant
    BY <1>1 DEF NoTicks, IInv, Sane
  <2>2. n \in Seeded(triggers, NoTicks) /\ due = SeededAt(triggers, NoTicks)
    BY <1>4, <2>1 DEF Seeded, LoopInit
  <2>3. triggers[n] \in Known /\ due[n] = NextAfter(triggers[n], now)
    BY <2>1, <2>2, SeededIs
  <2>4. /\ due[n] \in Nat \cup {Never} /\ Never \notin Nat
        /\ due[n] # Never => now < due[n] /\ TicksIn(triggers[n], timezone, now, due[n]) = {}
        /\ due[n] = Never => TicksIn(triggers[n], timezone, now, EndTime + 1) = {}
    BY <2>1, <2>3, NextIs
  <2>5. StartTime < EndTime + 1
    BY TimesAssumption
  <2> QED
    BY <1>2, <2>4, <2>5 DEF NoneSince, Upto
<1>5. Drops
  BY <1>2, <1>4 DEF Drops, DropsSo
<1> QED
  BY <1>1, <1>2, <1>3, <1>5 DEF DropIInv, Unchanged

LEMMA WholeOn ==
    ASSUME Whole, [LoopNext]_tickVars PROVE Whole' \/ CatchUp \/ Advance
<1> SUFFICES ASSUME ~CatchUp, ~Advance PROVE Whole'
  OBVIOUS
<1>1. CASE Reload
  BY <1>1 DEF Whole, Reload, runVars
<1>2. CASE Wake \/ NoneIsDue \/ Sleep \/ Clock \/ UNCHANGED tickVars
  BY <1>2 DEF Whole, Wake, NoneIsDue, Sleep, Clock, runVars, tickVars
<1>3. ASSUME NEW n \in Name, RunAnswers(n) PROVE Whole'
  BY <1>3 DEF Whole, RunAnswers
<1> QED
  BY <1>1, <1>2, <1>3 DEF LoopNext

(* The instant a trigger's ticks are known up to.                          *)
LEMMA UptoIs == ASSUME IInv, NEW n \in Name PROVE Upto(n) \in Nat
  BY TimesAssumption DEF IInv, Sane, Upto

(* No reload takes back what one did.                                      *)
LEMMA NeverReloaded ==
    ASSUME DropIInv, [LoopNext]_tickVars, reloads' = 0
    PROVE  reloads = 0 /\ Unchanged' /\ Unchanged /\ Drops /\ triggers' = triggers /\ timezone' = timezone
<1>1. reloads \in Nat
  BY DEF DropIInv, Whole
<1>2. reloads = 0 /\ triggers' = triggers /\ timezone' = timezone /\ ~Reload
  <2>1. CASE Reload
    BY <1>1, <2>1 DEF Reload
  <2>2. CASE CatchUp \/ Wake \/ Advance \/ NoneIsDue \/ Sleep \/ Clock \/ UNCHANGED tickVars
    BY <2>2 DEF CatchUp, Wake, Advance, NoneIsDue, Sleep, Clock, Reload, tickVars
  <2>3. ASSUME NEW n \in Name, RunAnswers(n)
        PROVE  reloads = 0 /\ triggers' = triggers /\ timezone' = timezone /\ ~Reload
    BY <1>1, <2>3 DEF RunAnswers, Reload
  <2> QED
    BY <2>1, <2>2, <2>3 DEF LoopNext
<1>3. Unchanged /\ Drops
  BY <1>2 DEF DropIInv
<1>4. Unchanged'
  <2>1. CASE Wake
    BY <1>3, <2>1 DEF Wake, Unchanged
  <2>2. CASE CatchUp \/ Advance \/ NoneIsDue \/ Sleep \/ Clock \/ UNCHANGED tickVars
    BY <1>3, <2>2 DEF CatchUp, Advance, NoneIsDue, Sleep, Clock, tickVars, seen, Unchanged
  <2>3. ASSUME NEW n \in Name, RunAnswers(n) PROVE Unchanged'
    BY <1>3, <2>3 DEF RunAnswers, seen, Unchanged
  <2> QED
    BY <1>2, <2>1, <2>2, <2>3 DEF LoopNext
<1> QED
  BY <1>2, <1>3, <1>4

(* A step that fires and drops nothing, and leaves what is due.            *)
LEMMA DropsStay ==
    ASSUME IInv, Drops, now' \in Instant, now <= now', (mode' = mode /\ judging' = judging) \/ mode' # "catchUp",
           UNCHANGED <<timezone, triggers, due, lastFired, dropped, missed, owed>>
    PROVE  Drops'
<1> SUFFICES ASSUME NEW n \in Name, triggers[n] # Absent PROVE DropsSo(n)' /\ NoneSince(n)'
  BY DEF Drops
<1>1. now \in Nat /\ now' \in Nat
  BY TimesAssumption DEF IInv, Sane, Instant
<1>2. DropsSo(n)'
  BY <1>1, UptoIs, DropsAsBefore DEF Drops
<1>3. NoneSince(n)'
  BY NoneAsBefore DEF Drops, NoneSince
<1> QED
  BY <1>2, <1>3

LEMMA WakeDrops == ASSUME IInv, Drops, Wake PROVE Drops'
<1>1. /\ UNCHANGED <<timezone, triggers, now, lastFired, dropped, missed, owed>> /\ mode' = "ticks"
      /\ now \in Nat /\ now <= now
  BY TimesAssumption DEF Wake, runVars, IInv, Sane, Instant
<1> SUFFICES ASSUME NEW n \in Name, triggers[n] # Absent PROVE DropsSo(n)'
  BY <1>1 DEF Drops, NoneSince
<1>2. CASE due[n] # Never
  <2>1. due'[n] = due[n]
    BY <1>2, WakeIs
  <2> QED
    BY <1>1, <2>1, UptoIs, DropsAsBefore DEF Drops
<1>3. CASE due[n] = Never
  <2>1. triggers[n] \in Known /\ due'[n] = NextAfter(triggers[n], now)
    BY <1>3, WakeIs
  <2> QED
    BY <1>1, <1>3, <2>1, FreshKeepsDrops DEF Drops
<1> QED
  BY <1>2, <1>3

LEMMA AdvanceDrops == ASSUME IInv, Whole, Unchanged, Drops, Advance PROVE Drops'
<1>1. PICK i \in left :
        /\ IsDue(Names[i])
        /\ Reached(Names[i], read[Names[i]], due[Names[i]], lastFired[Names[i]], dropped[Names[i]])
        /\ due' = [due EXCEPT ![Names[i]] = NextAfter(read[Names[i]], @)]
  BY DEF Advance
<1> DEFINE n == Names[i]
           at == due[n]
           next == NextAfter(read[n], at)
<1>2. UNCHANGED <<timezone, triggers, now, mode, read, judging>> /\ mode = "ticks"
  BY DEF Advance, passVars
<1>3. /\ n \in Name /\ read[n] # Absent /\ read[n] \in Known /\ at \in Instant /\ at \in Nat
      /\ at <= now /\ timezone \in Zones /\ at \in Looked
  BY <1>1, DueIs, LookedIs
<1>4. read[n] = triggers[n] /\ at # Never /\ now \in Nat /\ EndTime \in Nat /\ at <= EndTime
  BY <1>3, TimesAssumption DEF IInv, Sane, AsRead, Unchanged, Instant
<1>5. /\ next \in Nat \cup {Never}
      /\ next # Never => at < next /\ TicksIn(triggers[n], timezone, at, next) = {}
      /\ next = Never => TicksIn(triggers[n], timezone, at, EndTime + 1) = {}
  BY <1>3, <1>4, NextIs
<1>6. IsTick(triggers[n], timezone, at)
  BY <1>3, <1>4 DEF IInv, Takes, TakenSo, Unchanged
<1>7. due'[n] = next /\ \A m \in Name \ {n} : due'[m] = due[m]
  BY <1>1, <1>3 DEF IInv, Sane
<1> DEFINE since == lastFired[n]
           before == dropped[n]
<1>8. since = Never \/ (since \in Looked /\ since < at /\ before = TicksIn(triggers[n], timezone, since, at))
  BY <1>3, <1>4 DEF Drops, DropsSo, Upto
<1>9. Reached(n, read[n], at, since, before)
  BY <1>1
<1>10. since = Never \/ (since \in Looked /\ since < at /\ before = TicksIn(read[n], timezone, since, at))
  BY <1>4, <1>8
<1> HIDE DEF n, at, next, since, before
<1>11. /\ \A m \in Name \ {n} : /\ lastFired'[m] = lastFired[m] /\ dropped'[m] = dropped[m]
                                /\ missed'[m] = missed[m] /\ owed'[m] = owed[m]
       /\ missed[n] = owed[n] => missed'[n] = owed'[n]
       /\ \/ lastFired'[n] = since /\ dropped'[n] = before \cup {at}
          \/ lastFired'[n] = at /\ dropped'[n] = {}
  BY <1>3, <1>9, <1>10, ReachedIs
<1>12. DropsSo(n)'
  <2>1. Upto(n)' \in Nat /\ at < Upto(n)' /\ TicksIn(triggers'[n], timezone', at, Upto(n)') = {}
    BY <1>2, <1>3, <1>4, <1>5, <1>7 DEF Upto
  <2>2. IsTick(triggers'[n], timezone', at) /\ now' \in Nat /\ at <= now'
    BY <1>2, <1>3, <1>4, <1>6
  <2>3. since = Never \/ (since \in Looked /\ since < at /\ before = TicksIn(triggers'[n], timezone', since, at))
    BY <1>2, <1>8
  <2> QED
    BY <1>3, <1>11, <2>1, <2>2, <2>3, DropsOn
<1>13. ASSUME NEW m \in Name \ {n}, triggers[m] # Absent PROVE DropsSo(m)'
  BY <1>2, <1>4, <1>7, <1>11, <1>13, UptoIs, DropsAsBefore DEF Drops
<1> QED
  BY <1>2, <1>11, <1>12, <1>13 DEF Drops, NoneSince

LEMMA AdvanceWhole == ASSUME Whole, Advance PROVE Whole'
<1>1. PICK i \in left : Reached(Names[i], read[Names[i]], due[Names[i]], lastFired[Names[i]], dropped[Names[i]])
  BY DEF Advance
<1>2. UNCHANGED <<remembered, reloads>>
  BY DEF Advance
<1> QED
  BY <1>1, <1>2 DEF Whole, Reached

(* At start the ticks before the last one that fell are dropped, and no    *)
(* other before the start.                                                 *)
LEMMA CatchUpDrops == ASSUME IInv, Whole, Unchanged, Drops, CatchUp PROVE Drops'
<1>1. PICK i \in left :
        LET n      == Names[i]
            last   == remembered[n]
            recent == TickBefore(read[n], timezone, judging, last)
        IN  \/ /\ last # Never /\ recent # Never /\ last < recent
               /\ Reached(n, read[n], recent, last, TicksIn(read[n], timezone, last, recent))
            \/ UNCHANGED runVars
  BY DEF CatchUp
<1>2. UNCHANGED <<timezone, triggers, now, mode, read, judging, due>> /\ mode = "catchUp"
  BY DEF CatchUp
<1>3. CASE UNCHANGED runVars
  <2>1. now' \in Instant /\ now <= now'
    BY <1>2, TimesAssumption DEF IInv, Sane, Instant
  <2> QED
    BY <1>2, <1>3, <2>1, DropsStay DEF runVars
<1>4. CASE ~UNCHANGED runVars
  <2> DEFINE n      == Names[i]
             since  == remembered[n]
             at     == TickBefore(read[n], timezone, judging, since)
             before == TicksIn(read[n], timezone, since, at)
  <2>1. since # Never /\ at # Never /\ since < at /\ Reached(n, read[n], at, since, before)
    BY <1>1, <1>4
  <2>2. i \in DOMAIN Names /\ read[n] # Absent /\ read \in Tree /\ timezone \in Zones
    BY DEF IInv, Sane, Schedules
  <2>3. n \in Name /\ read[n] \in Known
    BY <2>2, PlaceIs, KnownIs
  <2>4. read[n] = triggers[n]
    BY <2>3 DEF IInv, AsRead, Unchanged
  <2>5. judging = StartTime /\ StartTime < Upto(n) /\ TicksIn(triggers[n], timezone, StartTime, Upto(n)) = {}
    BY <1>2, <2>2, <2>3, <2>4 DEF Drops, NoneSince
  <2>6. since \in Remembered
    BY <2>1, <2>3 DEF Whole
  <2>7. /\ at \in Nat /\ at <= StartTime /\ IsTick(triggers[n], timezone, at)
        /\ TicksIn(triggers[n], timezone, at, StartTime + 1) = {}
    BY <2>1, <2>2, <2>3, <2>4, <2>5, <2>6, LastAssumption
  <2>8. Upto(n) \in Nat /\ now \in Nat /\ StartTime \in Nat /\ StartTime <= now /\ StartTime <= EndTime /\ since \in Nat
        /\ EndTime \in Nat
    BY <2>3, <2>6, UptoIs, TimesAssumption DEF IInv, Sane, Instant
  <2>9. at \in Looked /\ since \in Looked /\ at <= now /\ at < Upto(n)
    BY <2>1, <2>5, <2>6, <2>7, <2>8, LookedIs
  <2>10. before = TicksIn(triggers[n], timezone, since, at)
    BY <2>4
  <2>11. before = TicksIn(read[n], timezone, since, at)
    OBVIOUS
  <2> HIDE DEF n, since, at, before
  <2>12. TicksIn(triggers[n], timezone, at, Upto(n)) = {}
    <3> DEFINE s  == triggers[n]
               up == Upto(n)
    <3>1. \A t : /\ t \in TicksIn(s, timezone, at, StartTime + 1)
                       <=> t \in Int /\ at < t /\ t < StartTime + 1 /\ IsTick(s, timezone, t)
                 /\ t \in TicksIn(s, timezone, StartTime, up)
                       <=> t \in Int /\ StartTime < t /\ t < up /\ IsTick(s, timezone, t)
                 /\ t \in TicksIn(s, timezone, at, up)
                       <=> t \in Int /\ at < t /\ t < up /\ IsTick(s, timezone, t)
      BY <2>7, <2>8, TicksInAre
    <3> HIDE DEF s, up
    <3>2. \A t : t \notin TicksIn(s, timezone, at, up)
      BY <2>5, <2>7, <2>8, <3>1 DEF s, up
    <3> QED
      BY <3>2 DEF s, up
  <2>13. /\ \A m \in Name \ {n} : /\ lastFired'[m] = lastFired[m] /\ dropped'[m] = dropped[m]
                                  /\ missed'[m] = missed[m] /\ owed'[m] = owed[m]
         /\ missed[n] = owed[n] => missed'[n] = owed'[n]
         /\ \/ lastFired'[n] = since /\ dropped'[n] = before \cup {at}
            \/ lastFired'[n] = at /\ dropped'[n] = {}
    BY <2>1, <2>2, <2>3, <2>9, <2>11, ReachedIs
  <2>14. DropsSo(n)'
    <3>1. Upto(n)' = Upto(n)
      BY <1>2 DEF Upto
    <3>2. Upto(n)' \in Nat /\ at < Upto(n)' /\ TicksIn(triggers'[n], timezone', at, Upto(n)') = {}
      BY <1>2, <2>8, <2>9, <2>12, <3>1
    <3>3. IsTick(triggers'[n], timezone', at) /\ now' \in Nat /\ at <= now'
      BY <1>2, <2>7, <2>8, <2>9
    <3>4. since \in Looked /\ since < at /\ before = TicksIn(triggers'[n], timezone', since, at)
      BY <1>2, <2>1, <2>9, <2>10
    <3> QED
      BY <2>9, <2>13, <3>2, <3>3, <3>4, DropsOn
  <2>15. ASSUME NEW m \in Name \ {n}, triggers[m] # Absent PROVE DropsSo(m)'
    BY <1>2, <2>8, <2>13, <2>15, UptoIs, DropsAsBefore DEF Drops
  <2>16. ASSUME NEW m \in Name, triggers[m] # Absent PROVE NoneSince(m)'
    BY <1>2, <2>16, NoneAsBefore DEF Drops
  <2> QED
    BY <1>2, <2>13, <2>14, <2>15, <2>16 DEF Drops
<1> QED
  BY <1>3, <1>4

LEMMA CatchUpWhole == ASSUME Whole, CatchUp PROVE Whole'
<1>1. PICK i \in left :
        LET n      == Names[i]
            last   == remembered[n]
            recent == TickBefore(read[n], timezone, judging, last)
        IN  Reached(n, read[n], recent, last, TicksIn(read[n], timezone, last, recent)) \/ UNCHANGED runVars
  BY DEF CatchUp
<1>2. UNCHANGED <<remembered, reloads>>
  BY DEF CatchUp
<1> QED
  BY <1>1, <1>2 DEF Whole, Reached, runVars

LEMMA NextDrops == DropIInv /\ [LoopNext]_tickVars => DropIInv'
<1> SUFFICES ASSUME DropIInv, [LoopNext]_tickVars PROVE DropIInv'
  OBVIOUS
<1>1. IInv /\ Whole /\ IInv'
  BY NextIInv DEF DropIInv
<1>2. Whole'
  BY <1>1, WholeOn, AdvanceWhole, CatchUpWhole
<1>3. ASSUME reloads' = 0 PROVE Unchanged' /\ Drops'
  <2>1. reloads = 0 /\ Unchanged' /\ Unchanged /\ Drops /\ triggers' = triggers /\ timezone' = timezone
    BY <1>3, NeverReloaded
  <2>2. now \in Instant /\ now <= now
    BY <1>1, TimesAssumption DEF IInv, Sane, Instant
  <2>3. CASE NoneIsDue \/ UNCHANGED tickVars
    BY <1>1, <2>1, <2>2, <2>3, DropsStay DEF NoneIsDue, tickVars, passVars, runVars
  <2>4. CASE Sleep
    BY <1>1, <2>1, <2>2, <2>4, DropsStay DEF Sleep, passVars, runVars
  <2>5. CASE Clock
    <3>1. now' \in Instant /\ now <= now'
      BY <2>2, <2>5, TimesAssumption DEF Clock, Instant
    <3> QED
      BY <1>1, <2>1, <2>5, <3>1, DropsStay DEF Clock, passVars, runVars
  <2>6. ASSUME NEW n \in Name, RunAnswers(n) PROVE Drops'
    BY <1>1, <2>1, <2>2, <2>6, DropsStay DEF RunAnswers, passVars
  <2>7. ~Reload
    BY <1>1, <1>3 DEF Reload, Whole
  <2> QED
    BY <1>1, <2>1, <2>3, <2>4, <2>5, <2>6, <2>7, WakeDrops, AdvanceDrops, CatchUpDrops DEF LoopNext
<1> QED
  BY <1>1, <1>2, <1>3 DEF DropIInv

(* For any tree, zone and lateness, as long as nothing is reloaded: what a *)
(* fired tick says was missed is the number of ticks dropped, or fallen    *)
(* while no process ran, since the last one fired (scheduler.ts:198-204).  *)
THEOREM MissedIsWhatWasDropped == LoopSpec => []MissedAreTheDropped
<1>1. DropIInv => MissedAreTheDropped
  BY DEF DropIInv, Drops, MissedAreTheDropped
<1> QED
  BY <1>1, InitDrops, NextDrops, PTL DEF LoopSpec

-----------------------------------------------------------------------------
(* A zone that jumps once, by no more than the code looks for.             *)
IsZone(zone) == zone.at \in Int /\ zone.shift \in (-TwoHours) .. TwoHours

(* A schedule that holds an expression.                                    *)
ByExpression(cron) == [every |-> 0, cron |-> cron]

-----------------------------------------------------------------------------
(* Expressions.                                                            *)

LEMMA ReadingIs ==
    ASSUME NEW zone, IsZone(zone), HourLength \in Nat, NEW t \in Int
    PROVE  /\ TwoHours \in Nat /\ zone.at \in Int /\ zone.shift \in Int /\ -TwoHours <= zone.shift /\ zone.shift <= TwoHours
           /\ t < zone.at => Reading(zone, t) = t
           /\ t >= zone.at => Reading(zone, t) = t + zone.shift
           /\ Reading(zone, t) \in Int
<1>1. TwoHours \in Nat
  BY DEF TwoHours
<1>2. zone.at \in Int /\ zone.shift \in Int /\ -TwoHours <= zone.shift /\ zone.shift <= TwoHours
  BY <1>1 DEF IsZone
<1> HIDE DEF TwoHours
<1>3. /\ t < zone.at => Reading(zone, t) = t
      /\ t >= zone.at => Reading(zone, t) = t + zone.shift
  BY <1>2 DEF Reading
<1> QED
  BY <1>1, <1>2, <1>3

(* The readings an instant comes to or past for the first time: its own,   *)
(* those a jump ahead skips, and none while a jump back repeats an hour.   *)
LEMMA FirstAtIs ==
    ASSUME NEW zone, IsZone(zone), HourLength \in Nat \ {0}, NEW t \in Int, NEW r \in Int
    PROVE  FirstAt(zone, r, t) <=>
               /\ r <= Reading(zone, t)
               /\ t < zone.at => r = t
               /\ t = zone.at => zone.at <= r
               /\ t > zone.at => r = t + zone.shift /\ zone.at <= r
<1> DEFINE R(u) == Reading(zone, u)
           at == zone.at
           shift == zone.shift
           back == TwoHours
<1>1. /\ back \in Nat \ {0} /\ at \in Int /\ shift \in Int /\ -back <= shift /\ shift <= back
      /\ \A u \in Int : R(u) \in Int /\ (u < at => R(u) = u) /\ (u >= at => R(u) = u + shift)
  BY ReadingIs DEF TwoHours
<1>2. FirstAt(zone, r, t) <=> R(t) >= r /\ \A u \in (t - 2 * back) .. (t - 1) : R(u) < r
  BY DEF FirstAt
<1> HIDE DEF R, at, shift, back
<1>3. t - 1 \in (t - 2 * back) .. (t - 1)
  BY <1>1
<1>4. ASSUME t >= at, t < at + back PROVE at - 1 \in (t - 2 * back) .. (t - 1)
  BY <1>1, <1>4
<1>5. ASSUME t > at + back, NEW u \in (t - 2 * back) .. (t - 1) PROVE R(u) < t + shift
  BY <1>1, <1>5
<1>6. CASE t < at
  <2>1. ASSUME NEW u \in (t - 2 * back) .. (t - 1) PROVE R(u) = u /\ u < t /\ u \in Int
    BY <1>1, <1>6
  <2> QED
    BY <1>1, <1>2, <1>3, <1>6, <2>1 DEF R, at
<1>7. CASE t = at
  <2>1. ASSUME NEW u \in (t - 2 * back) .. (t - 1) PROVE R(u) = u /\ u < t /\ u \in Int
    BY <1>1, <1>7
  <2>2. R(t - 1) = t - 1
    BY <2>1, <1>3
  <2>3. ASSUME at <= r, NEW u \in (t - 2 * back) .. (t - 1) PROVE R(u) < r
    BY <1>1, <1>7, <2>1, <2>3
  <2> QED
    BY <1>1, <1>2, <1>3, <1>7, <2>2, <2>3 DEF R, at
<1>8. CASE t > at
  <2>1. R(t) = t + shift /\ R(t - 1) = t - 1 + shift
    BY <1>1, <1>8
  <2>2. ASSUME r = t + shift, at <= r, NEW u \in (t - 2 * back) .. (t - 1) PROVE R(u) < r
    BY <1>1, <1>8, <2>2
  <2>3. ASSUME FirstAt(zone, r, t) PROVE r = t + shift
    <3>1. R(t - 1) < r /\ r <= R(t)
      BY <1>2, <1>3, <2>3
    <3> QED
      BY <1>1, <2>1, <3>1
  <2>4. ASSUME FirstAt(zone, r, t) PROVE at <= r
    <3>1. CASE t < at + back
      <4>1. R(at - 1) < r /\ R(at - 1) = at - 1
        BY <1>1, <1>2, <1>4, <1>8, <2>4, <3>1
      <4> QED
        BY <1>1, <4>1
    <3>2. CASE t >= at + back
      BY <1>1, <2>3, <2>4, <3>2
    <3> QED
      BY <1>1, <3>1, <3>2
  <2> QED
    BY <1>1, <1>2, <1>8, <2>1, <2>2, <2>3, <2>4 DEF R, at, shift
<1> QED
  BY <1>1, <1>6, <1>7, <1>8

(* For any expression and any zone: the instants the search stops at,      *)
(* which leaves out a reading the clock repeats and takes in those it      *)
(* skips, are those at which the clock first comes to or past a minute the *)
(* expression names (cron.ts:193-247).                                     *)
THEOREM FiresWhatIsPromised ==
    ASSUME NEW cron, NEW zone, IsZone(zone), HourLength \in Nat \ {0}, NEW t \in Int
    PROVE  Fires(cron, zone, t) <=> Promised(ByExpression(cron), zone, t)
<1> DEFINE R(u) == Reading(zone, u)
           at == zone.at
           shift == zone.shift
           back == TwoHours
           M(r) == Matches(cron, r)
           F(r) == FirstAt(zone, r, t)
<1>1. /\ back \in Nat \ {0} /\ at \in Int /\ shift \in Int /\ -back <= shift /\ shift <= back
      /\ \A u \in Int : R(u) \in Int /\ (u < at => R(u) = u) /\ (u >= at => R(u) = u + shift)
  BY ReadingIs DEF TwoHours
<1>2. Promised(ByExpression(cron), zone, t) <=> \E r \in (R(t) - back) .. R(t) : M(r) /\ F(r)
  BY DEF Promised, ByExpression
<1>3. Fires(cron, zone, t) <=>
        \/ \E r \in (R(t - 1) + 1) .. (R(t) - 1) : r - R(t - 1) <= back /\ M(r)
        \/ M(R(t)) /\ ~(\E b \in 1 .. back : R(t - b) = R(t))
  BY DEF Fires, NamedInGap, Repeated
<1>4. \A r \in Int : F(r) <=>
               /\ r <= R(t)
               /\ t < at => r = t
               /\ t = at => at <= r
               /\ t > at => r = t + shift /\ at <= r
  BY FirstAtIs
<1> HIDE DEF R, at, shift, back, M, F
<1>5. CASE t < at
  <2>1. R(t) = t /\ R(t - 1) = t - 1 /\ ~(\E b \in 1 .. back : R(t - b) = R(t))
    BY <1>1, <1>5
  <2>2. Fires(cron, zone, t) <=> M(t)
    BY <1>1, <1>3, <2>1
  <2>3. t \in (R(t) - back) .. R(t) /\ F(t)
    BY <1>1, <1>4, <1>5, <2>1
  <2>4. \A r \in (R(t) - back) .. R(t) : F(r) => r = t
    BY <1>1, <1>4, <1>5, <2>1
  <2> QED
    BY <1>2, <2>2, <2>3, <2>4
<1>6. CASE t = at
  <2>1. R(t) = at + shift /\ R(t - 1) = at - 1
    BY <1>1, <1>6
  <2>2. \A b \in 1 .. back : R(t - b) = at - b
    BY <1>1, <1>6
  <2>3. \A r \in (R(t) - back) .. R(t) : F(r) <=> at <= r
    BY <1>1, <1>4, <1>6, <2>1
  <2>4. CASE shift < 0
    <3>1. -shift \in 1 .. back /\ R(t - (-shift)) = R(t)
      BY <1>1, <1>6, <2>1, <2>2, <2>4
    <3>2. ~Fires(cron, zone, t)
      BY <1>1, <1>3, <2>1, <2>4, <3>1
    <3>3. \A r \in (R(t) - back) .. R(t) : ~F(r)
      BY <1>1, <2>1, <2>3, <2>4
    <3> QED
      BY <1>2, <3>2, <3>3
  <2>5. CASE shift >= 0
    <3>1. ~(\E b \in 1 .. back : R(t - b) = R(t))
      BY <1>1, <2>1, <2>2, <2>5
    <3>2. Fires(cron, zone, t) <=> \E r \in at .. (at + shift) : M(r)
      <4>1. ASSUME NEW r \in at .. (at + shift), M(r) PROVE Fires(cron, zone, t)
        <5>1. CASE r = at + shift
          BY <1>3, <2>1, <3>1, <4>1, <5>1
        <5>2. CASE r # at + shift
          <6>1. r \in (R(t - 1) + 1) .. (R(t) - 1) /\ r - R(t - 1) <= back
            BY <1>1, <2>1, <5>2
          <6> QED
            BY <1>3, <4>1, <6>1
        <5> QED
          BY <5>1, <5>2
      <4>2. ASSUME Fires(cron, zone, t) PROVE \E r \in at .. (at + shift) : M(r)
        <5>1. CASE M(R(t))
          BY <1>1, <2>1, <2>5, <5>1
        <5>2. ASSUME NEW r \in (R(t - 1) + 1) .. (R(t) - 1), M(r) PROVE r \in at .. (at + shift)
          BY <1>1, <2>1, <5>2
        <5> QED
          BY <1>3, <4>2, <5>1, <5>2
      <4> QED
        BY <4>1, <4>2
    <3>3. \A r \in Int : r \in at .. (at + shift) <=> r \in (R(t) - back) .. R(t) /\ at <= r
      BY <1>1, <2>1, <2>5
    <3> QED
      BY <1>1, <1>2, <2>3, <3>2, <3>3
  <2> QED
    BY <1>1, <2>4, <2>5
<1>7. CASE t > at
  <2>1. R(t) = t + shift /\ R(t - 1) = t - 1 + shift /\ R(t) \in Int
    BY <1>1, <1>7
  <2>2. \A r \in (R(t) - back) .. R(t) : F(r) <=> r = R(t) /\ at <= t + shift
    BY <1>1, <1>4, <1>7, <2>1
  <2>3. Promised(ByExpression(cron), zone, t) <=> M(R(t)) /\ at <= t + shift
    <3>1. R(t) \in (R(t) - back) .. R(t)
      BY <1>1, <2>1
    <3> QED
      BY <1>2, <2>2, <3>1
  <2>4. Fires(cron, zone, t) <=> M(R(t)) /\ ~(\E b \in 1 .. back : R(t - b) = R(t))
    BY <1>1, <1>3, <2>1
  <2>5. (\E b \in 1 .. back : R(t - b) = R(t)) <=> t + shift < at
    <3>1. ASSUME NEW b \in 1 .. back, R(t - b) = R(t) PROVE t + shift < at
      BY <1>1, <1>7, <2>1, <3>1
    <3>2. ASSUME t + shift < at PROVE -shift \in 1 .. back /\ R(t - (-shift)) = R(t)
      <4>1. -shift \in 1 .. back /\ t - (-shift) = t + shift
        BY <1>1, <1>7, <3>2
      <4> QED
        BY <1>1, <2>1, <3>2, <4>1
    <3> QED
      BY <3>1, <3>2
  <2>6. ~(t + shift < at) <=> at <= t + shift
    BY <1>1
  <2> QED
    BY <2>3, <2>4, <2>5, <2>6
<1> QED
  BY <1>1, <1>5, <1>6, <1>7

(* A set of naturals has a least member.                                   *)
LEMMA LeastNatural ==
    ASSUME NEW S \in SUBSET Nat, S # {}
    PROVE  \E m \in S : \A k \in S : m <= k
<1> DEFINE Below(k) == 0 .. k
           F == {Below(k) : k \in S}
<1>1. F \subseteq FiniteSubsetsOf(Nat) /\ F # {}
  <2>1. \A k \in S : IsFiniteSet(0 .. k) /\ 0 .. k \in SUBSET Nat
    BY FS_Interval
  <2> QED
    BY <2>1 DEF FiniteSubsetsOf
<1>2. \E x \in F : \A y \in F : ~(<<y, x>> \in StrictSubsetOrdering(Nat))
  <2> HIDE DEF F
  <2>1. IsWellFoundedOn(StrictSubsetOrdering(Nat), FiniteSubsetsOf(Nat))
    BY FS_StrictSubsetOrderingWellFounded
  <2> QED
    BY <1>1, <2>1, WFMin
<1>3. PICK m \in S : \A k \in S : ~(<<Below(k), Below(m)>> \in StrictSubsetOrdering(Nat))
  BY <1>2
<1>4. ASSUME NEW k \in S, k < m PROVE FALSE
  <2>1. Below(k) \subseteq Below(m) /\ Below(k) # Below(m) /\ Below(m) \in SUBSET Nat
    BY <1>4
  <2> QED
    BY <2>1, <1>3 DEF StrictSubsetOrdering
<1> QED
  BY <1>3, <1>4

(* What the search answers: the first instant in its reach at which the    *)
(* expression fires, or that there is none.                                *)
LEMMA NextTickIs ==
    ASSUME NEW cron, NEW zone, NEW after \in Nat, HORIZON \in Nat
    PROVE  LET next == NextTick(cron, zone, after) IN
           \/ next = Undefined /\ \A t \in (after + 1) .. (after + HORIZON) : ~Fires(cron, zone, t)
           \/ /\ next \in (after + 1) .. (after + HORIZON) /\ Fires(cron, zone, next)
              /\ \A t \in (after + 1) .. (next - 1) : ~Fires(cron, zone, t)
<1> DEFINE ahead == (after + 1) .. (after + HORIZON)
           F(t)  == Fires(cron, zone, t)
           First(t) == F(t) /\ \A u \in (after + 1) .. (t - 1) : ~F(u)
<1>1. NextTick(cron, zone, after) = IF \E t \in ahead : F(t) THEN CHOOSE t \in ahead : First(t) ELSE Undefined
  BY DEF NextTick
<1> HIDE DEF F
<1>2. CASE \E t \in ahead : F(t)
  <2> DEFINE S == {t \in ahead : F(t)}
  <2>1. S \in SUBSET Nat /\ S # {}
    BY <1>2
  <2>2. PICK m \in S : \A k \in S : m <= k
    <3> HIDE DEF S
    <3> QED
      BY <2>1, LeastNatural
  <2>3. m \in ahead /\ First(m)
    <3>1. m \in ahead /\ F(m)
      OBVIOUS
    <3>2. ASSUME NEW u \in (after + 1) .. (m - 1), F(u) PROVE FALSE
      <4>1. u \in ahead /\ u < m
        BY <3>1
      <4>2. u \in S
        BY <3>2, <4>1
      <4> QED
        BY <2>2, <3>1, <4>1, <4>2
    <3> QED
      BY <3>1, <3>2
  <2> HIDE DEF First
  <2>4. NextTick(cron, zone, after) \in ahead /\ First(NextTick(cron, zone, after))
    BY <1>1, <1>2, <2>3
  <2> QED
    BY <2>4 DEF First, F
<1>3. CASE ~(\E t \in ahead : F(t))
  BY <1>1, <1>3 DEF F
<1> QED
  BY <1>2, <1>3

-----------------------------------------------------------------------------
(* Intervals.                                                              *)

LEMMA DivisionIs ==
    ASSUME NEW a \in Int, NEW e \in Nat \ {0}
    PROVE  /\ a \div e \in Int /\ a % e \in 0 .. (e - 1)
           /\ a = (a \div e) * e + (a % e)
  OBVIOUS

LEMMA Scaled ==
    ASSUME NEW j \in Int, NEW k \in Int, NEW e \in Nat \ {0}
    PROVE  j * e \in Int /\ (j <= k => j * e <= k * e) /\ (j < k => j * e + e <= k * e)
<1>1. (k - j) * e = k * e - j * e /\ k - j \in Int /\ j * e \in Int
  OBVIOUS
<1>2. \A d \in Int : d >= 0 => d * e >= 0
  OBVIOUS
<1>3. k - j > 0 => (k - j) * e >= e
  <2>1. ((k - j) - 1) * e = (k - j) * e - e /\ (k - j) - 1 \in Int
    OBVIOUS
  <2> QED
    BY <1>1, <1>2, <2>1
<1> QED
  BY <1>1, <1>2, <1>3

(* Between two multiples of e that follow each other there is none.        *)
LEMMA MultiplesAre ==
    ASSUME NEW t \in Int, NEW e \in Nat \ {0}
    PROVE  /\ t % e = 0 <=> t = (t \div e) * e
           /\ \A k \in Int : (k * e) % e = 0 /\ (k * e) \div e = k
<1>1. t % e = 0 <=> t = (t \div e) * e
  BY DivisionIs
<1>2. ASSUME NEW k \in Int PROVE (k * e) % e = 0 /\ (k * e) \div e = k
  <2> DEFINE a == k * e
             q == a \div e
             r == a % e
  <2>2. a \in Int /\ a = k * e
    OBVIOUS
  <2> HIDE DEF a
  <2>1. a \in Int /\ q \in Int /\ r \in 0 .. (e - 1) /\ a = q * e + r
    BY <2>2, DivisionIs
  <2> HIDE DEF q, r
  <2>3. ~(q < k)
    BY <2>1, <2>2, Scaled
  <2>4. ~(k < q)
    BY <2>1, <2>2, Scaled
  <2>5. q = k
    BY <2>1, <2>3, <2>4
  <2>6. r = 0
    BY <2>1, <2>2, <2>5
  <2> QED
    BY <2>5, <2>6 DEF a, q, r
<1> QED
  BY <1>1, <1>2

(* The multiples after one instant and before another, by their quotients. *)
LEMMA QuotientsAre ==
    ASSUME NEW e \in Nat \ {0}, NEW from \in Int, NEW to \in Int, NEW k \in Int
    PROVE  /\ from < k * e <=> from \div e < k
           /\ k * e < to <=> k < -((-to) \div e)
           /\ k * e <= to <=> k <= to \div e
<1> DEFINE f == from \div e
           c == (-to) \div e
           d == to \div e
<1>1. PICK r \in 0 .. (e - 1) : f \in Int /\ from = f * e + r
  BY DivisionIs
<1>2. PICK s \in 0 .. (e - 1) : c \in Int /\ -to = c * e + s
  <2> DEFINE g == -to
  <2>1. g \in Int
    OBVIOUS
  <2>2. c = g \div e /\ g = -to
    OBVIOUS
  <2> HIDE DEF g, c
  <2>3. g \div e \in Int /\ g % e \in 0 .. (e - 1) /\ g = (g \div e) * e + (g % e)
    BY <2>1, DivisionIs
  <2> QED
    BY <2>2, <2>3
<1>3. PICK u \in 0 .. (e - 1) : d \in Int /\ to = d * e + u
  BY DivisionIs
<1> HIDE DEF f, c, d
<1>4. from < k * e <=> f < k
  <2>1. k <= f => k * e <= f * e
    BY <1>1, Scaled
  <2>2. f < k => f * e + e <= k * e
    BY <1>1, Scaled
  <2>3. k * e \in Int /\ f * e \in Int
    BY <1>1, Scaled
  <2> QED
    BY <1>1, <2>1, <2>2, <2>3
<1>5. k * e < to <=> k < -c
  <2>1. -c \in Int /\ (-c) * e = -(c * e)
    BY <1>2
  <2>2. k < -c => k * e + e <= (-c) * e
    BY <2>1, Scaled
  <2>3. -c <= k => (-c) * e <= k * e
    BY <2>1, Scaled
  <2>4. k * e \in Int /\ c * e \in Int
    BY <1>2, Scaled
  <2> QED
    BY <1>2, <2>1, <2>2, <2>3, <2>4
<1>6. k * e <= to <=> k <= d
  <2>1. k <= d => k * e <= d * e
    BY <1>3, Scaled
  <2>2. d < k => d * e + e <= k * e
    BY <1>3, Scaled
  <2>3. k * e \in Int /\ d * e \in Int
    BY <1>3, Scaled
  <2> QED
    BY <1>3, <2>1, <2>2, <2>3
<1> QED
  BY <1>4, <1>5, <1>6 DEF f, c, d

(* The larger of zero and a number.                                        *)
LEMMA MaxOfTwo ==
    ASSUME NEW n \in Int
    PROVE  Max({0, n}) = IF n > 0 THEN n ELSE 0
<1> DEFINE m == IF n > 0 THEN n ELSE 0
<1>1. m \in {0, n} /\ \A y \in {0, n} : m >= y
  OBVIOUS
<1>2. \A x \in {0, n} : (\A y \in {0, n} : x >= y) => x = m
  OBVIOUS
<1> QED
  BY <1>1, <1>2 DEF Max

(* What an interval's settings promise, and what is counted of it.         *)
LEMMA IntervalIs ==
    ASSUME NEW every \in Nat \ {0}, NEW cron, NEW zone, NEW t
    PROVE  LET schedule == [every |-> every, cron |-> cron] IN
           /\ Promised(schedule, zone, t) <=> t % every = 0
           /\ NextOf(schedule, zone, t) = (t \div every + 1) * every
           /\ \A to : BetweenOf(schedule, zone, t, to) = Max({0, -((-to) \div every) - (t \div every) - 1})
           /\ \A since : LastBefore(schedule, zone, t, since) = (t \div every) * every
  BY DEF Promised, NextOf, NextInterval, BetweenOf, IntervalsBetween, LastBefore

(* The multiples of e between two bounds are as many as the factors.       *)
LEMMA MultiplesAreCounted ==
    ASSUME NEW e \in Nat \ {0}, NEW a \in Int, NEW b \in Int
    PROVE  LET multiples == {k * e : k \in a .. b} IN
           IsFiniteSet(multiples) /\ Cardinality(multiples) = IF a > b THEN 0 ELSE b - a + 1
<1> DEFINE multiples == {k * e : k \in a .. b}
           f == [k \in a .. b |-> k * e]
<1>1. IsFiniteSet(a .. b) /\ Cardinality(a .. b) = IF a > b THEN 0 ELSE b - a + 1
  BY FS_Interval
<1>2. \A j, k \in a .. b : j * e = k * e => j = k
  BY MultiplesAre
<1>3. f \in Bijection(a .. b, multiples)
  <2>1. f \in [a .. b -> multiples]
    OBVIOUS
  <2>2. \A j, k \in a .. b : f[j] = f[k] => j = k
    BY <1>2
  <2>3. \A m \in multiples : \E k \in a .. b : f[k] = m
    OBVIOUS
  <2> QED
    BY <2>1, <2>2, <2>3 DEF Bijection, Injection, Surjection, IsInjective
<1>4. ExistsBijection(a .. b, multiples)
  BY <1>3 DEF ExistsBijection
<1> HIDE DEF multiples, f
<1>5. IsFiniteSet(multiples) /\ Cardinality(multiples) = Cardinality(a .. b)
  BY <1>1, <1>4, FS_Bijection
<1> QED
  BY <1>1, <1>5 DEF multiples

(* The ticks between two instants are the multiples of the factors between *)
(* their quotients.                                                        *)
LEMMA TicksBetweenAre ==
    ASSUME NEW e \in Nat \ {0}, NEW from \in Int, NEW to \in Int
    PROVE  {t \in (from + 1) .. (to - 1) : t % e = 0}
               = {k * e : k \in (from \div e + 1) .. (-((-to) \div e) - 1)}
<1> DEFINE f == from \div e
           c == -((-to) \div e)
           ticks == {t \in (from + 1) .. (to - 1) : t % e = 0}
           multiples == {k * e : k \in (f + 1) .. (c - 1)}
<1>1. f \in Int /\ c \in Int
  OBVIOUS
<1>2. \A k \in Int : k * e \in Int /\ (from < k * e <=> f < k) /\ (k * e < to <=> k < c)
  BY QuotientsAre
<1>3. ASSUME NEW t \in ticks PROVE t \in multiples
  <2>1. t \in Int /\ from < t /\ t < to /\ t % e = 0
    BY <1>3
  <2> DEFINE k == t \div e
  <2>2. k \in Int /\ t = k * e
    BY <2>1, MultiplesAre
  <2> HIDE DEF k, f, c
  <2>3. k \in (f + 1) .. (c - 1)
    BY <1>1, <1>2, <2>1, <2>2
  <2> QED
    BY <2>2, <2>3
<1>4. ASSUME NEW k \in (f + 1) .. (c - 1) PROVE k * e \in ticks
  <2> HIDE DEF f, c
  <2>1. k \in Int /\ f < k /\ k < c
    BY <1>1, <1>4
  <2>2. k * e \in Int /\ from < k * e /\ k * e < to
    BY <1>2, <2>1
  <2>3. (k * e) % e = 0
    BY <2>1, MultiplesAre
  <2> QED
    BY <2>2, <2>3
<1> QED
  BY <1>3, <1>4

-----------------------------------------------------------------------------
(* What a schedule's settings come to.                                     *)

(* For any settings and any zone: the tick nextOf answers is the next that *)
(* is promised after the given instant -- the first minute the expression  *)
(* names, or the interval's next multiple -- with none between; there is   *)
(* none only for an expression, and then none in the whole reach of the    *)
(* search (schedule.ts:75-80, cron.ts:235-259).                            *)
THEOREM NextIsThePromised ==
    ASSUME NEW every \in Nat, NEW cron, NEW zone, IsZone(zone), NEW after \in Nat,
           HourLength \in Nat \ {0}, HORIZON \in Nat
    PROVE  LET schedule == [every |-> every, cron |-> cron]
               next == NextOf(schedule, zone, after)
           IN  \/ /\ next = Undefined /\ every = 0
                  /\ \A t \in (after + 1) .. (after + HORIZON) : ~Promised(schedule, zone, t)
               \/ /\ next \in Nat /\ after < next /\ Promised(schedule, zone, next)
                  /\ \A t \in (after + 1) .. (next - 1) : ~Promised(schedule, zone, t)
<1> DEFINE schedule == [every |-> every, cron |-> cron]
           next == NextOf(schedule, zone, after)
<1>1. CASE every = 0
  <2>1. schedule = ByExpression(cron) /\ next = NextTick(cron, zone, after)
    BY <1>1 DEF ByExpression, NextOf
  <2> HIDE DEF schedule, next
  <2>2. \A t \in Int : Fires(cron, zone, t) <=> Promised(schedule, zone, t)
    BY <2>1, FiresWhatIsPromised
  <2>3. \/ next = Undefined /\ \A t \in (after + 1) .. (after + HORIZON) : ~Fires(cron, zone, t)
        \/ /\ next \in (after + 1) .. (after + HORIZON) /\ Fires(cron, zone, next)
           /\ \A t \in (after + 1) .. (next - 1) : ~Fires(cron, zone, t)
    BY <2>1, NextTickIs
  <2>4. CASE next = Undefined /\ \A t \in (after + 1) .. (after + HORIZON) : ~Fires(cron, zone, t)
    <3>1. \A t \in (after + 1) .. (after + HORIZON) : ~Promised(schedule, zone, t)
      BY <2>2, <2>4
    <3> QED
      BY <1>1, <2>4, <3>1 DEF schedule, next
  <2>5. CASE /\ next \in (after + 1) .. (after + HORIZON) /\ Fires(cron, zone, next)
             /\ \A t \in (after + 1) .. (next - 1) : ~Fires(cron, zone, t)
    <3>1. next \in Nat /\ after < next
      BY <2>5
    <3>2. Promised(schedule, zone, next)
      BY <2>2, <2>5, <3>1
    <3>3. \A t \in (after + 1) .. (next - 1) : ~Promised(schedule, zone, t)
      BY <2>2, <2>5
    <3> QED
      BY <3>1, <3>2, <3>3 DEF schedule, next
  <2> QED
    BY <2>3, <2>4, <2>5
<1>2. CASE every # 0
  <2> DEFINE q == after \div every
  <2>1. /\ every \in Nat \ {0}
        /\ next = (q + 1) * every
        /\ \A t : Promised(schedule, zone, t) <=> t % every = 0
    BY <1>2, IntervalIs
  <2>2. q \in Int
    BY <2>1
  <2> HIDE DEF schedule, next
  <2>3. after < (q + 1) * every
    <3>1. q + 1 \in Int /\ q < q + 1
      BY <2>2
    <3> HIDE DEF q
    <3>2. after < (q + 1) * every <=> after \div every < q + 1
      BY <2>1, <3>1, QuotientsAre
    <3> QED
      BY <3>1, <3>2 DEF q
  <2>4. next % every = 0 /\ next \in Int
    <3> HIDE DEF q
    <3>1. q + 1 \in Int
      BY <2>2
    <3>2. ((q + 1) * every) % every = 0
      BY <2>1, <3>1, MultiplesAre
    <3>3. (q + 1) * every \in Int
      BY <2>1, <3>1
    <3> QED
      BY <2>1, <3>2, <3>3
  <2>5. ASSUME NEW t \in (after + 1) .. (next - 1), t % every = 0 PROVE FALSE
    <3>1. t \in Int /\ after < t /\ t < next
      BY <2>4, <2>5
    <3> DEFINE k == t \div every
    <3>2. k \in Int /\ t = k * every
      BY <2>1, <2>5, <3>1, MultiplesAre
    <3> HIDE DEF k
    <3>3. q < k
      BY <2>1, <3>1, <3>2, QuotientsAre
    <3> HIDE DEF q
    <3>4. q + 1 \in Int /\ q + 1 <= k
      BY <2>2, <3>2, <3>3
    <3>5. (q + 1) * every <= k * every
      BY <2>1, <3>2, <3>4, Scaled
    <3> QED
      BY <2>1, <2>4, <3>1, <3>2, <3>5
  <2>6. next \in Nat /\ after < next
    BY <2>1, <2>3, <2>4
  <2> QED
    BY <2>1, <2>4, <2>5, <2>6 DEF schedule, next
<1> QED
  BY <1>1, <1>2

(* For any interval: what betweenOf counts without a walk is the number of *)
(* promised ticks strictly between the two instants (schedule.ts:82-87,    *)
(* cron.ts:262-263).                                                       *)
THEOREM IntervalsAreCounted ==
    ASSUME NEW every \in Nat \ {0}, NEW cron, NEW zone, NEW from \in Int, NEW to \in Int, from < to
    PROVE  LET schedule == [every |-> every, cron |-> cron] IN
           BetweenOf(schedule, zone, from, to)
               = Cardinality({t \in (from + 1) .. (to - 1) : Promised(schedule, zone, t)})
<1> DEFINE schedule == [every |-> every, cron |-> cron]
           a == from \div every + 1
           c == -((-to) \div every)
           ticks == {t \in (from + 1) .. (to - 1) : Promised(schedule, zone, t)}
<1>1. /\ BetweenOf(schedule, zone, from, to) = Max({0, c - (from \div every) - 1})
      /\ \A t : Promised(schedule, zone, t) <=> t % every = 0
  <2>1. BetweenOf(schedule, zone, from, to) = Max({0, -((-to) \div every) - (from \div every) - 1})
    BY DEF BetweenOf, IntervalsBetween
  <2>2. \A t : Promised(schedule, zone, t) <=> t % every = 0
    BY IntervalIs, Zenon
  <2> QED
    BY <2>1, <2>2
<1>2. from \div every \in Int /\ a \in Int /\ c \in Int
  OBVIOUS
<1>3. ticks = {k * every : k \in a .. (c - 1)}
  <2>1. ticks = {t \in (from + 1) .. (to - 1) : t % every = 0}
    BY <1>1
  <2> QED
    BY <2>1, TicksBetweenAre
<1> HIDE DEF schedule, ticks, c
<1>4. Cardinality(ticks) = IF a > c - 1 THEN 0 ELSE c - 1 - a + 1
  <2> HIDE DEF a
  <2>1. c - 1 \in Int
    BY <1>2
  <2> QED
    BY <1>2, <1>3, <2>1, MultiplesAreCounted
<1>5. Max({0, c - (from \div every) - 1})
          = IF c - (from \div every) - 1 > 0 THEN c - (from \div every) - 1 ELSE 0
  <2>1. c - (from \div every) - 1 \in Int
    BY <1>2
  <2> QED
    BY <2>1, MaxOfTwo
<1>6. BetweenOf(schedule, zone, from, to) = Cardinality(ticks)
  <2> DEFINE f == from \div every
  <2>1. f \in Int /\ a = f + 1 /\ c \in Int
    BY <1>2
  <2>2. Cardinality(ticks) = IF a > c - 1 THEN 0 ELSE c - 1 - a + 1
    BY <1>4
  <2>3. BetweenOf(schedule, zone, from, to) = IF c - f - 1 > 0 THEN c - f - 1 ELSE 0
    BY <1>1, <1>5
  <2> HIDE DEF f, a
  <2> QED
    BY <2>1, <2>2, <2>3
<1> QED
  BY <1>6 DEF schedule, ticks

(* For any interval: the tick a start catches up from is promised, is not  *)
(* after the start, and none between them is promised                      *)
(* (schedule.ts:89-109).                                                   *)
THEOREM LastIntervalIsTheLast ==
    ASSUME NEW every \in Nat \ {0}, NEW cron, NEW zone, NEW at \in Int, NEW since
    PROVE  LET schedule == [every |-> every, cron |-> cron]
               last == LastBefore(schedule, zone, at, since)
           IN  /\ last \in Int /\ last <= at /\ Promised(schedule, zone, last)
               /\ \A t \in (last + 1) .. at : ~Promised(schedule, zone, t)
<1> DEFINE schedule == [every |-> every, cron |-> cron]
           last == LastBefore(schedule, zone, at, since)
           q == at \div every
<1>1. last = q * every /\ \A t : Promised(schedule, zone, t) <=> t % every = 0
  BY IntervalIs
<1>2. q \in Int
  OBVIOUS
<1>3. \A k \in Int : k * every \in Int /\ (k * every <= at <=> k <= q) /\ (k * every) % every = 0
  BY QuotientsAre, MultiplesAre
<1> HIDE DEF schedule, last, q
<1>4. last \in Int /\ last <= at /\ last % every = 0
  BY <1>1, <1>2, <1>3
<1>5. ASSUME NEW t \in (last + 1) .. at, t % every = 0 PROVE FALSE
  <2>1. t \in Int /\ last < t /\ t <= at
    BY <1>4, <1>5
  <2> DEFINE k == t \div every
  <2>2. k \in Int /\ t = k * every
    BY <1>5, <2>1, MultiplesAre
  <2> HIDE DEF k
  <2>3. k <= q
    <3>1. k * every <= at
      BY <2>1, <2>2
    <3> QED
      BY <1>3, <2>2, <3>1
  <2>4. k * every <= q * every
    BY <1>2, <2>2, <2>3, Scaled
  <2> QED
    BY <1>1, <1>4, <2>1, <2>2, <2>4
<1> QED
  BY <1>1, <1>4, <1>5 DEF schedule, last

-----------------------------------------------------------------------------
(* The walks of an expression: betweenOf goes forward over its ticks up to *)
(* `to`, lastBefore from the tick last recorded.                           *)

Follows(schedule, zone, before) ==
    IF before = Undefined THEN Undefined ELSE NextOf(schedule, zone, before)

IsWalk(nth, schedule, zone, from, steps) ==
    nth = [n \in 0 .. steps |-> IF n = 0 THEN from ELSE Follows(schedule, zone, nth[n - 1])]

Ticks(schedule, zone, from, last) == {t \in (from + 1) .. last : Promised(schedule, zone, t)}

(* A set of naturals that a step from each of its members stays in.        *)
LEMMA StepByStep ==
    ASSUME NEW S \in SUBSET Nat, 0 \in S, \A n \in S : n + 1 \in S
    PROVE  S = Nat
<1>1. SUFFICES ASSUME Nat \ S # {} PROVE FALSE
  OBVIOUS
<1>2. PICK m \in Nat \ S : \A k \in Nat \ S : m <= k
  BY <1>1, LeastNatural
<1>3. m # 0 /\ m - 1 \in Nat
  BY <1>2
<1>4. m - 1 \in S
  BY <1>2, <1>3
<1> QED
  BY <1>2, <1>3, <1>4

LEMMA WalkExists ==
    ASSUME NEW schedule, NEW zone, NEW from, NEW steps \in Nat
    PROVE  \E nth : IsWalk(nth, schedule, zone, from, steps)
<1> DEFINE W(nth, n) == IsWalk(nth, schedule, zone, from, n)
           S == {n \in Nat : \E nth : W(nth, n)}
<1>1. 0 \in S
  <2>1. W([n \in 0 .. 0 |-> from], 0)
    BY DEF IsWalk
  <2> QED
    BY <2>1
<1>2. ASSUME NEW n \in S PROVE n + 1 \in S
  <2>1. PICK f : W(f, n)
    BY <1>2
  <2> DEFINE g == [k \in 0 .. (n + 1) |-> IF k = n + 1 THEN Follows(schedule, zone, f[n]) ELSE f[k]]
  <2>2. n \in Nat /\ n + 1 \in Nat
    BY <1>2
  <2>3. \A k \in 0 .. n : f[k] = IF k = 0 THEN from ELSE Follows(schedule, zone, f[k - 1])
    BY <2>1, <2>2 DEF IsWalk
  <2>4. ASSUME NEW k \in 0 .. (n + 1)
        PROVE  g[k] = IF k = 0 THEN from ELSE Follows(schedule, zone, g[k - 1])
    <3>1. CASE k = n + 1
      <4>1. k # 0 /\ k - 1 = n /\ n \in 0 .. (n + 1) /\ n # n + 1
        BY <2>2, <3>1
      <4>2. g[k] = Follows(schedule, zone, f[n]) /\ g[k - 1] = f[n]
        BY <3>1, <4>1
      <4> QED
        BY <4>1, <4>2
    <3>2. CASE k # n + 1
      <4>1. k \in 0 .. n /\ (k # 0 => k - 1 \in 0 .. n /\ k - 1 # n + 1 /\ k - 1 \in 0 .. (n + 1))
        BY <2>2, <3>2
      <4>2. g[k] = f[k] /\ (k # 0 => g[k - 1] = f[k - 1])
        BY <3>2, <4>1
      <4> QED
        BY <2>3, <4>1, <4>2
    <3> QED
      BY <3>1, <3>2
  <2>5. g = [k \in 0 .. (n + 1) |-> g[k]]
    OBVIOUS
  <2> HIDE DEF g
  <2>6. W(g, n + 1)
    BY <2>4, <2>5 DEF IsWalk
  <2> QED
    BY <2>2, <2>6
<1>3. S = Nat
  <2> HIDE DEF S
  <2>1. S \in SUBSET Nat
    BY DEF S
  <2> QED
    BY <1>1, <1>2, <2>1, StepByStep
<1> QED
  BY <1>3

LEMMA WalkedIs ==
    ASSUME NEW schedule, NEW zone, NEW from, NEW steps \in Nat
    PROVE  \E nth : /\ IsWalk(nth, schedule, zone, from, steps)
                    /\ Walked(schedule, zone, from, steps) = {nth[n] : n \in 1 .. steps} \ {Undefined}
<1> DEFINE nth[n \in 0 .. steps] ==
               IF n = 0 THEN from
               ELSE LET before == nth[n - 1] IN
                    IF before = Undefined THEN Undefined ELSE NextOf(schedule, zone, before)
<1>1. Walked(schedule, zone, from, steps) = {nth[n] : n \in 1 .. steps} \ {Undefined}
  BY DEF Walked
<1>2. \E f : f = [n \in 0 .. steps |->
                     IF n = 0 THEN from
                     ELSE LET before == f[n - 1] IN
                          IF before = Undefined THEN Undefined ELSE NextOf(schedule, zone, before)]
  <2> HIDE DEF nth
  <2>1. PICK f : IsWalk(f, schedule, zone, from, steps)
    BY WalkExists
  <2>2. f = [n \in 0 .. steps |->
                     IF n = 0 THEN from
                     ELSE LET before == f[n - 1] IN
                          IF before = Undefined THEN Undefined ELSE NextOf(schedule, zone, before)]
    BY <2>1 DEF IsWalk, Follows
  <2> QED
    BY <2>2
<1>3. nth = [n \in 0 .. steps |->
                     IF n = 0 THEN from
                     ELSE LET before == nth[n - 1] IN
                          IF before = Undefined THEN Undefined ELSE NextOf(schedule, zone, before)]
  BY <1>2
<1> HIDE DEF nth
<1>4. IsWalk(nth, schedule, zone, from, steps)
  BY <1>3 DEF IsWalk, Follows
<1> QED
  BY <1>1, <1>4

(* A walk has come to an instant, and to all ticks up to it; where it stops*)
(* short of its steps no other is in reach of the search.                  *)
CameTo(nth, schedule, zone, from, n, last) ==
    /\ last \in Nat /\ from <= last
    /\ {nth[k] : k \in 1 .. n} \ {Undefined} = Ticks(schedule, zone, from, last)
    /\ IsFiniteSet(Ticks(schedule, zone, from, last))
    /\ \/ nth[n] = last /\ Cardinality(Ticks(schedule, zone, from, last)) = n
       \/ /\ nth[n] = Undefined /\ Cardinality(Ticks(schedule, zone, from, last)) <= n
          /\ \A t \in (last + 1) .. (last + HORIZON) : ~Promised(schedule, zone, t)

LEMMA WalkGoesOn ==
    ASSUME NEW cron, NEW zone, IsZone(zone), HourLength \in Nat \ {0}, HORIZON \in Nat,
           NEW from \in Nat, NEW steps \in Nat,
           NEW nth, IsWalk(nth, ByExpression(cron), zone, from, steps),
           NEW n \in Nat, n + 1 <= steps, NEW last, CameTo(nth, ByExpression(cron), zone, from, n, last)
    PROVE  \E then : CameTo(nth, ByExpression(cron), zone, from, n + 1, then)
<1> DEFINE schedule == ByExpression(cron)
           P(t) == Promised(schedule, zone, t)
           next == NextOf(schedule, zone, last)
           Told(k) == {nth[j] : j \in 1 .. k} \ {Undefined}
           Until(t) == {u \in (from + 1) .. t : P(u)}
<1>1. nth[n + 1] = IF nth[n] = Undefined THEN Undefined ELSE NextOf(schedule, zone, nth[n])
  <2>1. n + 1 \in 0 .. steps /\ n + 1 # 0 /\ (n + 1) - 1 = n
    OBVIOUS
  <2>2. nth[n + 1] = IF n + 1 = 0 THEN from ELSE Follows(schedule, zone, nth[(n + 1) - 1])
    <3> HIDE DEF schedule
    <3> QED
      BY <2>1 DEF IsWalk, schedule
  <2> QED
    BY <2>1, <2>2 DEF Follows
<1>2. /\ last \in Nat /\ from <= last /\ Told(n) = Until(last) /\ IsFiniteSet(Until(last))
      /\ \/ nth[n] = last /\ Cardinality(Until(last)) = n
         \/ /\ nth[n] = Undefined /\ Cardinality(Until(last)) <= n
            /\ \A t \in (last + 1) .. (last + HORIZON) : ~P(t)
  BY DEF CameTo, Ticks
<1>3. \/ next = Undefined /\ \A t \in (last + 1) .. (last + HORIZON) : ~P(t)
      \/ next \in Nat /\ last < next /\ P(next) /\ \A t \in (last + 1) .. (next - 1) : ~P(t)
  <2>1. last \in Nat /\ 0 \in Nat
    BY <1>2
  <2> QED
    BY <2>1, NextIsThePromised DEF ByExpression
<1>4. Told(n + 1) = Told(n) \cup ({nth[n + 1]} \ {Undefined})
  <2>1. 1 .. (n + 1) = (1 .. n) \cup {n + 1}
    OBVIOUS
  <2> QED
    BY <2>1
<1>5. \A t : CameTo(nth, schedule, zone, from, n + 1, t) <=>
          /\ t \in Nat /\ from <= t /\ Told(n + 1) = Until(t) /\ IsFiniteSet(Until(t))
          /\ \/ nth[n + 1] = t /\ Cardinality(Until(t)) = n + 1
             \/ /\ nth[n + 1] = Undefined /\ Cardinality(Until(t)) <= n + 1
                /\ \A u \in (t + 1) .. (t + HORIZON) : ~P(u)
  BY DEF CameTo, Ticks
<1>6. Undefined \notin Nat
  BY DEF Undefined
<1>7. Cardinality(Until(last)) \in Nat
  <2> HIDE DEF Until
  <2> QED
    BY <1>2, FS_CardinalityType
<1> HIDE DEF schedule, P, next, Told
<1>8. CASE nth[n + 1] = Undefined
  <2>1. \A t \in (last + 1) .. (last + HORIZON) : ~P(t)
    BY <1>1, <1>2, <1>3, <1>6, <1>8 DEF next
  <2>2. Told(n + 1) = Until(last)
    BY <1>2, <1>4, <1>8
  <2> HIDE DEF Until
  <2>3. Cardinality(Until(last)) <= n + 1
    BY <1>2, <1>7
  <2> QED
    BY <1>2, <1>5, <1>8, <2>1, <2>2, <2>3 DEF schedule
<1>9. CASE nth[n + 1] # Undefined
  <2>1. nth[n] = last /\ Cardinality(Until(last)) = n /\ nth[n + 1] = next /\ next # Undefined
    BY <1>1, <1>2, <1>9 DEF next
  <2>2. next \in Nat /\ last < next /\ P(next) /\ \A t \in (last + 1) .. (next - 1) : ~P(t)
    BY <1>3, <2>1
  <2>3. Until(next) = Until(last) \cup {next}
    BY <1>2, <2>2
  <2>4. next \notin Until(last)
    BY <1>2, <2>2
  <2> HIDE DEF Until
  <2>5. IsFiniteSet(Until(next)) /\ Cardinality(Until(next)) = n + 1
    BY <1>2, <2>1, <2>3, <2>4, FS_AddElement
  <2>6. Told(n + 1) = Until(next)
    BY <1>2, <1>4, <1>9, <2>1, <2>3
  <2>7. from <= next
    BY <1>2, <2>2
  <2>8. CameTo(nth, schedule, zone, from, n + 1, next)
    BY <1>5, <2>1, <2>2, <2>5, <2>6, <2>7
  <2> QED
    BY <2>8 DEF schedule
<1> QED
  BY <1>8, <1>9

(* What a walk comes to.                                                   *)
LEMMA WalkReaches ==
    ASSUME NEW cron, NEW zone, IsZone(zone), HourLength \in Nat \ {0}, HORIZON \in Nat,
           NEW from \in Nat, NEW steps \in Nat
    PROVE  \E last \in Nat :
              LET ticks == Ticks(ByExpression(cron), zone, from, last) IN
              /\ from <= last /\ Walked(ByExpression(cron), zone, from, steps) = ticks
              /\ IsFiniteSet(ticks) /\ Cardinality(ticks) <= steps
              /\ \/ Cardinality(ticks) = steps
                 \/ \A t \in (last + 1) .. (last + HORIZON) : ~Promised(ByExpression(cron), zone, t)
<1> DEFINE schedule == ByExpression(cron)
<1> HIDE DEF schedule
<1>1. PICK nth : /\ IsWalk(nth, schedule, zone, from, steps)
                 /\ Walked(schedule, zone, from, steps) = {nth[n] : n \in 1 .. steps} \ {Undefined}
  BY WalkedIs
<1> DEFINE R(n, last) == CameTo(nth, schedule, zone, from, n, last)
           S == {n \in Nat : n <= steps => \E last : R(n, last)}
<1>2. 0 \in S
  <2>1. nth[0] = from
    BY <1>1 DEF IsWalk
  <2>2. Ticks(schedule, zone, from, from) = {} /\ {nth[n] : n \in 1 .. 0} = {}
    BY DEF Ticks
  <2>3. R(0, from)
    BY <2>1, <2>2, FS_EmptySet DEF CameTo
  <2> QED
    BY <2>3
<1>3. ASSUME NEW n \in S PROVE n + 1 \in S
  <2>1. n \in Nat /\ n + 1 \in Nat
    BY <1>3
  <2>2. ASSUME n + 1 <= steps PROVE \E last : R(n + 1, last)
    <3>1. n <= steps
      BY <2>1, <2>2
    <3>2. PICK last : R(n, last)
      BY <1>3, <3>1
    <3> QED
      BY <1>1, <2>1, <2>2, <3>2, WalkGoesOn DEF schedule
  <2> HIDE DEF R
  <2> QED
    BY <2>1, <2>2
<1>4. S = Nat
  <2> HIDE DEF S
  <2>1. S \in SUBSET Nat
    BY DEF S
  <2> QED
    BY <1>2, <1>3, <2>1, StepByStep
<1>5. PICK last : R(steps, last)
  <2> HIDE DEF R
  <2>1. steps \in S
    BY <1>4
  <2> QED
    BY <2>1
<1> QED
  BY <1>1, <1>5 DEF CameTo, schedule

(* For any expression and zone, between instants no further apart than a   *)
(* search goes: what betweenOf counts by a walk is the number of promised  *)
(* ticks strictly between them, or the most it counts where there are more *)
(* (schedule.ts:82-87, cron.ts:275-285).                                   *)
THEOREM TicksAreCounted ==
    ASSUME NEW cron, NEW zone, IsZone(zone), HourLength \in Nat \ {0}, HORIZON \in Nat, CountMax \in Nat,
           NEW from \in Nat, NEW to \in Int, to - 1 <= from + HORIZON
    PROVE  LET schedule == ByExpression(cron)
               number   == Cardinality({t \in (from + 1) .. (to - 1) : Promised(schedule, zone, t)})
           IN  BetweenOf(schedule, zone, from, to) = IF number <= CountMax THEN number ELSE CountMax
<1> DEFINE schedule == ByExpression(cron)
           P(t) == Promised(schedule, zone, t)
           ticks == {t \in (from + 1) .. (to - 1) : P(t)}
           walked == Walked(schedule, zone, from, CountMax)
           counted == {t \in walked : t < to}
<1>1. BetweenOf(schedule, zone, from, to) = Cardinality(counted)
  BY DEF BetweenOf, ByExpression
<1>2. PICK last \in Nat :
         /\ from <= last /\ walked = {t \in (from + 1) .. last : P(t)}
         /\ IsFiniteSet(walked) /\ Cardinality(walked) <= CountMax
         /\ \/ Cardinality(walked) = CountMax
            \/ \A t \in (last + 1) .. (last + HORIZON) : ~P(t)
  <2> HIDE DEF schedule, walked
  <2>1. CountMax \in Nat /\ from \in Nat
    OBVIOUS
  <2>2. PICK last \in Nat :
         /\ from <= last /\ walked = Ticks(schedule, zone, from, last)
         /\ IsFiniteSet(Ticks(schedule, zone, from, last)) /\ Cardinality(Ticks(schedule, zone, from, last)) <= CountMax
         /\ \/ Cardinality(Ticks(schedule, zone, from, last)) = CountMax
            \/ \A t \in (last + 1) .. (last + HORIZON) : ~Promised(schedule, zone, t)
    BY <2>1, WalkReaches DEF schedule, walked
  <2>3. Ticks(schedule, zone, from, last) = {t \in (from + 1) .. last : P(t)}
    BY DEF Ticks
  <2> HIDE DEF P
  <2> QED
    BY <2>2, <2>3 DEF P
<1> HIDE DEF schedule, P, walked
<1>3. IsFiniteSet(ticks) /\ Cardinality(ticks) \in Nat
  <2>1. from + 1 \in Int /\ to - 1 \in Int
    OBVIOUS
  <2>2. IsFiniteSet((from + 1) .. (to - 1)) /\ ticks \in SUBSET ((from + 1) .. (to - 1))
    BY <2>1, FS_Interval
  <2> HIDE DEF ticks
  <2> QED
    BY <2>2, FS_Subset, FS_CardinalityType
<1>4. Cardinality(walked) \in Nat
  BY <1>2, FS_CardinalityType
<1>5. counted \in SUBSET walked /\ counted \in SUBSET ticks
  BY <1>2
<1>6. CASE counted = ticks
  <2> HIDE DEF counted, ticks
  <2>1. Cardinality(ticks) <= Cardinality(walked)
    BY <1>2, <1>5, <1>6, FS_Subset
  <2>2. Cardinality(ticks) <= CountMax
    BY <1>2, <1>3, <1>4, <2>1
  <2>3. BetweenOf(schedule, zone, from, to)
            = IF Cardinality(ticks) <= CountMax THEN Cardinality(ticks) ELSE CountMax
    BY <1>1, <1>6, <2>2
  <2> QED
    BY <2>3 DEF ticks, schedule, P
<1>7. CASE counted # ticks
  <2>1. PICK t \in ticks : t \notin counted
    BY <1>5, <1>7
  <2>2. t \in Int /\ from < t /\ t < to /\ P(t)
    BY <2>1
  <2>3. last < t
    BY <1>2, <2>1, <2>2
  <2>4. t \in (last + 1) .. (last + HORIZON)
    BY <1>2, <2>2, <2>3
  <2>5. Cardinality(walked) = CountMax
    BY <1>2, <2>2, <2>4
  <2>6. counted = walked /\ t \notin walked /\ walked \cup {t} \in SUBSET ticks
    BY <1>2, <2>2, <2>3
  <2> HIDE DEF counted, ticks
  <2>7. IsFiniteSet(walked \cup {t}) /\ Cardinality(walked \cup {t}) = CountMax + 1
    BY <1>2, <2>5, <2>6, FS_AddElement
  <2>8. CountMax + 1 <= Cardinality(ticks)
    BY <1>3, <2>6, <2>7, FS_Subset
  <2>9. BetweenOf(schedule, zone, from, to)
            = IF Cardinality(ticks) <= CountMax THEN Cardinality(ticks) ELSE CountMax
    BY <1>1, <1>3, <2>5, <2>6, <2>8
  <2> QED
    BY <2>9 DEF ticks, schedule, P
<1> QED
  BY <1>6, <1>7

(* A set of integers none of which is after `at` has a greatest, and Max   *)
(* is that.                                                                *)
LEMMA GreatestIs ==
    ASSUME NEW at \in Int, NEW S \in SUBSET Int, \A t \in S : t <= at, S # {}
    PROVE  Max(S) \in S /\ \A t \in S : t <= Max(S)
<1> DEFINE D == {at - t : t \in S}
<1>1. D \in SUBSET Nat /\ D # {}
  <2>1. ASSUME NEW t \in S PROVE at - t \in Nat
    <3>1. t \in Int /\ t <= at
      OBVIOUS
    <3> QED
      BY <3>1
  <2>2. PICK t \in S : TRUE
    OBVIOUS
  <2>3. at - t \in D
    OBVIOUS
  <2> QED
    BY <2>1, <2>3
<1>2. PICK d \in D : \A e \in D : d <= e
  <2> HIDE DEF D
  <2> QED
    BY <1>1, LeastNatural
<1>3. PICK m \in S : d = at - m
  OBVIOUS
<1>4. ASSUME NEW t \in S PROVE m >= t
  <2>1. d <= at - t
    BY <1>2
  <2> QED
    BY <1>3, <2>1
<1>5. \E x \in S : \A y \in S : x >= y
  BY <1>4
<1>6. Max(S) \in S /\ \A y \in S : Max(S) >= y
  BY <1>5 DEF Max
<1> QED
  BY <1>6

(* For any expression and zone, looking back no further than a search goes:*)
(* the tick a start catches up from is the last promised since the one     *)
(* recorded, unless the walk ended at its ceiling, with the most it walks  *)
(* over since; there is none where none fell (schedule.ts:89-109).         *)
THEOREM LastTickIsTheLast ==
    ASSUME NEW cron, NEW zone, IsZone(zone), HourLength \in Nat \ {0}, HORIZON \in Nat, WalkMax \in Nat \ {0},
           NEW since \in Nat, NEW at \in Int, at <= since + HORIZON
    PROVE  LET schedule == ByExpression(cron)
               fell     == {t \in (since + 1) .. at : Promised(schedule, zone, t)}
               last     == LastBefore(schedule, zone, at, since)
           IN  \/ fell = {} /\ last = Undefined
               \/ /\ last \in fell
                  /\ \/ \A t \in fell : t <= last
                     \/ Cardinality({t \in fell : t <= last}) = WalkMax
<1> DEFINE schedule == ByExpression(cron)
           P(t) == Promised(schedule, zone, t)
           fell == {t \in (since + 1) .. at : P(t)}
           last == LastBefore(schedule, zone, at, since)
           walked == Walked(schedule, zone, since, WalkMax)
           past == {t \in walked : t <= at}
<1>1. last = IF past = {} THEN Undefined ELSE Max(past)
  BY DEF LastBefore, ByExpression
<1>2. PICK end \in Nat :
         /\ since <= end /\ walked = {t \in (since + 1) .. end : P(t)}
         /\ IsFiniteSet(walked) /\ Cardinality(walked) <= WalkMax
         /\ \/ Cardinality(walked) = WalkMax
            \/ \A t \in (end + 1) .. (end + HORIZON) : ~P(t)
  <2> HIDE DEF schedule, walked, last
  <2>1. WalkMax \in Nat /\ since \in Nat
    OBVIOUS
  <2>2. PICK end \in Nat :
         /\ since <= end /\ walked = Ticks(schedule, zone, since, end)
         /\ IsFiniteSet(Ticks(schedule, zone, since, end)) /\ Cardinality(Ticks(schedule, zone, since, end)) <= WalkMax
         /\ \/ Cardinality(Ticks(schedule, zone, since, end)) = WalkMax
            \/ \A t \in (end + 1) .. (end + HORIZON) : ~Promised(schedule, zone, t)
    BY <2>1, WalkReaches DEF schedule, walked
  <2>3. Ticks(schedule, zone, since, end) = {t \in (since + 1) .. end : P(t)}
    BY DEF Ticks
  <2> HIDE DEF P
  <2> QED
    BY <2>2, <2>3 DEF P
<1> HIDE DEF schedule, P, last, walked
<1>3. past \in SUBSET fell /\ past \in SUBSET Int /\ \A t \in past : t <= at
  BY <1>2
<1>4. past # {} => last \in past /\ \A t \in past : t <= last
  <2> HIDE DEF past
  <2> QED
    BY <1>1, <1>3, GreatestIs
<1>5. CASE past = fell
  <2>1. CASE fell = {}
    BY <1>1, <1>5, <2>1 DEF schedule, P, last
  <2>2. CASE fell # {}
    <3>1. last \in fell /\ \A t \in fell : t <= last
      BY <1>4, <1>5, <2>2
    <3> QED
      BY <3>1 DEF schedule, P, last
  <2> QED
    BY <2>1, <2>2
<1>6. CASE past # fell
  <2>1. PICK t \in fell : t \notin past
    BY <1>3, <1>6
  <2>2. t \in Int /\ since < t /\ t <= at /\ P(t)
    BY <2>1
  <2>3. end < t
    BY <1>2, <2>1, <2>2
  <2>4. t \in (end + 1) .. (end + HORIZON)
    BY <1>2, <2>2, <2>3
  <2>5. Cardinality(walked) = WalkMax
    BY <1>2, <2>2, <2>4
  <2>6. past = walked
    BY <1>2, <2>2, <2>3
  <2>7. walked # {}
    BY <2>5, FS_EmptySet
  <2>8. last \in walked /\ \A u \in walked : u <= last
    BY <1>4, <2>6, <2>7
  <2>9. last \in fell /\ {u \in fell : u <= last} = walked
    BY <1>2, <1>3, <2>2, <2>3, <2>6, <2>8
  <2>10. Cardinality({u \in fell : u <= last}) = WalkMax
    BY <2>5, <2>9
  <2> QED
    BY <2>9, <2>10 DEF schedule, P, last
<1> QED
  BY <1>5, <1>6
=============================================================================
