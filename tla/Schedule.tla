------------------------------ MODULE Schedule -------------------------------
(***************************************************************************)
(* One scheduled trigger, kept by the schedulers of several processes that *)
(* share a lease: packages/plugin-schedule/src (scheduler.ts, holds.ts) and*)
(* the keeper's row, packages/plugin-storage-postgres/src/leases.ts.       *)
(*                                                                         *)
(* Ticks are numbered.  Each process reaches them by a clock of its own, as*)
(* late as its loop and its clock make it: nothing relates two processes.  *)
(* The hold is the database's: it does not lapse under a process that      *)
(* renews it (Renewal shows when half a ttl is enough), unless the keeper  *)
(* fails.                                                                  *)
(***************************************************************************)
EXTENDS Naturals, FiniteSets, TLC

CONSTANTS
    Process,
    Overlaps,       \* what the trigger's `overlap` may say
    LastTick,       \* bound: the ticks looked at
    MaxFaults,      \* bound: processes that die, and statements of the keeper that fail
    MaxStarts       \* bound: processes started again

Tick   == 1 .. LastTick
NoTick == 0
Nobody == "nobody"
Former == "former"      \* a process that is no more: each start is another holder

ASSUME BoundsAssumption ==
    /\ LastTick \in Nat \ {0} /\ MaxFaults \in Nat /\ MaxStarts \in Nat
ASSUME ProcessAssumption == Nobody \notin Process /\ Former \notin Process
ASSUME OverlapsAssumption == Overlaps \subseteq {"skip", "wait", "concurrent"}

VARIABLES
    overlap,    \* the trigger's; never written
    holder,     \* the row: who took the hold last,
    lapsed,     \*   whether held_until has passed,
    lastFired,  \*   the last tick recorded as fired
    stage,      \* each process: "up", "stopping" or "down"
    due,        \* the tick its loop is to judge next
    asked,      \* the tick it is asking the keeper for
    reply,      \* where that is: "none", "reading" (a catch-up), "sent", "granted"
    runs,       \* its runs: "none", "running", "marked" or "released"
    waiting,    \* the tick `overlap: wait` keeps back
    latest,     \* state.lastFired: the last tick this process fired
    fires,      \* (observed only) how often each process fired each tick
    loose,      \* (observed only) ticks whose hold nobody keeps up: taken beside a run whose
                \* end lets the hold go, or not yet answered when their process stopped
    crashes, failures, starts       \* (bounded)

row    == <<holder, lapsed, lastFired>>
loop   == <<due, asked, reply>>
kept   == <<runs, waiting, latest, fires>>
bounds == <<crashes, failures, starts>>
vars   == <<overlap, row, stage, loop, kept, loose, bounds>>

InFlight(p) == {t \in Tick : runs[p][t] # "none"}

(* What each variable holds.                                               *)
TypeOK ==
    /\ overlap \in Overlaps
    /\ holder \in Process \cup {Nobody, Former} /\ lapsed \in BOOLEAN
    /\ lastFired \in Tick \cup {NoTick}
    /\ stage \in [Process -> {"up", "stopping", "down"}]
    /\ due \in [Process -> 1 .. (LastTick + 1)]
    /\ asked \in [Process -> Tick \cup {NoTick}]
    /\ reply \in [Process -> {"none", "reading", "sent", "granted"}]
    /\ runs \in [Process -> [Tick -> {"none", "running", "marked", "released"}]]
    /\ waiting \in [Process -> Tick \cup {NoTick}]
    /\ latest \in [Process -> Tick \cup {NoTick}]
    /\ fires \in [Process -> [Tick -> Nat]]
    /\ loose \in SUBSET Tick
    /\ crashes \in 0 .. MaxFaults /\ failures \in 0 .. MaxFaults /\ starts \in 0 .. MaxStarts

-----------------------------------------------------------------------------
NoRuns == [t \in Tick |-> "none"]

Init ==
    /\ overlap \in Overlaps
    /\ holder = Nobody /\ lapsed = TRUE /\ lastFired = NoTick
    /\ stage = [p \in Process |-> "up"]
    /\ due = [p \in Process |-> 1]
    /\ asked = [p \in Process |-> NoTick] /\ reply = [p \in Process |-> "none"]
    /\ runs = [p \in Process |-> NoRuns]
    /\ waiting = [p \in Process |-> NoTick] /\ latest = [p \in Process |-> NoTick]
    /\ fires = [p \in Process |-> [t \in Tick |-> 0]]
    /\ loose = {} /\ crashes = 0 /\ failures = 0 /\ starts = 0

-----------------------------------------------------------------------------
(* The tick was judged: the next is due.  A catch-up leaves that alone.    *)
Judged(p) == due' = IF asked[p] = due[p] THEN [due EXCEPT ![p] = @ + 1] ELSE due

Asked(p) ==
    /\ asked' = [asked EXCEPT ![p] = NoTick]
    /\ reply' = [reply EXCEPT ![p] = "none"]
    /\ Judged(p)

-----------------------------------------------------------------------------
(* The keeper's statements.                                                *)

(* mutant: a tick that is recorded as fired is granted again               *)
GrantsFired(p, t) == holder = Nobody \/ lapsed \/ holder = p

Grants(p, t) == (holder = Nobody \/ lapsed \/ holder = p) /\ lastFired < t

Acquire(p) ==
    /\ reply[p] = "sent"
    /\ \/ /\ Grants(p, asked[p])
          /\ holder' = p /\ lapsed' = FALSE
          /\ reply' = [reply EXCEPT ![p] = "granted"]
          /\ UNCHANGED <<due, asked>>
       \/ /\ ~Grants(p, asked[p])          \* another holds it, or it was fired: let go
          /\ Asked(p)
          /\ UNCHANGED <<holder, lapsed>>
    /\ UNCHANGED <<overlap, lastFired, stage, kept, loose, bounds>>

(* The keeper refuses, or its answer is lost: the tick is let go.          *)
AcquireFails(p) ==
    /\ reply[p] \in {"sent", "granted"}
    /\ crashes + failures < MaxFaults
    /\ failures' = failures + 1
    /\ Asked(p)
    /\ UNCHANGED <<overlap, row, stage, kept, loose, crashes, starts>>

(* A run not answered asks for its tick again, every half ttl, until its   *)
(* process stops.  What the keeper answers is not read.                    *)
Renews(p) == stage[p] = "up" /\ \E t \in Tick : runs[p][t] = "running"

Renew(p, t) ==
    /\ stage[p] = "up"
    /\ runs[p][t] = "running"
    /\ Grants(p, t)
    /\ holder' = p /\ lapsed' = FALSE
    /\ UNCHANGED <<overlap, lastFired, stage, loop, kept, loose, bounds>>

(* The ttl runs out: on a hold nobody renews, or whose renewals failed.    *)
(* Asking and settling take less than what is left of it.                  *)
Lapse ==
    /\ ~lapsed
    /\ lapsed' = TRUE
    /\ IF \E p \in Process : /\ holder = p
                             /\ Renews(p) \/ reply[p] = "granted"
                                \/ (stage[p] = "up" /\ InFlight(p) # {})
       THEN crashes + failures < MaxFaults /\ failures' = failures + 1
       ELSE UNCHANGED failures
    /\ UNCHANGED <<overlap, holder, lastFired, stage, loop, kept, loose, crashes, starts>>

-----------------------------------------------------------------------------
(* The loop.                                                               *)

(* Its clock reaches the tick that is due: the keeper is asked for it.     *)
Reach(p) ==
    /\ stage[p] = "up"
    /\ reply[p] = "none"
    /\ due[p] <= LastTick
    /\ asked' = [asked EXCEPT ![p] = due[p]]
    /\ reply' = [reply EXCEPT ![p] = "sent"]
    /\ loose' = IF InFlight(p) = {} THEN loose ELSE loose \cup {due[p]}
    /\ UNCHANGED <<overlap, row, stage, due, kept, bounds>>

(* run(): the tick fires.                                                  *)
Run(p, t, runsNow) ==
    /\ runs' = [runs EXCEPT ![p] = [runsNow EXCEPT ![t] = "running"]]
    /\ fires' = [fires EXCEPT ![p][t] = @ + 1]
    /\ latest' = [latest EXCEPT ![p] = IF t > @ THEN t ELSE @]

KeepsBack(p) == overlap = "wait" /\ waiting[p] = NoTick

(* mutant: a run is in flight until it answers                             *)
RunsBeside(p) == overlap = "concurrent" \/ \A t \in Tick : runs[p][t] # "running"

RunsNow(p) == overlap = "concurrent" \/ InFlight(p) = {}

(* The hold is this process's: what `overlap` makes of the tick.           *)
Taken(p) ==
    LET t == asked[p] IN
    /\ reply[p] = "granted"
    /\ \/ RunsNow(p) /\ Run(p, t, runs[p]) /\ UNCHANGED waiting
       \/ ~RunsNow(p) /\ KeepsBack(p) /\ waiting' = [waiting EXCEPT ![p] = t]
             /\ UNCHANGED <<runs, latest, fires>>
       \/ ~RunsNow(p) /\ ~KeepsBack(p) /\ UNCHANGED kept        \* dropped
    /\ loose' = IF stage[p] = "up" THEN loose ELSE loose \cup {t}
    /\ Asked(p)
    /\ UNCHANGED <<overlap, row, stage, bounds>>

-----------------------------------------------------------------------------
(* A run.                                                                  *)

At(p, t, was, is) ==
    /\ runs[p][t] = was
    /\ runs' = [runs EXCEPT ![p][t] = is]

Greatest(t) == IF t > lastFired THEN t ELSE lastFired

(* The run answered, its renewing has ended, and its tick is recorded.     *)
MarkFired(p, t) ==
    /\ At(p, t, "running", "marked")
    /\ lastFired' = Greatest(t)
    /\ UNCHANGED <<overlap, holder, lapsed, stage, loop, waiting, latest, fires, loose, bounds>>

Release(p, t) ==
    /\ At(p, t, "marked", "released")
    /\ lapsed' = (lapsed \/ holder = p)
    /\ UNCHANGED <<overlap, holder, lastFired, stage, loop, waiting, latest, fires, loose, bounds>>

(* The keeper does not settle it: the hold expires on its own.             *)
SettleFails(p, t) ==
    /\ runs[p][t] \in {"running", "marked"}
    /\ crashes + failures < MaxFaults
    /\ failures' = failures + 1
    /\ runs' = [runs EXCEPT ![p][t] = "released"]
    /\ UNCHANGED <<overlap, row, stage, loop, waiting, latest, fires, loose, crashes, starts>>

(* The last run in flight starts the tick kept back.                       *)
StartsWaiting(p, t) == waiting[p] # NoTick /\ InFlight(p) = {t} /\ stage[p] = "up"

(* The run is over, in the same turn in which the tick kept back starts.   *)
RunOver(p, t) ==
    /\ runs[p][t] = "released"
    /\ \/ /\ StartsWaiting(p, t)
          /\ Run(p, waiting[p], [runs[p] EXCEPT ![t] = "none"])
          /\ waiting' = [waiting EXCEPT ![p] = NoTick]
       \/ /\ ~StartsWaiting(p, t)
          /\ runs' = [runs EXCEPT ![p][t] = "none"]
          /\ UNCHANGED <<waiting, latest, fires>>
    /\ UNCHANGED <<overlap, row, stage, loop, loose, bounds>>

-----------------------------------------------------------------------------
(* Stops, crashes and starts.                                              *)

Stop(p) ==
    /\ stage[p] = "up"
    /\ stage' = [stage EXCEPT ![p] = "stopping"]
    /\ loose' = loose \cup InFlight(p)
    /\ UNCHANGED <<overlap, row, loop, kept, bounds>>

(* mutant: stop awaits the loop and not the runs in flight                 *)
LoopDrained(p) == reply[p] = "none"

(* mutant: stop does not wait for the loop                                 *)
RunsDrained(p) == InFlight(p) = {}

(* The loop has ended, and every run in flight has answered.               *)
Drained(p) == reply[p] = "none" /\ InFlight(p) = {}

(* The stop answers.  What it finds is left as it is: a tick kept back     *)
(* stays so, and never starts.                                             *)
Stopped(p) ==
    /\ stage[p] = "stopping"
    /\ Drained(p)
    /\ stage' = [stage EXCEPT ![p] = "down"]
    /\ UNCHANGED <<overlap, row, loop, kept, loose, bounds>>

(* What a process kept is lost when it dies; one that starts has nothing,  *)
(* and is another holder than it was.                                      *)
Afresh(p) ==
    /\ runs' = [runs EXCEPT ![p] = NoRuns]
    /\ waiting' = [waiting EXCEPT ![p] = NoTick]
    /\ latest' = [latest EXCEPT ![p] = NoTick]
    /\ holder' = IF holder = p THEN Former ELSE holder

Crash(p) ==
    /\ stage[p] # "down"
    /\ crashes + failures < MaxFaults
    /\ crashes' = crashes + 1
    /\ stage' = [stage EXCEPT ![p] = "down"]
    /\ Afresh(p)
    /\ asked' = [asked EXCEPT ![p] = NoTick] /\ reply' = [reply EXCEPT ![p] = "none"]
    /\ UNCHANGED <<overlap, lapsed, lastFired, due, fires, loose, failures, starts>>

(* The first tick due is a future one; with catchUp the keeper is first    *)
(* asked what it last recorded.                                            *)
Start(p) ==
    /\ stage[p] = "down"
    /\ starts < MaxStarts
    /\ starts' = starts + 1
    /\ stage' = [stage EXCEPT ![p] = "up"]
    /\ Afresh(p)
    /\ \E now \in (due[p] - 1) .. LastTick :
          /\ due' = [due EXCEPT ![p] = now + 1]
          /\ \/ now = 0 /\ UNCHANGED <<asked, reply>>
             \/ now > 0 /\ \E catchUp \in BOOLEAN :
                   /\ reply' = [reply EXCEPT ![p] = IF catchUp THEN "reading" ELSE "none"]
                   /\ asked' = [asked EXCEPT ![p] = IF catchUp THEN now ELSE NoTick]
    /\ UNCHANGED <<overlap, lapsed, lastFired, fires, loose, crashes, failures>>

(* Fire the most recent tick that fell since, as one.                      *)
CatchUp(p) ==
    /\ reply[p] = "reading"
    /\ \/ /\ lastFired # NoTick
          /\ lastFired < asked[p]
          /\ latest' = [latest EXCEPT ![p] = lastFired]
          /\ reply' = [reply EXCEPT ![p] = "sent"]
          /\ UNCHANGED asked
       \/ /\ lastFired = NoTick \/ lastFired >= asked[p]
          /\ reply' = [reply EXCEPT ![p] = "none"]
          /\ asked' = [asked EXCEPT ![p] = NoTick]
          /\ UNCHANGED latest
    /\ UNCHANGED <<overlap, row, stage, due, runs, waiting, fires, loose, bounds>>

Keeper(p) == Acquire(p) \/ CatchUp(p) \/ \E t \in Tick : MarkFired(p, t) \/ Release(p, t)
Loop(p)   == Reach(p) \/ Taken(p) \/ Stop(p) \/ Stopped(p) \/ Start(p)
Runs(p)   == \E t \in Tick : Renew(p, t) \/ RunOver(p, t)
Fails(p)  == AcquireFails(p) \/ (\E t \in Tick : SettleFails(p, t)) \/ Crash(p)

AtRest ==
    /\ \A p \in Process : stage[p] = "down" \/ (reply[p] = "none" /\ due[p] > LastTick)
    /\ UNCHANGED vars

Next ==
    \/ Lapse \/ AtRest
    \/ \E p \in Process : Keeper(p) \/ Loop(p) \/ Runs(p) \/ Fails(p)

Spec == Init /\ [][Next]_vars

-----------------------------------------------------------------------------
Times(t) == Cardinality({p \in Process : fires[p][t] > 0})

Symmetry == Permutations(Process)

(* A tick fires once, whichever processes reach it and however late -- as  *)
(* long as no process died, the keeper never failed and the tick's hold was*)
(* kept up to its end (leases.ts:20-22, RFC 0010:288-291).                 *)
OnceUnlessLoose ==
    crashes = 0 /\ failures = 0 =>
        \A t \in Tick \ loose : Times(t) <= 1 /\ \A p \in Process : fires[p][t] <= 1

(* Unless `overlap` is `concurrent`, a process has one run of the trigger  *)
(* in flight at most -- settling included, so a tick kept back never starts*)
(* beside the run it waits for.  And it does start: it has a run in flight *)
(* whose end starts it, whichever ends last, or its process is being       *)
(* stopped (scheduler.ts:232-241).                                         *)
OneAfterAnother == \A p \in Process :
    /\ overlap # "concurrent" => Cardinality(InFlight(p)) <= 1
    /\ waiting[p] # NoTick =>
          stage[p] # "up" \/ (InFlight(p) # {} /\ waiting[p] \notin InFlight(p))

(* A stopping process starts no run but of a tick it had asked for before: *)
(* never the one kept back, however its runs end.  And a stop answers once *)
(* nothing it started is under way: no run of whatever tick, the one taken *)
(* while the stop was awaited included, and no tick being asked for        *)
(* (scheduler.ts:234-238, 287-293).                                        *)
StopLeavesNothing ==
    [][\A p \in Process :
        /\ \A t \in Tick : fires'[p][t] > fires[p][t] /\ stage[p] # "up" => asked[p] = t
        /\ stage'[p] = "down" => InFlight(p)' = {} /\ reply'[p] = "none"]_vars

-----------------------------------------------------------------------------
(* "That is the one case a tick runs twice, it is a crash" (RFC 0010:310). *)
TwiceOnlyAfterACrash == crashes = 0 => \A t \in Tick : Times(t) <= 1

=============================================================================
