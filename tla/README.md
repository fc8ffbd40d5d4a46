# A verification project for wilanis

wilanis is a document language with an engine. A tree of JSON documents is judged by a compiler, lowered to graphs of
calls, maps and switches, and run by a kernel; plugins stand behind ports: stores, queues, schedules, HTTP, traces.
The modules here model the parts of it in which order, failure and time decide what is right. Every path below is
under `packages/` unless it says otherwise.

TLC checks the models on small instances (`tlc -config X.cfg M`), TLAPS proves the theorems for every value of the
constants (`tlapm M.tla`). `PROJECT.json` names, for each definition, the lines it translates; for each property, a
plausible bug that breaks it (the operators commented `mutant:` stand beside the definitions they change); and for
each hazard of the code, the properties that would catch it.

## 1. The system's parts

| Part | State it keeps | What it does | What is hard | What makes it right | Here |
|---|---|---|---|---|---|
| **kernel** `engine/src/run.ts`, `plan.ts`, `report.ts`, `kernel.ts` | one run: a report per node, the wake promise, how the run ended, who caught what | starts every ready node, routes switches, holds caught faults, cancels branches, answers a report | many handlers in flight; a pass whose own switch ends the run; faults after a cancel; nodes left hanging | order, one branch, no dropped fault, an answer always, the right node blamed | `Graph`, `Kernel` |
| **map nodes** `engine/src/map.ts` | a cursor, a report and a result an element | workers take elements, stop at a break | workers share the cursor across awaits; a run that ends elsewhere | bound, order, nothing after a break, whole or blamed answers | `MapNode` |
| **retry and timeout** `compiler/src/attempts.ts` | the try under way, the waits | wraps a handler: tries, waits, a timer | a timed-out handler flies on under a later try; an abort in a wait | the report tells what was tried; a late handler changes nothing | `Attempts` |
| **atomic graphs** `compiler/src/atomic.ts`, `compiler.ts`, `plugin-storage/src/handlers.ts` | the scope: a connection and its opening | nodes join, the run's report commits or rolls back | several nodes join at once; a commit that fails; a node timed out in a statement | one transaction; the caller is told what was committed | `Atomic` |
| **the judge** `compiler/src/checker.ts`, `check/` | none | refuses documents | none (pure) | the graphs it lets through run | its routing rules, in `Graph!Judged` |
| **queue contract and worker** `plugin-queue/src` | consumers of several connections | consumes, publishes, reads outcomes | a start that fails half way | at least once, the latest attempt answers; no queue half-held | `Delivery`, `Worker` |
| **table broker** `plugin-storage-postgres/src/queue-table.ts`, `consumer.ts`, `renewal.ts` | rows with locks; a consumer's look, timer and deliveries | publish, look, hand out, renew, answer, stop | locks that lapse under a running delivery; lost replies, wakes and processes; a stop during a look | keeps the contract; forgets nothing; shares no attempt | `TableQueue`, `Renewal` |
| **listening session** `plugin-storage-postgres/src/listener.ts` | one session for the consumers of a connection, a pause, who is woken | opens, loses, reopens, closes | a consumer that joins or leaves while it opens or is lost | a notification raised meanwhile is made up for | `Listener` |
| **memory broker** `plugin-queue-memory/src` | a waiting list, a timer, slots | the same in one process | re-entrant pumps, the last slot | keeps the contract; holds its process | `MemoryQueue` |
| **scheduler and leases** `plugin-schedule/src`, `plugin-storage-postgres/src/leases.ts` | next ticks, runs in flight, a kept-back tick; a row a trigger | reach, take, run, renew, settle, catch up, stop | processes with clocks of their own; one hold for many ticks; reloads under the loop | a tick once, one run at a time, none stranded | `Schedule`, `TickLoop` |
| **cron** `plugin-schedule/src/cron.ts`, `schedule.ts` | none | the next instant of an expression in a zone | skipped and repeated hours, two day fields | each named minute once | `Cron` |
| **serving** `runtime/src/serve.ts`, `served.ts`, `post-load.ts`, `plugin-reload`; pools `plugin-storage-postgres/src/pool.ts` | generations of the tree, what each set up, what is held; a pool by connection | start, reload, stop | a reload racing a stop or another edit; teardown of what is shared | nothing left by a stop; the last edit served | `Served` |
| **SQLite turns** `plugin-storage-sqlite/src/turns.ts`, `handles.ts` | a chain of promises a file | waits, gives up, hands on | a give-up while the one before ends | in turn, one at a time; none stranded | `Turns` |
| **gate** `plugin-http/src/throttle.ts` | slots, starts of the last second, waiters | holds requests back | a woken waiter overtaken, or put to sleep by the rate | the bounds; no idle slot, no waiter dropped | `Throttle` |
| **exporter** `plugin-otel/src/exporter.ts` | a bounded buffer, a timer, batches under way | batches, flushes, last flush | a full buffer under a flush; a deadline | each span once: exported or said lost | `Exporter` |
| **migrations** `plugin-storage/src/plan*.ts`, `standing.ts`, `migrate.ts`, `ensure.ts`; `plugin-storage-postgres/src/steps.ts`, `counting.ts`, `inspect.ts`, `apply.ts` | the record of a database and the database | plans, counts, applies, records | a plan made over what another changes; steps that need one another's order | the record says what is; what was counted applies; no value lost unallowed | `Plans`, `Tables`, `Migration` |
| **lowering**, **core**, **auth**, **blobs**, **S3**, **HTTP parsing**, **SQL text**, **deploy**, **view**, **CLI** | files, streams, text | resolution, types, printing | data and I/O | | no (section 6) |

How they interact. A trigger (a request, a queued message, a tick) fires one **kernel** run. The kernel calls handlers
and learns of each one thing: that it answered, broke or refused. What a call is inside is invisible to it: a **map
node**, a call wrapped by **retry/timeout**, the nested run of an **atomic graph**. So `Kernel` sees any of these as
one `Handler`, and `MapNode`, `Attempts` and `Atomic` see the run round them as one flag (`ended`, `halted`), that may
be raised at any moment. The **queues** and the **scheduler** await the run as their handle; they see its outcome. The
brokers keep the contract `Delivery`; the **worker** is written against that alone. The table broker is woken by the
**listening session**, whose losses `TableQueue` takes as faults and `Listener` explains. Plugins are started and
stopped by **serving**, which is where `stop` comes from in every other module, and a **reload** changes the triggers
under `TickLoop` and closes the pool under a table consumer.

JavaScript runs one callback at a time, so a step of a model is what runs between two awaits: whatever can happen at an
await is another action. A statement to a database is one step where it runs and another where its reply is read.

## 2. The modules

### Graph, Kernel: one run of a graph

`Graph` is what a graph is, what `planOf` makes of it (`dependencies`, `routedBy`, `catchers`) and what the judge lets
through (`Judged`). Nodes are numbered in declared order. Which rule of a switch holds is a free choice, and so is
what a handler does; `reads` joins reads and `after`, which the kernel waits for alike.

`Kernel` is `execute` in `run.ts`. The scheduler's loop is `phase`: `Look` (compute what is ready; with an aborted
signal, cancel), `Start(n)` once for each ready node in declared order, `wait`, and `Resume`. A switch routes inside its
own `Start`: `Route` cancels what is behind the branches not chosen, lets go of faults a cancelled switch held, and may
so end the run in the middle of a pass. While the scheduler waits, `Finish`, `Fault`, `Refuse` (a handler settles),
`Settle` (the `finally` that records the order and resolves the wake) and `Abort` interleave. `ReportStatus`, `Blamed`
and `Needing` are `reportOf` and `outcomeOf`. `enders` is a history variable. Left out: values, timing, nested
reports, redaction.

### MapNode, Attempts, Atomic: what a call is inside

`MapNode`: `Launch` is the loop that calls the workers, `Turn(w)` all of a worker's work between two awaits (record
what its element came to, take the next ones that need no call, start one that does), `Handler(i)` and `RunEnds` the
world. `Attempts`: a try, the timer racing it, the wait and the abort that cuts it short; each try's handler is
tracked after nobody listens to it. `Atomic`: nodes start, their handlers join the scope (which opens one
transaction), write, and the run's quiescence settles the scope (`SettleScope`). `MCCalls` puts the three in one
model: they share nothing, so a behaviour is one call of one kind, and one run checks all three.

### Delivery, TableQueue, Renewal, MemoryQueue, Listener, Worker: the queues

`Delivery` is the contract: attempts are handed out, never one twice; only the latest one's answer counts, and it may be
lost. `TableQueue` and `MemoryQueue` implement it, the property `ImplementsDelivery` of each, under a refinement mapping
that reads `running` off the consumers' deliveries. `MCQueues` runs both.

`TableQueue`'s rows are those of `wilanis_queue`; a lock is free, held or lapsed. A consumer's `look` goes from the
statement (`TakeDue`) to its reply (`HandOut`, or `Untake` where a stop came between) to its end (`LookOver`, which arms
the timer or looks again). Of the messages a stop gives back, one that cannot be ends the look (`Promise.all`,
`consumer.ts:114`) while the others are on their way: `Untake` goes on beside whatever the look's end lets happen.
Answers are sent and then land; they name row and attempt (`RowOf`), as the WHERE clauses
do. The world may lapse a lock under a running delivery, lose a reply, fail a statement, lose the listening session or
kill a process: `MaxFaults` of these in one behaviour. Time is in `Renewal`: one delivery's lock and extensions against
a clock, with `Latency` bounding each leg while nothing fails.

`MemoryQueue`'s `Pump` is run wherever the code calls `pump`, inside the action that calls it.

`Listener` is one `Listening`: sessions are numbered as they are made, since the code may have two. A notification
reaches the sessions open when it is sent and dies with them; `owed` is who has not looked since.

`Worker` is the `consume` step: `ConsumeNext` and `HoldNext` walk connections and queues in order, `ConsumeFails` at any
of them stops what was consumed of that connection (`Undone`), and the process then stops what it held.

### Schedule, TickLoop, Cron: time

In `Schedule` a process reaches ticks in order (`Reach`), asks the keeper's row for one (`Acquire`), and when the reply
is read (`Taken`) runs it, drops it or keeps it back, as `overlap` says. A run is renewed (`Renew`) until it settles:
`MarkFired`, `Release`, and the turn in which the run is over and a kept-back tick starts (`RunOver`). `Stop`,
`Stopped`, `Crash` and `Start` are the process; `CatchUp` asks for the last tick that fell while it was down. Clocks are
not related: a process may reach a tick arbitrarily late. `Lapse` passes a hold nobody renews.

`TickLoop` has the other half: one process, several triggers, and the instants themselves. A pass (`Wake`, then
`Advance` for each tick that has come due, `NoneIsDue`, `Sleep`) judges by the moment it began and by the triggers it
read then (`read`; `left` are those it has still to judge); the clock, the runs' answers and reloads come between.
`due` is kept by path, as in the code. `taken`, `seededAt`, `edited`, `dropped` and `owed` only observe. What an
expression says is a parameter of the module: four constant operators (`TickAfter`, `TicksBetween`, `TickBefore`,
`IsTick`), and assumptions that the first is the next instant that is to fire, the second the number of those between two,
the third the last (`NextAssumption`, `BetweenAssumption`, `LastAssumption`).

`Cron` is what an expression names, as operators: fields, Vixie's rule, `NextTick` across an hour a zone skips or
repeats, intervals, and the walks `BetweenOf` and `LastBefore`. `Promised` is the reference: it says of one instant
whether it is to fire, with no search. The lengths of hours, days, weeks and months are constants; `Calendar` gives
small ones, an expression of each kind and zones that jump, works the ticks out once, and gives `TickLoop` its four
operators; TLC evaluates the assumptions on them in `migration_and_ticks`, and section 4 says which are proved of `Cron`.

### Plans, Tables, Migration: a database and its record

`Plans` is the planner and the classes, `Tables` what PostgreSQL does for a step, what is counted for one and what the
catalog reads back, `Migration` who runs them: processes that start (`ensure`), an operator (`migrate`), writes and
deploys of the next tree. A run reads what stands (`Read`), counts (`Judge`), and applies in one transaction (`Apply`),
which others may come between, a deployment too: a run under way goes on with the tree it read. `disturbed` remembers
whether its ground moved, `crossed` whether a plan of another tree moved it, `astray` what a crossed run then recorded,
and the tables that refer to that. `SetToSeq` fixes one order of collections and fields, since a declared order is some
order; a `unique` is the set of its fields (the code compares them in order, `plan-constraints.ts:12`). A failed step
rolls the transaction back (`Applied`, external: DDL is transactional). `Inspect` reads each table's own constraints:
where two tables hold one of the same name, which takes a rename and the old name made again, the catalog's join
(`inspect.ts:62-66`, by schema and name alone) reads them mixed, and that is not modelled.

### Served, Turns, Throttle, Exporter

`Served`: every load that is set up is a generation. `Prepare` is what a reload does before it swaps (`BeginReload`,
`Swap`, `Fails`), `TearDown` follows; the watcher's `Edit`, `Fire`, `Over` are its debounce timer. `crossed` is the
generations a stop does not know all of: those swapped in after it made its list, and those that had copied what is held
before a startup step held something more. `Turns`: a turn is asked for (`Ask`), comes (`Resolve`, `Enter`), is given up
(`GiveUp`, and still handed on, `PassOn`) or held by a transaction until it ends. `Throttle`: `Try` is the body of `run`
that a new, a woken and an awakened request go through alike; the starts it remembers are a set of requests, since each
starts once. `Exporter`: `Flush` is run inside the actions that call it, as `Try` is.

`MCParts` puts `Renewal`, `Turns`, `Throttle`, `Exporter`, `Listener`, `Served` and `Worker` in one model, and `MCSafety`
`Migration` and `TickLoop`, as `MCCalls` does for calls: the parts share no state, and a behaviour is one part's.

## 3. The runs

| Run | Instance | What it shows |
|---|---|---|
| `kernel_shapes` | every judged graph of four nodes with one switch, chosen shapes of six nodes in which two switches meet, and the graph of finding 2 | `RanInOrder`, `FaultsHeld`, `OneBranchRuns`, `StuckOnlyOnRoots`, `BlamesTheEnder`; liveness `RunAnswers` |
| `kernel_racing` (violated) | one graph of seven nodes | finding 1 |
| `kernel_starving` (violated) | one graph of six nodes | finding 2 |
| `calls` | a map of 4 elements, concurrency 1 to 5; up to 4 tries, waits that double past the timer; an atomic graph of 3 nodes and 2 connections | `AnswerIsWhole`, `BlamesABreak`, `NoLateStart`; `TriesAreTold`; `OneTransaction`, `AnswersWhatItCommitted`; liveness `CallsSettle` |
| `atomic_in_flight` (violated) | as `calls` | finding 3 |
| `queues` | table broker: 1 message, 2 consumers of 2 slots, 2 attempts, 2 faults, one of the two stopped; 3 messages, 1 consumer of 2 slots, no retries, 1 fault. Memory broker: 3 messages, 2 slots, 1 fault | `ImplementsDelivery`, `NoSharedAttempt`, `OnceUnlessFaulty`, `BoundedInFlight`, `StopDrains`, `NeverRelocked`; `MemoryKeepsThePromise`; liveness `NoneForgotten` |
| `schedule` | 2 processes, 3 ticks, 1 fault, 1 restart, each `overlap` | `OnceUnlessLoose`, `OneAfterAnother`, `StopLeavesNothing` |
| `schedule_twice` (violated) | 2 processes, no fault, 2 ticks | finding 4 |
| `migration_and_ticks` | 13 trees, 2 databases, a process and an operator, 2 rows, a word and a number, 1 write, 2 later deploys; 11 schedules, 3 zones, one day of a small calendar, 2 reloads | `InStep`, `UndisturbedApplies`, `LosesOnlyWhatWasAllowed`; `EveryTickOnce`, `MissedAreTheDropped` |
| `migration_additive` (violated) | 13 trees, 1 write, 1 deploy | finding 5 |
| `parts` | see `Parts.cfg` | `HealthyHoldsItsLock`; `InTurn`, `NoneStranded`; `AtMostPerSecond`, `NoSlotIdles`, `NothingDropped`; `Accounted`; `HeardInTheEnd`; `StopLeavesNothing`, `EditsAreTried`; `NothingHalfHeld` |
| `served_reload` (violated) | 3 edits, 3 pools | finding 6 |

**Bounds and why they are enough.** The kernel's decisions look at one node, its dependencies and one switch; the
smallest graphs in which two switches disagree over a node, or one cancels another that holds a fault, have six nodes
and are in `Shapes`; all graphs up to four nodes are there so that no shape was forgotten. `OneBranchRuns` speaks where
nothing was pre-supplied and is met by `Shapes` and the graph of finding 2 alone; section 4 has it of every graph. Maps
need two workers, one element each and two to come. A third try is the first whose wait is a doubled one; the fourth's
doubling passes the timer. Three nodes are the fewest in which one joins while one opens and one has failed. One message
is enough for every race between its takes, since rows share nothing but slots; slots need more messages than slots. Two
faults are a lapse and a crash, or a lapse and a lost reply; one attempt after each is two attempts. Three ticks are one
in flight, one kept back and one that supersedes it. Of the two consumers on one message one is stopped, since the code
treats them alike, and a lost session concerns one consumer, so `slots` has it; `NoneForgotten` follows one message of
three that the code does not tell apart. Four turns are one at the file, one that gives up behind it, one chained to
that, and one asked for once the file forgot the others. Four requests fill two slots, queue one and leave one to
overtake it; the rate's second is long enough for a slot to come free before it passes. Three batches are one being
sent, one refused and one flushed by the stop. Two losses of a session are one while it serves and one while it reopens.
Three edits are one that starts a reload and two that come during it. The trees of `MCMigration` differ pairwise by each
kind of step, and two deploys after the first make a rename, what was there before it, and its undoing; of the pairs of
a tree and the next, `Successions` keeps those by which each kind of step is taken, forth and back, and each exception
of `UndisturbedApplies` is met. A word in the table found at first, or written, is what no cast carries over. A day of
the calendar holds a jump with ticks on either side and inside it; a two-hour jump back is the longest the code looks
for, and a jump ahead of an hour swallows one tick. `LastTick`, `MaxFaults`, `MaxSlotsFaults`, `MaxStarts`,
`MaxFailures`, `Horizon`, `MaxTimes`, `MaxTurns`, `MaxSpans`, `MaxSessions`, `MaxLosses`, `MaxEdits`, `MaxPools`,
`MaxDeploys`, `Successions`, `MaxWrites`, `MaxReloads`, `StartTime` and `EndTime` are guards of the models and nothing
of the program; `Horizon` is `Renewal`'s, while `Cron`'s `HORIZON`, and its two maxima, stand for the code's own.

Symmetry is used in `schedule` (processes), which treats them alike and has no liveness property. Its processes are not
`Nobody` nor `Former`, the two names the keeper's row may hold for what is none of them (`ProcessAssumption`).

**Fairness.** `Kernel`: the event loop runs the scheduler's due callbacks, and a handler that was called settles sooner
or later; without the latter a run waits for ever, as the code does. A signal need never fire. `MapNode`: the same.
`Attempts`: only the wrapper and its timer are fair, the handler is not: a bounded call settles whatever its handler
does. `Atomic`: the database answers, the nodes' handlers settle. Queues: time passes, timers fire, statements answer
(perhaps with an error), a lost session is opened again, a handle answers. `Listener`: the pause ends, a connection
attempt settles, a notification on its way arrives or dies with its session. `Turns`: a callback that is due runs, and
a transaction ends; nobody has to give up. `Throttle`: time passes, timers fire, a request in flight settles (fetch
with its own timeout). `Exporter`: its two timers. `Served`: a reload under way and a stop under way go on; nobody has
to edit or to stop. Nothing obliges a publish, a stop, a crash, a lost reply or a failing extension. `Schedule`,
`Renewal`, `Migration`, `TickLoop` and `Worker` have safety properties only and state no fairness.

**Deadlock** is checked in `kernel_*`, `calls`, `queues` and `schedule`, whose modules say with an action where the
system rightly stops (`Over`, `Quiet`, `AtRest`, `Done`). In `parts`, `migration_and_ticks` and the runs of their parts
it is not: a stopped process, an idle gate or a database nobody deploys to any more has nothing left to do, and what
must not get stuck there is a liveness property.

## 4. The proofs

Each module of proofs EXTENDS the module it is about, and keeps to one argument: an inductive invariant `IInv`, a lemma
an action that the action keeps it (`...IInv`, `...Keeps`), the theorems from it. Every such invariant was checked by TLC
on the instances of section 3 before it was proved.

`KernelProofs` (any `N`, any set of judged graphs; `NAssumption`, `GraphsAssumption`) has three invariants, one on top
of the other.

- `IInv`, for `TypeCorrect` and `RunsInOrder`, `Spec => []RanInOrder`: a node that has run did so behind everything it
  waits for. `RanInOrder` is not inductive: a node is found ready in one step and started in a later one, with switches
  routing and possibly ending the run between. `ReadyStands` says that what the pass has still to start has not started
  and that what it was found ready by still holds; `HeldOnlyOfFailed` and `ChosenOnlyByDone`, that a route or a fault
  written now disturbs no node that had them. The hard step is `Route`: a switch that cancels another lets go of the
  faults it held, which could take away what a started node ran by; `TargetsWait` and `DownstreamStep` show that what
  it cancels is pending or waits for something that is, so it was never a reason for anything that ran.
- `RoutingInv`, for `NoFaultIsDropped` (`FaultsHeld`), `OneBranchOnly` (`OneBranchRuns`) and `NothingLeftHanging`
  (`StuckOnlyOnRoots`). A fault is held by the switch the plan names; a switch that is done chose one of its targets,
  and what it did not choose, and whatever waits for a cancelled node, is cancelled or was pre-supplied
  (`UnchosenLeft`, `BehindCancelledLeft`); a run that ended left nothing pending. That nothing is left hanging is an
  argument by a foremost node: of those pending and not behind what is excused, one waits for nothing pending, so
  every reason it has to wait is a node that broke and whose fault went elsewhere, or is not there at all. There is
  one because the judge lets no cycle through (`FirstOf`, `Foremost`).
- `BlameInv`, for `TheEnderIsBlamed` (`BlamesTheEnder`): the nodes in the order they settled, those about to be told of
  included (`Line`), hold every node that failed, and the first of them whose fault no switch holds is one that ended the
  run. The report looks for just that node.

The proof of `StuckOnlyOnRoots` showed an earlier form of it false in two corners that no instance then had: a node
pre-supplied behind a switch may stand on a branch the switch leaves, so what waits both for it and for a broken node is
not cancelled; and a switch that holds two faults routes only the first (finding 2). The property now says so
(`Overlooked`, and its condition on `seeded`); `SmallAndShapes` has the graph of finding 2 among its shapes.

`TableQueueProofs` (any consumers, any numbers of messages, slots and faults; `SizesAssumption`: the options are numbers
and a table has finitely many rows).

- `IInv`, for `TypeCorrect`, `AttemptsAreApart` (`NoSharedAttempt`) and `NoMoreThanConcurrency` (`BoundedInFlight`).
  `Fitting` says that what a look asked for, what it took and what is in flight fit the slots together, from the moment
  the look counted its room: between that and its reply deliveries only end. `Counted` and `NoSharedAttempt` say that a
  take is of an attempt that was counted, at most the row's, and about in one place; an untake that counts an attempt
  back is the hard case: it does so only where the row is still at that attempt, so no other take has it or a later one
  (`UntakeIInv`).
- `HasTheRow`, for `OnlyFaultsOverlap` (`OnceUnlessFaulty`): while nothing has failed, whoever has a message has its row
  locked and at its attempt. `Steps` says which actions can touch that at all.
- `LocksComeOfTaking` (`NeverRelocked`) and `StopsLeaveNothing` (`StopDrains`) are proved of each step from `IInv`; the
  second also from `Untaken`: until something failed, a consumer whose look is over has nothing left to give back.
- `HInv`, for the refinement. `KeepsThePromise` is `Spec => ImplementsDelivery`: under the mapping `running <- Deliveries`
  the initial state is `Delivery`'s and each step is one of its steps or a stutter (`StepRefines`, an action at a time).
  `HInv` relates what was handed out to the rows: no attempt handed out is ahead of its row (`HandedBehind`), what a look
  took was not handed out before, although an attempt may have been counted back and taken again (`NotYetHanded`), and a
  parked row is nobody's take (`ParkedIsNobodys`), so an answer that lands is the latest one's.

`MemoryQueueProofs` (any messages, slots and dropped answers; `SizesAssumption`): `KeptInOnePlace` and `MemoryIsABroker`,
`Spec => MemoryKeepsThePromise`, the refinement of `Delivery` with that invariant beside it. `IInv` is `Sound`: a message is
on the waiting list at most once, and not while it is in flight (`Placed`); what is in flight or was handed out is at most
at its attempt (`Numbered`). `take` filters what it hands over out of the list; `LeftOver` says the same by numbering the
places that stay, and `Counting` shows that the numbering loses none and repeats none.

`ScheduleProofs` (any processes, ticks, restarts and faults; `BoundsAssumption`, `ProcessAssumption`).

- `IInv`, for `TypeCorrect`, `OneRunAfterAnother` (`OneAfterAnother`) and `NothingIsLeftBehind` (`StopLeavesNothing`).
  What a process asks for is newer than all it has in flight (`AskedInOrder`); no two runs (`AtMostOne`); and what is
  kept back has a run to wait for (`WaitsForARun`), which a dispatch must not break when the run ended while the tick was
  being asked for, nor the end of a run when a later tick superseded the one kept back. A stop's answer changes nothing of
  what is in flight: that nothing is (`DownIsEmpty`) comes of what it awaited, and the tick kept back stays where it is,
  unstarted, until the process is.
- `HeldInv`, for `FiresOnce` (`OnceUnlessLoose`): as long as nothing failed, of a tick that is not `loose`, a grant still
  keeps the hold and nobody has fired it (`GrantHolds`); once fired it is recorded, or its run keeps the hold
  (`FiredHolds`); nothing older is in flight beside that run, whose settling would let go of the hold under it
  (`NothingOlder`); and it fired in one process. The row is the only thing processes share, and each of these is stable
  under every action of another process because it is stated of the row's holder.

`CallsProofs` is about the three kinds of call: `MapNode` by itself, and all of them as `MCCalls` has them
(`LengthAssumption`, `MapsAssumption`, `PoliciesAssumption`, `NodeAssumption`, `GraphsAssumption`).

- `MapNode` (any list, any `concurrency`, any order of settling): `ConcurrencyIsBounded`, `ElementsStartInOrder`,
  `HeldBackForAReason`, `AnswersForEveryElement`, `MapBlamesABreak`. Its `IInv` says what the cursor divides
  (`TakenInOrder`: below it everything has started or never will, above it nothing has), who is where (`WorkersAt`,
  `RunningIsAwaited`: an element in flight has a worker at it, and a worker that stopped found nothing more to take), why a
  map stops (`StoppedByABreak`) and that what was left behind is recorded as it stands (`Recorded`). The bound is then a
  counting argument: the elements in flight are among the images of the workers. That a failed map blames a break rests
  on `FirstBroke`: of the elements recorded broken there is a first one, and it did break, since what was held back is
  recorded so.
- All kinds: `NothingStartsLate` (`NoLateStart`). A turn takes its next element after it has recorded the break
  (`TakeNextHeldBack`), and a signal cuts a wait short in the turn in which it fires: a cancelled call is never waiting
  (`CallIInv`).
- `Attempts` (any policy and timer): `EveryTryIsTold` (`TriesAreTold`). `Told` adds where the last wait of the report comes
  from, so that the next one need only be compared with that (`WaitsGrow`), and that only what is to be tried again is
  waited after: an abort then makes the same ending stand. What `2 ^ n` is, no backend knows; that it doubles is a
  hypothesis of the theorem (`PowersDouble`), the only one here that is not about a constant of the model.
- `Atomic` (any finite set of nodes, any graphs over any connections): `OneTransactionOnly` (`OneTransaction`) and
  `AnswersTheCommitted` (`AnswersWhatItCommitted`). What makes one transaction one is that who waits for it, writes to it
  or has written reaches the connection it was opened on (`Joins`): a node of another one is refused before it waits. A
  settled scope follows a report (`Settling`), and only a scope that was never opened settles for nothing (`OpenedOnce`),
  so a caller is answered for a commit or where there was nothing to commit. `Handlers` ties the run's word about a node
  to its handler, which may be in flight after the node timed out: the proof does not assume that it has landed, and
  finding 3 is why.

`TimeProofs` is about the loop and about what an expression says. The loop, `TickLoop` (any trees, reloads, zones,
lateness, and any schedules of which the four assumptions hold):

- `IInv`, for `TicksAreTakenOnce` (`EveryTickOnce`): of a path no reload changed, what was taken since its first tick was
  worked out is every tick from then to the one it is next due at, and no other (`Takes`). It needs that a pass, which goes
  by the triggers it read, judges such a path by the schedule it still has (`AsRead`), although a reload may have come
  since the pass began, and that the passes' places and instants are in range (`Sane`).
- `DropIInv`, for `MissedIsWhatWasDropped` (`MissedAreTheDropped`): while nothing is reloaded, the ticks between the one
  last fired and the one next due are those dropped since (`Drops`). A tick is dropped when its run is still in flight,
  or when it is too late, or fell while no process ran, and what the next one says was missed is worked out from the two
  instants alone, in a later pass; `CatchUpDrops` is the case of a start, where the interval begins before the process does.

And `Cron` (any expression, any interval, any zone that jumps once by at most the two hours the code looks over, any
lengths of an hour; no invariant, it has no state):

- `FiresWhatIsPromised`: the two rules by which the search stops (a named minute that the clock did not read within the
  last two hours, or a named minute that a jump went over) are together the promise that a minute fires once, at the
  first instant the clock is at it or past it. Case by case: before, at and after the jump (`FirstAtIs`).
- `NextIsThePromised`: of every settings, what `nextOf` answers is the next promised tick, and it answers none only where
  none is within the search's reach.
- `IntervalsAreCounted` and `LastIntervalIsTheLast`: what intervals divide (`QuotientsAre`, `MultiplesAreCounted`).
- `TicksAreCounted` and `LastTickIsTheLast`: what an expression's walks come to, ceilings included: the count is the number
  of promised ticks up to the most that is counted, and the last one found is the last there is unless the walk ended at
  its ceiling. A walk is a recursive function: that there is one (`WalkExists`) and where it has come to after each step
  (`WalkGoesOn`: to an instant and all ticks up to it, or to where none is in reach) are shown by the least number for
  which they would fail (`StepByStep`).

With these the assumptions of `TickLoop` follow for `Cron`, for instants no further apart than a search goes and no more
ticks between them than the ceilings; TLC evaluates them all the same.

`MigrationProofs` (any trees and stores, any number of processes, writes and deploys; `ApartAssumption`: the operator is
no process and no row has null for a key; `StoresAssumption`, `TreesAssumption`: a store is tables whose rows have no
other columns, a tree finitely many declarations).

- `RecordKnowsTables` (`KnowsTheTables`, the first conjunct of `InStep`): whatever runs come between, a collection is
  recorded as there exactly where it has a table, unless a crossed run recorded it (`astray`). Two runs plan from one
  reading, and the second applies its plan to what the first left, so the plan alone must be reason enough. `Tidy` says
  what survives: what a run holds is a plan for the tree it read (`IsPlan`: it drops or renames away only what is
  declared no more, everything else it does to what is declared, and what it adopts has a table). Another plan of that
  tree takes nothing such a plan relies on; one of another tree may take the table it adopts, and crosses it (`Ground`,
  `PlanRemains`, `HoldsOn`). What a crossed run does not record, it leaves alone (`WrittenKnows`). What a plan of any
  length leaves of the tables is then said of its steps (`Leaves`): it takes none that is declared, each new one is some
  step's target, each one gone was dropped or renamed away, and no later step undoes any of this.
- `StartsKeepAll` (`StartingKeepsAll`): a process that applies its plan as it starts takes no table away and of no row a
  value, whatever was written or applied since it read and counted. This is the half of `LosesOnlyWhatWasAllowed` that
  is about starts, where the code has no second look: it is enough that a start applies only what is classed additive, and
  each such statement keeps every cell (`StatementKeeps`), even where the count it was classed by no longer holds.
- `StaysTidy`: the invariant itself. A plan is sequences put one behind the other by a fold over sets
  (`Each`, `FlattenSeq`), and what it leaves a recursive function: both are taken step by step with the least number for
  which a claim would fail (`FlattenIs`, `JoinIsPlan`, `WaysExist`, `PlanLeaves`).

`PartsProofs` has six components of `MCParts`, each with an invariant of its own.

- `Turns` (any number of turns; `TurnsAssumption`): `TurnsComeInOrder` (`InTurn`) and `OneWriterAtTheFile`. `InTurn` alone
  does not survive a give-up: the one who gave up hands its turn on only when it comes, and whether those behind may then
  go depends on the chain. `Chained` says it: each turn waits for the one before it or, where the file had forgotten it,
  for nobody, and then all before it are over; a promise that resolved has everything before it over. `ReachedIsFirst`
  and `HandOnIInv` carry it; `MoveIInv` covers the moves that neither ask nor hand on.
- `Throttle` (any number of requests, slots and any rate; `LimitsAssumption`, `SecondAssumption`, `RequestAssumption`):
  `SlotsAreUsed` (`NoSlotIdles`), `SlotsAreEnough` and `RateIsKept` (`AtMostPerSecond`). A request queues only if every slot
  is used by one in flight or promised to one woken or asleep. The step that could break it is `Finish`: one slot comes
  free and one waiter is woken, which keeps the sum (`FinishIInv`); and `Try`, where a newcomer overtakes the one woken,
  which then queues anew. `Counts` ties the gate's counter to the requests in flight and `Waits` says the queue holds each
  waiter once: without it a wake-up could reach nobody. The rate holds because the gate never forgets a start of the last
  second (`Rated`), although it shortens its memory at every try.
- `Exporter` (any batch, buffer and trace size; `SizesAssumption`): `EverySpanIsAccounted` (`Accounted`) and
  `NoSpanWaitsAlone`. The invariant is `Accounted` with `Orderly` (what waits has its timer; a stop leaves nothing waiting);
  `FlushAccounts` says once what a flush does to the sum, for the four actions that flush.
- `Renewal` (any window, latency, horizon; `HealthyAssumption`): `HealthyRunsHoldTheirLock`, `NoExtensionLandsLate`,
  `RenewalGoesOn`. `Timely` says where a delivery can be and that nothing under way is older than `Latency`; `InTime` says
  how much of the lock is left at each point of the cycle. The assumption is that half a window and two legs are less than
  a window. `Latency` bounds a leg as long as no extension fails; nothing in the code enforces that, so the theorem says
  under which database the code's "half a window" is enough.
- `Worker` (any connections and queues, in any order; `OrderAssumption`): `NoQueueIsLeftBehind` (`NothingHalfHeld`). By
  where the start is (`Answered`): what is consumed belongs to a connection that is held, or to the one being consumed, or
  it was told to stop before the failed start stops what it held.
- `Served` (any number of edits and pools): `NothingOutlivesTheProcess` (`StopLeavesNothing`). Each generation that no
  startup step came too late for holds all that runs, and only the one served is set up, but for the one a reload has
  still to tear down (`Undisturbed`); so a stop that knows the generation served, which is all but the `crossed` ones,
  has on its list whatever still runs, is set up or is on disk (`StillToStop`). The list is the reverse of what is held:
  `ReverseKeeps` says it leaves nothing out.

Only model-checked, and why:

- liveness (`RunAnswers`, `CallsSettle`, `NoneForgotten`, `NoneStranded`, `NothingDropped`, `HeardInTheEnd`,
  `EditsAreTried`): the prover has no rules for fairness;
- of the migrations, what needs the meaning of a plan and not only its shape: the rest of `InStep` (the record has the
  key, columns and guarantees of the table), `UndisturbedApplies`, and of `LosesOnlyWhatWasAllowed` the half about an
  operator. Each says that the steps from one declaration to another, done one after another under changing names, come
  to the second: an induction over the plan whose hypothesis is the planner's own correctness, field by field. The
  library's induction theorems take an operator as a parameter and cannot be used; the least counterexample, which does
  for the shape, was not taken that far.

What `PlanOf` and `Downstream` compute is defined by sets, not by recursion, so that proofs can use them; the code's
walks are loops.

## 5. Where the code and what is said of it part

Shown by a run:

1. `engine/src/run.ts:102` starts the rest of a pass after a switch in it ended the run (`kernel_racing`).
2. `engine/src/report.ts:52` answers `blocked` with no needs: the node a first fault is routed to reads the node that
   broke second, and is pending when the run comes to rest (`kernel_starving`).
3. `compiler/src/atomic.ts:60` says no handler is in flight when the scope settles; a node timed out leaves one
   (`atomic_in_flight`).
4. `plugin-schedule/src/holds.ts:81` stops renewing while a stop still waits for the run: a tick fires twice though
   nothing crashed (`schedule_twice`).
5. `plugin-storage/src/plan-class.ts:76` classes as additive, "cannot fail on data", a default that fills a column the
   same plan makes unique or a reference (`migration_additive`).
6. `plugin-storage-postgres/src/pool.ts:117` destroys on a reload the pool a held consumer took at its start
   (`served_reload`).

Noticed while modelling, with no run of its own; where a property would fail by it, the property names the exception:

- Schedules. A reload that edits a trigger's expression leaves it due at the old one's tick: `seed` works a tick out only
  for a name that has none and `forget` lets go only of names that are gone (`scheduler.ts:104-110`, `161-164`), so the
  trigger fires once at an instant its expression does not name, and misses what the new one names before it, against
  `scheduler.ts:78` and RFC 0010:272 (`EveryTickOnce` excepts `edited`). `missed` counts ticks another process
  fired (`fire.ts:18` against `scheduler.ts:201`). A tick refused because another process holds the trigger is fired by
  nobody if that process never reaches it (`holds.ts:65`).
- Cron. `every` is true of `*/N` (`cron.ts:102`), so a step in a day field is not looked at: `0 0 */2 * *` fires every
  day. "Further than any expression can go" (`cron.ts:178`) is not so of 29 February across a century.
- Migrations. `ensure` and `migrate` read a `was` mark differently (`ensure.ts:2-6`, `standing.ts:2-5`); a constraint
  keeps its name through a rename and a new one then meets it (`NameTaken`); a collection renamed onto one that is
  there fails (`RenamesOnto`); an `add` or `require` that was allowed as destructive fails all the same (`RowsWouldGo`);
  two runs at once plan from one reading, and the second fails or repeats (`disturbed`). Where they are of two trees, the
  second may apply over what the first did and record its own declaration: the record then says something other than the
  catalog, against "the database and its record are never out of step" (`apply.ts:5-6`), for nothing checks between the
  reading and the transaction that what was read still stands (`InStep` excepts `astray`, `UndisturbedApplies` what is
  later planned over it).
- Listening session. Closed by the last that leaves while it connects, it stays open (`listener.ts:66`); a consumer that
  joins in the pause before a reopening makes a second session (`listener.ts:100`; `HeardInTheEnd` excepts `doubled`).
- Serving. A tree swapped in after a stop made its list of what to stop is served on, with its plugins set up and its
  blob store on disk, and what a startup step holds once a reload's `prepare` has copied what is held (`served.ts:145`)
  is lost to the new tree, against `served.ts:104`; a stop then does not stop it (`StopLeavesNothing` excepts `crossed`).
- Table consumer. A stop may answer while messages are still being given back, once giving one back failed
  (`consumer.ts:113-116`), and that failure arms the timer of a consumer that is stopping (`StopDrains` excepts it).
- Worker. A consumer's start fails on its *second* look while deliveries of the first are under way, which nobody then
  awaits (`plugin-storage-postgres/src/consumer.ts:65`).
- Gate. With no `perSecond` the list of starts is never shortened, and a `perSecond` below one lets nothing start
  (`throttle.ts:17`, `36-39`, `52`).
- Exporter. The ceiling bounds what waits, not what is being sent (`exporter.ts:33`).
- SQLite. A transaction that waits for its turn when the tree is torn down begins after it (`handles.ts:195`).
- Values and types, which no module has: `listRead` and `typeOfValue` widen by the first member
  (`value-reads.ts:57-66`, `values.ts:69-73`, against `core/test/empty-list.test.ts:3`), and `assign.ts:36` says the
  narrower type wins where `unifyVar` keeps the wider.

## 6. What is not modelled, and why

The map covers a small share of the repository's lines and cannot honestly cover 30 % of them. Most of the implementation
is documents and text: loading and resolving a tree, types and expressions (`core`), the judge's rules about documents and
lowering (`compiler`), generated SQL of four engines, HTTP parsing, tokens, streams, deployment files, the viewer, the
command line's reports. These are sequential functions of their input with no state between calls; a model of one would
repeat it, and unit tests reach it. They are inputs of these models as free choices. Auth, blobs and S3 decide over or
move what an external store keeps. What keeps state over time, meets failure or runs beside something else is in section 2.

In parts that are modelled: the payload of a message and a report; a deadline of a run or a delivery; a schedule with no
lease; a lease's failures in a loop of several triggers (`TickLoop` grants every take, `Schedule` has one trigger);
leap years, names of months and days; a publish inside an atomic graph (one step at its commit); operators' `read` and
`requeue` of dead messages; scoped tables, stale marks and the rebuilds other engines do for a step; observers and
profiles of a served tree. Two modules that meet in the program meet here only through what one assumes of the other:
`TableQueue` has a flag where `Listener` has sessions, and takes its pool as alive where `Served` shows it may not be.

## 7. Plan

1. Theorems: type correctness of `Listener`; that a plan's steps bring the columns of a collection to what is declared,
   the induction the rest of `InStep` stands on.
2. `Listener` composed with `TableQueue` in place of its `session` flag.
3. `Tables` for SQLite, whose steps rebuild a table.
4. A run of its own for the trigger a reload edits, with `edited` no longer excepted.

A property that a theorem has settled for every instance may give its place among the runs to one that only TLC can check.
