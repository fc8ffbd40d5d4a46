-------------------------------- MODULE Served --------------------------------
(***************************************************************************)
(* One process that serves a tree: its start, the reloads of a watcher     *)
(* while documents are edited, its stop (runtime/src: serve.ts, served.ts, *)
(* post-load.ts; plugin-reload), and what a consumer of a table queue,     *)
(* held for the life of the process, keeps of the PostgreSQL plugin's      *)
(* module-level pools (pool.ts, broker.ts).                                *)
(*                                                                         *)
(* Every load that is set up is a generation: an embedder, its plugins and *)
(* its blob store.  A startup list of the two `holds` steps that matter    *)
(* here, in either order.                                                  *)
(***************************************************************************)
EXTENDS SequencesExt

CONSTANTS MaxEdits, MaxPools    \* bounds

NoPool == 0
NoReload == [stage |-> "none", gen |-> 0]

VARIABLES
    disk,       \* the edits made so far, and whether the tree passes its check now
    steps,      \* the startup steps still to run
    held,       \* per generation, what it holds in order of start; one per generation made
    current,    \* the generation being served
    seen,       \* the last edit the watcher was told of
    tried,      \* the last edit a reload loaded
    down,       \* the generations whose plugins are set up and not torn down
    running,    \* what is held and was not stopped
    pool,       \* the pool the plugin's module keeps for the connection
    pools,      \* how many were made; the higher numbers are the later ones
    destroyed,  \* the pools destroyed
    kept,       \* the pool the consumer captured, NoPool before
    debounce, again, reload,   \* the watcher's debounce, its flag, and the reload under way
    bye,        \* what a stop has still to stop, and the last generation it knew
    blobs,      \* the generations that served and whose blob store is on disk
    crossed     \* history: the generations that miss something held, or were swapped in after a stop began

servedVars == <<disk, steps, held, current, seen, tried, down, running, pool, pools, destroyed, kept,
                debounce, again, reload, bye, blobs, crossed>>

Serving    == [todo |-> <<"serving">>, known |-> 0]
Stopping   == bye # Serving
AllStopped == bye.todo = <<>>

(* postLoad of the first generation has run.                               *)
ServedInit ==
    /\ disk = [edits |-> 0, clean |-> TRUE]
    /\ steps \in {<<"watch", "consume">>, <<"consume", "watch">>}
    /\ held = <<<<>>>> /\ current = 1
    /\ seen = 0 /\ tried = 0
    /\ down = {1} /\ running = {}
    /\ pool = NoPool /\ pools = 0 /\ destroyed = {} /\ kept = NoPool
    /\ debounce = FALSE /\ again = FALSE /\ reload = NoReload
    /\ bye = Serving /\ blobs = {1} /\ crossed = {}

-----------------------------------------------------------------------------
(* The pool of the connection: the one made, or a new one.                 *)
PoolFor == IF pool # NoPool THEN pool ELSE pools + 1

Opens ==
    /\ pool' = PoolFor
    /\ pools' = IF pool = NoPool THEN pools + 1 ELSE pools
    /\ pools' <= MaxPools

(* The teardown of the plugin: the module's pools, whoever made them.      *)
ClosePools ==
    /\ destroyed' = IF pool = NoPool THEN destroyed ELSE destroyed \cup {pool}
    /\ pool' = NoPool
    /\ UNCHANGED pools

-----------------------------------------------------------------------------
(* A startup step starts what it holds.  It runs with the embedder of the  *)
(* start, whichever generation is served by then: those made by now miss it*)
Hold ==
    /\ steps # <<>> /\ ~Stopping
    /\ LET step == Head(steps) IN
          /\ steps' = Tail(steps)
          /\ held' = [held EXCEPT ![1] = Append(@, step)]
          /\ running' = running \cup {step}
          /\ IF step = "consume"
             THEN Opens /\ kept' = pool'
             ELSE UNCHANGED <<pool, pools, kept>>
    /\ crossed' = crossed \cup 2 .. Len(held)
    /\ UNCHANGED <<disk, current, seen, tried, down, destroyed, debounce, again, reload, bye, blobs>>

(* A request the tree being served answers from a store.                   *)
Use ==
    /\ ~Stopping /\ pool = NoPool /\ Opens
    /\ UNCHANGED <<disk, steps, held, current, seen, tried, down, running, destroyed, kept,
                   debounce, again, reload, bye, blobs, crossed>>

(* A document is written; the watcher waits for more before it reloads.    *)
Edit ==
    /\ disk.edits < MaxEdits
    /\ \E clean \in BOOLEAN : disk' = [edits |-> disk.edits + 1, clean |-> clean]
    /\ debounce' = ("watch" \in running)
    /\ seen' = IF "watch" \in running THEN disk.edits + 1 ELSE seen
    /\ UNCHANGED <<steps, held, current, tried, down, running, pool, pools, destroyed, kept,
                   again, reload, bye, blobs, crossed>>

-----------------------------------------------------------------------------
(* A mutant: a reload forgets what is held.                                *)
CarriedNone == <<>>

(* What a new embedder answers for: what the one served holds so far.      *)
Carried == held[current]

(* A reload begins: the tree is loaded and judged; one that passes gets an *)
(* embedder.                                                               *)
Prepare ==
    IF disk.clean
    THEN /\ reload' = [stage |-> "loading", gen |-> Len(held) + 1]
         /\ held' = Append(held, Carried)
    ELSE /\ reload' = [NoReload EXCEPT !.stage = "refused"]
         /\ UNCHANGED held

BeginReload ==
    /\ Prepare
    /\ tried' = disk.edits
    /\ crossed' = IF disk.clean /\ current \in crossed THEN crossed \cup {Len(held) + 1} ELSE crossed

(* The debounce is over.  One reload runs at a time, and an edit during it *)
(* is answered by the next one.                                            *)
Fire ==
    /\ debounce /\ debounce' = FALSE
    /\ IF reload.stage = "none"
       THEN BeginReload /\ UNCHANGED again
       ELSE again' = TRUE /\ UNCHANGED <<reload, held, tried, crossed>>
    /\ UNCHANGED <<disk, steps, current, seen, down, running, pool, pools, destroyed, kept, bye, blobs>>

(* The new generation's plugins set themselves up, and it is served.       *)
Swap ==
    /\ reload.stage = "loading"
    /\ down' = down \cup {reload.gen}
    /\ current' = reload.gen
    /\ blobs' = blobs \cup {reload.gen}
    /\ reload' = [reload EXCEPT !.stage = "swapped", !.gen = current]
    /\ crossed' = IF Stopping THEN crossed \cup {reload.gen} ELSE crossed
    /\ UNCHANGED <<disk, steps, held, seen, tried, running, pool, pools, destroyed, kept, debounce, again, bye>>

(* A plugin after the PostgreSQL one does not load: those before it are    *)
(* torn down again, and the last good tree goes on.                        *)
Fails ==
    /\ reload.stage = "loading"
    /\ reload' = [NoReload EXCEPT !.stage = "refused"]
    /\ ClosePools
    /\ UNCHANGED <<disk, steps, held, current, seen, tried, down, running, kept, debounce, again, bye, blobs, crossed>>

(* The generation before is torn down.                                     *)
TearDown ==
    /\ reload.stage = "swapped"
    /\ down' = down \ {reload.gen}
    /\ ClosePools
    /\ reload' = [NoReload EXCEPT !.stage = "over"]
    /\ UNCHANGED <<disk, steps, held, current, seen, tried, running, kept, debounce, again, bye, blobs, crossed>>

(* A mutant: an edit during a reload is forgotten.                         *)
GoesOnNever == FALSE

(* The watcher hears that the reload has ended.                            *)
GoesOn == again

Over ==
    /\ reload.stage \in {"refused", "over"}
    /\ again' = FALSE
    /\ IF GoesOn THEN BeginReload
       ELSE reload' = NoReload /\ UNCHANGED <<held, tried, crossed>>
    /\ UNCHANGED <<disk, steps, current, seen, down, running, pool, pools, destroyed, kept, debounce, bye, blobs>>

-----------------------------------------------------------------------------
(* A stop, of a start that a step failed or of a process that serves: what *)
(* the generation served now holds, in reverse, then its plugins, then     *)
(* every blob store of a generation served so far.                         *)
HeldNow == held[current]

Stop ==
    /\ ~Stopping
    /\ bye' = [todo |-> Reverse(HeldNow) \o <<"plugins", "blobs">>, known |-> current]
    /\ steps' = <<>>
    /\ UNCHANGED <<disk, held, current, seen, tried, down, running, pool, pools, destroyed, kept,
                   debounce, again, reload, blobs, crossed>>

StopOne ==
    /\ Stopping /\ ~AllStopped
    /\ bye' = [bye EXCEPT !.todo = Tail(@)]
    /\ LET one == Head(bye.todo) IN
          /\ running' = running \ {one}
          /\ debounce' = (debounce /\ one # "watch")
          /\ IF one = "plugins"
             THEN down' = down \ {current} /\ ClosePools
             ELSE UNCHANGED <<down, pool, pools, destroyed>>
          /\ blobs' = IF one = "blobs" THEN blobs \ (1 .. bye.known) ELSE blobs
    /\ UNCHANGED <<disk, steps, held, current, seen, tried, kept, again, reload, crossed>>

Reload == Fire \/ Swap \/ Fails \/ TearDown \/ Over
ServedNext == Hold \/ Use \/ Edit \/ Reload \/ Stop \/ StopOne

(* A timer fires and a reload and a stop go on; nobody has to edit.        *)
ServedSpec == ServedInit /\ [][ServedNext]_servedVars /\ WF_servedVars(Reload) /\ WF_servedVars(StopOne)

-----------------------------------------------------------------------------
(* Once a stop and the reload it came upon, if any, are over, nothing held *)
(* still runs, no plugin is set up, and no blob store that served is left  *)
(* (serve.ts bye): whether the stop met a reload that is refused, one that *)
(* tears the old tree down, or a debounce.  Not so of a tree swapped in    *)
(* after the stop listed what to stop, nor where a startup step held       *)
(* something that the tree served had not copied.                          *)
StopLeavesNothing ==
    AllStopped /\ reload.stage = "none" /\ current \notin crossed =>
        running = {} /\ down = {} /\ blobs = {} /\ ~debounce

(* Every edit the watcher was told of is loaded in the end, by a reload    *)
(* that read it or a later one, unless the process stops: an edit during a *)
(* reload is answered by the next one (plugin-reload).                     *)
EditsAreTried == <>[](Stopping \/ tried >= seen)

(* What was held stays held (served.ts:104): what consumes a queue can     *)
(* still reach it.                                                         *)
HeldStillWorks == "consume" \in running => kept \notin destroyed
=============================================================================
