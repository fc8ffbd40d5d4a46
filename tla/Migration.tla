------------------------------ MODULE Migration -------------------------------
(***************************************************************************)
(* The database of one connection, the record plugin-storage-postgres      *)
(* keeps of it, and who changes them: processes of the deployed tree that  *)
(* each prepare its store as they start (ensure.ts), an operator who runs  *)
(* `wilanis migrate` (migrate.ts of plugin-storage and of the runtime),    *)
(* and the writes of whatever serves meanwhile.  A run of either reads     *)
(* what stands, counts rows, and applies its plan, and others come in      *)
(* between: nothing is locked from the one to the other (standing.ts,      *)
(* apply.ts).  The next tree may be deployed at any of those moments, and  *)
(* what runs the one before goes on.                                       *)
(*                                                                         *)
(* One store holds the collections of the connection.  The queries of a    *)
(* reading are one step and the counts another.  A connection another tree *)
(* keeps, or whose engine keeps nothing, is skipped before any of this.    *)
(***************************************************************************)
EXTENDS Tables

CONSTANTS
    Process,        \* the processes that start the tree
    Operator,       \* who runs `wilanis migrate`
    Trees,          \* the trees that may be deployed, by a name for each
    Successions,    \* bound: the deployments looked at, pairs of a tree and the next
    Stores,         \* the databases found at first, none recorded
    RowKey, Cell,   \* the keys of rows, and what their other cells hold
    MaxDeploys, MaxWrites

(* A declaration, and a table no row of which has a column it has not.     *)
IsDeclaration(decl) ==
    /\ DOMAIN decl = {"key", "fields", "unique", "refs"}
    /\ IsFiniteSet(DOMAIN decl.fields) /\ IsFiniteSet(decl.unique) /\ IsFiniteSet(DOMAIN decl.refs)

IsConstraint(con) ==
    /\ DOMAIN con = {"name", "unique", "over", "to"}
    /\ con.unique \in BOOLEAN /\ (con.unique \/ IsFiniteSet(con.over))

IsTable(table) ==
    /\ DOMAIN table = {"key", "fields", "constraints", "rows"}
    /\ IsFiniteSet(DOMAIN table.fields) /\ IsFiniteSet(table.constraints)
    /\ \A con \in table.constraints : IsConstraint(con)
    /\ \A row \in table.rows : DOMAIN row \subseteq DOMAIN table.fields

ASSUME ApartAssumption == Operator \notin Process /\ None \notin RowKey
ASSUME StoresAssumption == \A store \in Stores : \A c \in DOMAIN store : IsTable(store[c])
ASSUME TreesAssumption ==
    \A t \in DOMAIN Trees :
        LET declared == Trees[t].declared IN
        /\ IsFiniteSet(DOMAIN declared)
        /\ \A c \in DOMAIN declared : declared[c] # None /\ IsDeclaration(declared[c])
ASSUME SuccessionsAssumption == Successions \subseteq (DOMAIN Trees) \X (DOMAIN Trees)

VARIABLES
    db,             \* the database: its tables, by name
    record,         \* what is recorded of each collection ever touched, None once gone
    tree, deploys,  \* the tree deployed, and how many were before it
    writes,
    run,            \* who runs what, and how far
    disturbed,      \* history: whose ground moved since it read what stands,
    crossed,        \*   whose ground a plan of another tree moved,
    astray          \*   and the collections such a one then wrote to

history == <<disturbed, crossed, astray>>
vars    == <<db, record, tree, deploys, writes, run, history>>

Runner == Process \cup {Operator}

Idle == [phase |-> "idle", tree |-> None, allow |-> {}, steps |-> <<>>, classes |-> <<>>]

(* One that has ended holds nothing but which tree it ran.                 *)
End(p, phase) == run' = [run EXCEPT ![p] = [Idle EXCEPT !.phase = phase, !.tree = run[p].tree]]

UnderWay(p) == run[p].phase \in {"read", "judged"}

Init ==
    /\ db \in Stores
    /\ record = <<>>
    /\ tree \in DOMAIN Trees
    /\ deploys = 0 /\ writes = 0
    /\ run = [p \in Runner |-> Idle]
    /\ disturbed = [p \in Runner |-> FALSE] /\ crossed = {} /\ astray = {}

-----------------------------------------------------------------------------
(* What stands, of the collections asked about: what is recorded of each,  *)
(* and the catalog's reading.                                              *)
Recorded(names) == [c \in {n \in names \cap DOMAIN record : record[n] # None} |-> record[c]]
Catalog(names)  == [c \in names \cap DOMAIN db |-> Inspect(db[c])]

(* The collections `migrate` asks about are those declared and every one   *)
(* the history names; `ensure` asks about those declared.                  *)
EverKnown(t) == DOMAIN t.declared \cup DOMAIN record
Asked(p, t)  == IF p = Operator THEN EverKnown(t) ELSE DOMAIN t.declared

(* Where the record and the catalog disagree about a collection.           *)
Drifted(names) ==
    {c \in DOMAIN Recorded(names) : c \notin DOMAIN db \/ Inspect(db[c]) # record[c]}

(* The plan from what stands now.  With `--adopt` what drifted is read     *)
(* from the catalog as if it were not recorded.                            *)
PlanOf(p, t, adopt) ==
    LET names    == Asked(p, t)
        drifted  == IF adopt THEN Drifted(names) ELSE {}
        recorded == [c \in DOMAIN Recorded(names) \ drifted |-> record[c]]
        found    == Catalog(names \ DOMAIN recorded)
    IN  Plan(t, recorded, found)

-----------------------------------------------------------------------------
(* A run of `ensure` as a process starts, or of `wilanis migrate --apply`  *)
(* reads what stands.  A record the database moved away from refuses a     *)
(* `migrate` that does not adopt.                                          *)
Read(p) ==
    /\ run[p].phase = "idle"
    /\ \E adopt \in IF p = Operator THEN BOOLEAN ELSE {FALSE} :
          IF p = Operator /\ ~adopt /\ Drifted(EverKnown(Trees[tree])) # {}
          THEN End(p, "refused")
          ELSE run' = [run EXCEPT ![p] =
                          [Idle EXCEPT !.phase = "read", !.tree = tree,
                                       !.steps = PlanOf(p, Trees[tree], adopt)]]
    /\ UNCHANGED <<db, record, tree, deploys, writes, history>>

(* What history says of a run that ended and changed nothing.              *)
Undone(p) == disturbed' = [disturbed EXCEPT ![p] = FALSE] /\ crossed' = crossed \ {p}

(* Its steps are counted and classed; a query on what is gone fails it.    *)
(* Of the collections the operator's flag named, those that matter now.    *)
Judge(p) ==
    /\ run[p].phase = "read"
    /\ LET steps   == run[p].steps
           classes == Classes(db, steps)
           costing == {steps[i].target : i \in {j \in DOMAIN steps : classes[j] = "destructive"}}
       IN  IF Countable(db, steps)
           THEN /\ \E allow \in IF p = Operator THEN SUBSET costing ELSE {{}} :
                      run' = [run EXCEPT ![p].phase = "judged", ![p].classes = classes, ![p].allow = allow]
                /\ UNCHANGED <<disturbed, crossed>>
           ELSE End(p, "failed") /\ Undone(p)
    /\ UNCHANGED <<db, record, tree, deploys, writes, astray>>

(* `ensure` applies what is additive throughout (ensure.ts); `migrate`     *)
(* what is not refused, and destructive steps only of the collections the  *)
(* operator named (blockedBy of the runtime's migrate.ts).                 *)
MayApply(p, i) ==
    IF p = Operator
    THEN /\ run[p].classes[i] # "refused"
         /\ run[p].classes[i] = "destructive" => run[p].steps[i].target \in run[p].allow
    ELSE run[p].classes[i] = "additive"

Applicable(p) == \A i \in DOMAIN run[p].steps : MayApply(p, i)

(* A mutant: the name a rename leaves stays recorded.                      *)
WrittenTargets(t, steps) == [c \in {steps[i].target : i \in DOMAIN steps} |->
                                IF c \in DOMAIN t.declared THEN t.declared[c] ELSE None]

(* What the record says once the steps applied: what is declared of every  *)
(* collection a step touched, and that one dropped, or left behind by a    *)
(* rename, is gone.                                                        *)
Written(t, steps) ==
    LET touched == {steps[i].target : i \in DOMAIN steps}
        vacated == {steps[i].from : i \in {j \in DOMAIN steps : steps[j].do = "renameCollection"}}
    IN  [c \in touched \cup vacated |-> IF c \in DOMAIN t.declared THEN t.declared[c] ELSE None]

Over(f, g) == [x \in DOMAIN f \cup DOMAIN g |-> IF x \in DOMAIN f THEN f[x] ELSE g[x]]

(* Those between their reading and their end, p itself ended; and of them  *)
(* those that run another tree than p.                                     *)
Disturbed(p) == [q \in Runner |-> q # p /\ (disturbed[q] \/ UnderWay(q))]
Crossed(p)   == (crossed \cup {q \in Runner : UnderWay(q) /\ run[q].tree # run[p].tree}) \ {p}

(* What a crossed run writes to: what it records, and the tables that refer*)
(* to that.  A table renamed takes along that its record was wrong.        *)
Strays(p) ==
    LET steps == run[p].steps
        told  == DOMAIN Written(Trees[run[p].tree], steps)
    IN  IF p \in crossed
        THEN told \cup {c \in DOMAIN db : \E con \in db[c].constraints : con.to \in told}
        ELSE {steps[i].target : i \in {j \in DOMAIN steps : steps[j].do = "renameCollection"
                                                            /\ steps[j].from \in astray}}

(* The steps and the record in one transaction, or neither.                *)
Apply(p) ==
    /\ run[p].phase = "judged" /\ Applicable(p)
    /\ LET steps == run[p].steps
           after == Applied(db, steps, Trees[run[p].tree].declared)
       IN  \/ /\ steps = <<>>
              /\ End(p, "done") /\ Undone(p)
              /\ UNCHANGED <<db, record, astray>>
           \/ /\ steps # <<>> /\ after # {}
              /\ db' \in after
              /\ record' = Over(Written(Trees[run[p].tree], steps), record)
              /\ End(p, "done")
              /\ disturbed' = Disturbed(p) /\ crossed' = Crossed(p)
              /\ astray' = astray \cup Strays(p)
           \/ /\ after = {}
              /\ End(p, "failed") /\ Undone(p)
              /\ UNCHANGED <<db, record, astray>>
    /\ UNCHANGED <<tree, deploys, writes>>

Refuse(p) ==
    /\ run[p].phase = "judged" /\ ~Applicable(p)
    /\ End(p, "refused") /\ Undone(p)
    /\ UNCHANGED <<db, record, tree, deploys, writes, astray>>

(* A process whose start failed is started again, and one that ran a tree  *)
(* deployed no more gives way to one that runs what is.                    *)
Restart(p) ==
    /\ \/ p \in Process /\ run[p].phase = "failed"
       \/ run[p].phase \in {"done", "refused", "failed"} /\ run[p].tree # tree
    /\ run' = [run EXCEPT ![p] = Idle]
    /\ UNCHANGED <<db, record, tree, deploys, writes, history>>

-----------------------------------------------------------------------------
(* A row put or removed by whatever serves, where the table lets it.       *)
Fits(table, row) ==
    /\ \A f \in DOMAIN row : row[f] = None => ~table.fields[f].required
    /\ \A f \in DOMAIN row : row[f] \in Words => table.fields[f].type # "number"

Rows(table) ==
    {row \in [DOMAIN table.fields -> Cell \cup RowKey \cup {None}] :
        /\ row[table.key] \in RowKey
        /\ \A f \in DOMAIN row \ {table.key} : row[f] \in Cell \cup {None}
        /\ Fits(table, row)}

Write(c) ==
    /\ writes < MaxWrites /\ writes' = writes + 1
    /\ \E row \in Rows(db[c]) :
          LET kept == {r \in db[c].rows : r[db[c].key] # row[db[c].key]} \cup {row} IN
          /\ \A con \in db[c].constraints : ~Breaks(db, kept, con)
          /\ db' = [db EXCEPT ![c].rows = kept]
    /\ disturbed' = [p \in Runner |-> UnderWay(p)]
    /\ UNCHANGED <<record, tree, deploys, run, crossed, astray>>

(* The next tree is deployed, whatever runs the one before: those under way*)
(* go on with the tree they read.                                          *)
Deploy ==
    /\ deploys < MaxDeploys /\ deploys' = deploys + 1
    /\ \E t \in DOMAIN Trees : <<tree, t>> \in Successions /\ tree' = t
    /\ run' = [p \in Runner |-> IF UnderWay(p) THEN run[p] ELSE Idle]
    /\ UNCHANGED <<db, record, writes, history>>

(* One run's steps, whoever it is.                                          *)
Start(p) == Read(p) \/ Judge(p) \/ Apply(p) \/ Refuse(p) \/ Restart(p)

Next ==
    \/ \E p \in Runner : Start(p)
    \/ \E c \in DOMAIN db : Write(c)
    \/ Deploy

Spec == Init /\ [][Next]_vars

-----------------------------------------------------------------------------
(* What the code is known not to carry, named so that the properties below *)
(* can say everything else: see the README's findings.                     *)

(* A constraint is added under a name another still bears: a reference     *)
(* whose target moved or was renamed, what was renamed and made again.     *)
NameTaken(steps) ==
    \E i \in DOMAIN steps : \E t \in DOMAIN db : \E con \in db[t].constraints :
        \/ steps[i].do = "unique" /\ con.name = UniqueName(steps[i].target, steps[i].over)
        \/ steps[i].do = "ref" /\ con.name = RefName(steps[i].target, steps[i].at)

(* A default fills a column that a guarantee is over, one the plan makes   *)
(* or one it was about to take away.                                       *)
FillsGuaranteed(steps, declared) ==
    \E i \in DOMAIN steps :
        /\ steps[i].fills
        /\ LET to   == declared[steps[i].target]
               over == UNION {con.over : con \in UNION {db[t].constraints : t \in DOMAIN db}}
           IN  steps[i].at \in DOMAIN to.refs \cup UNION to.unique \cup over

(* A collection is renamed onto one that is there.                         *)
RenamesOnto(steps) ==
    \E i \in DOMAIN steps : steps[i].do = "renameCollection" /\ steps[i].target \in DOMAIN db

(* A plan over what a run of another tree left with a record that is wrong.*)
OverAstray(steps) ==
    \E i \in DOMAIN steps : {steps[i].target, steps[i].from, steps[i].to} \cap astray # {}

(* A required column is allowed over rows that leave it empty.             *)
RowsWouldGo(p) ==
    \E i \in DOMAIN run[p].classes :
        run[p].steps[i].do \in {"add", "require"} /\ run[p].classes[i] = "destructive"

-----------------------------------------------------------------------------
Applies(p) == run[p].phase = "judged" /\ run'[p].phase = "done"
Fails(p)   == run[p].phase # "failed" /\ run'[p].phase = "failed"

(* A plan that nobody came between is counted, and where it may be applied *)
(* does not fail: its steps are in an order that makes them possible, and what  *)
(* it counted is what stood in their way (plan.ts, standing.ts, steps.ts). *)
UndisturbedApplies ==
    [][\A p \in Runner : Fails(p) =>
        \/ disturbed[p]
        \/ NameTaken(run[p].steps) \/ RenamesOnto(run[p].steps) \/ RowsWouldGo(p)
        \/ OverAstray(run[p].steps)
        \/ FillsGuaranteed(run[p].steps, Trees[run[p].tree].declared)]_vars

(* A collection the record knows has its table, and one gone has none,     *)
(* unless a plan was applied to it over the plan of another tree.          *)
KnowsTheTables ==
    \A c \in DOMAIN record \ astray : record[c] = None <=> c \notin DOMAIN db

(* The record says what the catalog holds, whoever ran and was interrupted *)
(* (apply.ts:5), of every collection but those that a run wrote to whose   *)
(* ground a plan of another tree had moved since it read: nothing checks   *)
(* that what was read still stands.  Constraints that bear a name from     *)
(* before a rename are left out: of them the record says what it likes.    *)
WellNamed(c, con) == con.name[2] = c /\ con.name[3] = con.over

InStep ==
    /\ KnowsTheTables
    /\ \A c \in {n \in DOMAIN record \ astray : record[n] # None} :
          LET table == db[c]
              held  == Inspect(table)
              named == Inspect([table EXCEPT !.constraints = {con \in @ : WellNamed(c, con)}])
          IN  /\ record[c].key = table.key /\ record[c].fields = table.fields
              /\ named.unique \subseteq record[c].unique /\ record[c].unique \subseteq held.unique
              /\ DOMAIN named.refs \subseteq DOMAIN record[c].refs
              /\ \A f \in DOMAIN record[c].refs :
                    \E con \in table.constraints :
                        ~con.unique /\ con.over = {f} /\ con.to = record[c].refs[f]

(* What the row of a key holds: its columns and cells, defaults aside.     *)
Cells(table, k) ==
    UNION {{<<f, row[f]>> : f \in {g \in DOMAIN row : row[g] \notin {None, Default}}} :
              row \in {r \in table.rows : table.key \in DOMAIN r /\ r[table.key] = k}}

Held(d, k) == [c \in DOMAIN d |-> Cardinality(Cells(d[c], k))]

(* Where the rows of c are after a step: in the table that took its place. *)
Place(c) == IF c \in DOMAIN db' THEN {c} ELSE DOMAIN db' \ DOMAIN db

Loses(c, k) == Held(db, k)[c] > 0 /\ \A d \in Place(c) : Held(db', k)[d] < Held(db, k)[c]

(* Every table is there, and of every key the values it held.              *)
KeepsAll ==
    \A c \in DOMAIN db, k \in RowKey : c \in DOMAIN db' /\ Cells(db[c], k) \subseteq Cells(db'[c], k)

(* A process that starts keeps every value whatever is written meanwhile,  *)
(* and an operator nobody came between loses none of a collection that was *)
(* not named (plan-class.ts, migrate.ts of the runtime).                   *)
LosesOnlyWhatWasAllowed ==
    [][\A p \in Runner : Applies(p) =>
        \/ KeepsAll
        \/ /\ p = Operator
           /\ \A c \in DOMAIN db, k \in RowKey : Loses(c, k) =>
                  disturbed[p] \/ ({c} \cup Place(c)) \cap run[p].allow # {}]_vars

-----------------------------------------------------------------------------
(* What the repository says of these, and a run refutes.                   *)

(* "Additive is what costs nothing and cannot fail on data"                *)
(* (plan-class.ts:6): a plan of additive steps that nobody came between    *)
(* applies.                                                                *)
AdditiveCannotFail ==
    [][\A p \in Runner :
        Fails(p) /\ run[p].phase = "judged" /\ ~disturbed[p] =>
            \E i \in DOMAIN run[p].classes : run[p].classes[i] # "additive"]_vars

=============================================================================
