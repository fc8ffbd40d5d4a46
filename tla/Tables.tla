-------------------------------- MODULE Tables --------------------------------
(***************************************************************************)
(* What plugin-storage-postgres does to a database for the steps of a plan *)
(* (steps.ts), what it counts for one (counting.ts), and what it reads     *)
(* back from the catalog (inspect.ts).  PostgreSQL itself is what the      *)
(* statements rely on: DDL is transactional, a statement on what is not    *)
(* there fails unless it says `if exists`, a constraint its rows break is  *)
(* not added, and the name of a constraint stays with it whatever its      *)
(* table and columns are renamed to.                                       *)
(*                                                                         *)
(* A database maps a table's name to [key, fields, constraints, rows].  A  *)
(* constraint is [name, unique, over, to]: a unique over some columns or a *)
(* foreign key over one.  A row maps each column to a value, None for      *)
(* null.                                                                   *)
(***************************************************************************)
EXTENDS Plans

CONSTANTS
    Default,        \* the value a `defaults` mark fills a column with
    Words           \* the values no cast to another type carries

(* The names of names.ts: the collection and its fields at the time the    *)
(* constraint is made, and nothing of what a reference points at.          *)
UniqueName(c, over) == <<"wl_u", c, over>>
RefName(c, f)       == <<"wl_f", c, {f}>>

Unique(c, over)     == [name |-> UniqueName(c, over), unique |-> TRUE, over |-> over, to |-> None]
Foreign(c, f, to)   == [name |-> RefName(c, f), unique |-> FALSE, over |-> {f}, to |-> to]

With(f, x, v) == [y \in DOMAIN f \cup {x} |-> IF y = x THEN v ELSE f[y]]
Without(f, x) == [y \in DOMAIN f \ {x} |-> f[y]]
Moved(f, old, new) == [y \in (DOMAIN f \ {old}) \cup {new} |-> IF y = new THEN f[old] ELSE f[y]]

-----------------------------------------------------------------------------
(* What rows break.                                                        *)
Keys(db, c) == {row[db[c].key] : row \in db[c].rows}

Repeats(rows, over) ==
    \E r, s \in rows : r # s /\ \A f \in over : r[f] = s[f] /\ r[f] # None

Dangles(db, rows, f, to) == \E r \in rows : r[f] # None /\ r[f] \notin Keys(db, to)

Breaks(db, rows, con) ==
    IF con.unique THEN Repeats(rows, con.over)
    ELSE \E f \in con.over : Dangles(db, rows, f, con.to)

-----------------------------------------------------------------------------
(* One statement each.  A statement that cannot run answers {}, one that   *)
(* can the set of the one database it leaves.                              *)
If(condition, db) == IF condition THEN {db} ELSE {}

CreateTable(db, c, declared) ==
    If(c \notin DOMAIN db,
       With(db, c, [key |-> declared.key, fields |-> declared.fields,
                    constraints |-> {}, rows |-> {}]))

RenameTable(db, from, c) ==
    LET Follow(con) == IF con.to = from THEN [con EXCEPT !.to = c] ELSE con
        moved == Moved(db, from, c)
    IN  If(from \in DOMAIN db /\ c \notin DOMAIN db,
           [t \in DOMAIN moved |->
               [moved[t] EXCEPT !.constraints = {Follow(con) : con \in @}]])

(* `drop table if exists ... cascade` takes the references to it along.    *)
DropTable(db, c) ==
    {[t \in DOMAIN db \ {c} |-> [db[t] EXCEPT !.constraints = {con \in @ : con.to # c}]]}

RenameColumn(db, c, from, f) ==
    LET over(con) == {IF g = from THEN f ELSE g : g \in con.over}
        table == db[c]
    IN  If(from \in DOMAIN table.fields /\ f \notin DOMAIN table.fields,
           [db EXCEPT ![c] =
               [key         |-> IF @.key = from THEN f ELSE @.key,
                fields      |-> Moved(@.fields, from, f),
                constraints |-> {[con EXCEPT !.over = over(con)] : con \in @.constraints},
                rows        |-> {Moved(row, from, f) : row \in @.rows}]])

(* `drop column if exists` takes the constraints over it along.            *)
DropColumn(db, c, f) ==
    LET table == db[c] IN
    {[db EXCEPT ![c] =
        [table EXCEPT !.fields      = Without(table.fields, f),
                      !.constraints = {con \in table.constraints : f \notin con.over},
                      !.rows        = {Without(row, f) : row \in table.rows}]]}

AddColumn(db, c, f, field, fills) ==
    LET table == db[c]
        value == IF fills THEN Default ELSE None
    IN  If(f \notin DOMAIN table.fields /\ (field.required => fills \/ table.rows = {}),
           [db EXCEPT ![c] = [table EXCEPT !.fields = With(table.fields, f, field),
                                           !.rows   = {With(row, f, value) : row \in table.rows}]])

(* The empty rows get the default where there is one, then `set not null`. *)
Require(db, c, f, fills) ==
    LET table == db[c]
        Filled(row) == IF fills /\ row[f] = None THEN [row EXCEPT ![f] = Default] ELSE row
        rows == {Filled(row) : row \in table.rows}
    IN  If(\A row \in rows : row[f] # None /\ \A con \in table.constraints : ~Breaks(db, rows, con),
           [db EXCEPT ![c] = [table EXCEPT !.fields[f].required = TRUE, !.rows = rows]])

(* `drop not null` fails on the column of a primary key.                   *)
Relax(db, c, f) == If(f # db[c].key, [db EXCEPT ![c].fields[f].required = FALSE])

(* The values a column holds that no cast carries to a type.               *)
Uncastable(db, c, f, becomes) ==
    becomes # "string" /\ \E row \in db[c].rows : row[f] \in Words

Retype(db, c, f, becomes) ==
    If(~Uncastable(db, c, f, becomes), [db EXCEPT ![c].fields[f].type = becomes])

(* A unique is an index, whose name is the schema's; a foreign key's name  *)
(* is its table's.                                                         *)
Named(db, c, con) ==
    \E t \in DOMAIN db : \E other \in db[t].constraints : other.name = con.name /\ (con.unique \/ t = c)

AddConstraint(db, c, con) ==
    If(/\ ~Named(db, c, con) /\ con.over \subseteq DOMAIN db[c].fields
       /\ con.unique \/ con.to \in DOMAIN db
       /\ ~Breaks(db, db[c].rows, con),
       [db EXCEPT ![c].constraints = @ \cup {con}])

(* `drop constraint if exists`, by the name it would have been given.      *)
DropConstraint(db, c, name) == {[db EXCEPT ![c].constraints = {con \in @ : con.name # name}]}

-----------------------------------------------------------------------------
(* One step as its statements; an adopt runs none.  A step inside a table  *)
(* runs none either where the table is not there.                          *)
Altered(db, s, declared) ==
    LET c   == s.target
        has == s.at \in DOMAIN db[c].fields
    IN  CASE s.do = "rename"   -> RenameColumn(db, c, s.from, s.at)
          [] s.do = "remove"   -> DropColumn(db, c, s.at)
          [] s.do = "add"      -> AddColumn(db, c, s.at, declared[c].fields[s.at], s.fills)
          [] s.do = "unique"   -> AddConstraint(db, c, Unique(c, s.over))
          [] s.do = "ununique" -> DropConstraint(db, c, UniqueName(c, s.over))
          [] s.do = "ref"      -> AddConstraint(db, c, Foreign(c, s.at, s.to))
          [] s.do = "unref"    -> DropConstraint(db, c, RefName(c, s.at))
          [] s.do = "require" /\ has -> Require(db, c, s.at, s.fills)
          [] s.do = "relax"   /\ has -> Relax(db, c, s.at)
          [] s.do = "retype"  /\ has -> Retype(db, c, s.at, s.becomes)
          [] OTHER             -> {}

Statement(db, s, declared) ==
    CASE s.do = "adopt"            -> {db}
      [] s.do = "create"           -> CreateTable(db, s.target, declared[s.target])
      [] s.do = "drop"             -> DropTable(db, s.target)
      [] s.do = "renameCollection" -> RenameTable(db, s.from, s.target)
      [] OTHER -> IF s.target \in DOMAIN db THEN Altered(db, s, declared) ELSE {}

(* A plan in one transaction: {} where any of its steps fails.             *)
Applied(db, steps, declared) ==
    LET after[n \in 0 .. Len(steps)] ==
            IF n = 0 THEN {db} ELSE UNION {Statement(d, steps[n], declared) : d \in after[n - 1]}
    IN  after[Len(steps)]

-----------------------------------------------------------------------------
(* Whether rows stand in the way of step i of a plan, asked in the names   *)
(* the database has before the plan (standing.ts rowsFor, counting.ts).    *)
(* A repeated null counts as repeating, as `group by` has it.              *)
InTheWay(db, steps, i) ==
    LET s      == steps[i]
        c      == TableBefore(steps, i, s.target)
        rows   == db[c].rows
        Col(f) == ColumnBefore(steps, i, s.target, f)
        Holds  == \E row \in rows : row[Col(s.at)] # None
    IN  /\ Counts(s) /\ ~Created(steps, i, s.target)
        /\ CASE s.do \in {"drop", "add"} -> rows # {}
             [] s.do = "remove"  -> Holds
             [] s.do = "require" -> \E row \in rows : row[Col(s.at)] = None
             [] s.do = "retype"  ->
                    IF Attempts(s.was, s.becomes) THEN Uncastable(db, c, Col(s.at), s.becomes) ELSE Holds
             [] s.do = "unique"  ->
                    /\ \A f \in s.over : ~Added(steps, i, s.target, f)
                    /\ \E r, q \in rows : r # q /\ \A f \in s.over : r[Col(f)] = q[Col(f)]
             [] s.do = "ref"     ->
                    /\ ~Added(steps, i, s.target, s.at)
                    /\ IF Created(steps, i, s.to) THEN Holds
                       ELSE Dangles(db, rows, Col(s.at), TableBefore(steps, i, s.to))
             [] OTHER -> FALSE

(* A count of a table or a column that is no longer there fails.           *)
Countable(db, steps) ==
    \A i \in DOMAIN steps :
        LET s == steps[i]
            c == TableBefore(steps, i, s.target)
            asked == IF s.at = None THEN s.over ELSE {s.at}
            to == TableBefore(steps, i, s.to)
        IN  Counts(s) /\ ~Created(steps, i, s.target) =>
                /\ c \in DOMAIN db
                /\ s.do # "add" =>
                       \A f \in asked : Added(steps, i, s.target, f)
                                       \/ ColumnBefore(steps, i, s.target, f) \in DOMAIN db[c].fields
                /\ s.do = "ref" /\ ~Created(steps, i, s.to) => to \in DOMAIN db

Classes(db, steps) == [i \in DOMAIN steps |-> Class(steps[i], InTheWay(db, steps, i))]

-----------------------------------------------------------------------------
(* A table read back as a declaration.  Of two references one column holds *)
(* one is read.                                                            *)
Inspect(table) ==
    LET foreign == {con \in table.constraints : ~con.unique} IN
    [key    |-> table.key,
     fields |-> table.fields,
     unique |-> {con.over : con \in table.constraints \ foreign},
     refs   |-> [f \in UNION {con.over : con \in foreign} |->
                    (CHOOSE con \in foreign : con.over = {f}).to]]
=============================================================================
