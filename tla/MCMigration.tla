----------------------------- MODULE MCMigration ------------------------------
(***************************************************************************)
(* Trees that differ from one another by every kind of step, small ones.   *)
(***************************************************************************)
EXTENDS Migration

Text(required)   == [type |-> "string", required |-> required]
Number(required) == [type |-> "number", required |-> required]

Coll(fields, unique, refs) ==
    [key |-> "k", fields |-> ("k" :> Text(TRUE)) @@ fields, unique |-> unique, refs |-> refs]

NoMarks(declared) ==
    [declared |-> declared, was |-> <<>>, renamed |-> [c \in DOMAIN declared |-> <<>>],
     defaults |-> [c \in DOMAIN declared |-> {}]]

X(required) == "x" :> Text(required)
Y(required) == "y" :> Text(required)
One(coll)   == NoMarks("a" :> coll)

Optional  == One(Coll(X(FALSE), {}, <<>>))
Required  == One(Coll(X(TRUE), {}, <<>>))
Defaulted == [Required EXCEPT !.defaults["a"] = {"x"}]
Numbered  == One(Coll("x" :> Number(FALSE), {}, <<>>))
Renamed   == [One(Coll(Y(FALSE), {}, <<>>)) EXCEPT !.renamed["a"] = "y" :> "x"]
Unique1   == One(Coll(X(FALSE), {{"x"}}, <<>>))
Renamed1  == [One(Coll(Y(FALSE), {{"y"}}, <<>>)) EXCEPT !.renamed["a"] = "y" :> "x"]
Rekeyed   == One([Coll(X(TRUE), {}, <<>>) EXCEPT !.key = "x"])
Two       == NoMarks("a" :> Coll(X(FALSE), {}, "x" :> "b") @@ "b" :> Coll(<<>>, {}, <<>>))
Filled    == [NoMarks("a" :> Coll(X(TRUE), {}, "x" :> "b") @@ "b" :> Coll(<<>>, {}, <<>>))
              EXCEPT !.defaults["a"] = {"x"}]
Apart     == NoMarks("a" :> Coll(X(FALSE), {}, <<>>) @@ "b" :> Coll(<<>>, {}, <<>>))
Moved1    == [NoMarks("c" :> Coll(X(FALSE), {}, <<>>)) EXCEPT !.was = "c" :> "a"]
Bare      == One(Coll(<<>>, {}, <<>>))

AllTrees ==
    "optional" :> Optional @@ "required" :> Required @@ "defaulted" :> Defaulted
    @@ "numbered" :> Numbered @@ "renamed" :> Renamed @@ "unique" :> Unique1
    @@ "renamedUnique" :> Renamed1 @@ "rekeyed" :> Rekeyed @@ "two" :> Two
    @@ "apart" :> Apart @@ "filled" :> Filled @@ "moved" :> Moved1 @@ "bare" :> Bare

(* Deployments by which each kind of step comes to be taken, forth and     *)
(* back, and trees that follow one another by several ways.                *)
Either(t, u) == {<<t, u>>, <<u, t>>}

AllSuccessions ==
    UNION {Either("optional", t) : t \in {"required", "numbered", "renamed", "unique", "moved", "bare"}}
    \cup UNION {Either("unique", t) : t \in {"renamedUnique", "moved", "bare"}}
    \cup UNION {Either("two", t) : t \in {"apart", "filled", "moved", "optional"}}
    \cup Either("required", "rekeyed") \cup Either("numbered", "required") \cup Either("renamed", "moved")
    \cup {<<"optional", "defaulted">>, <<"bare", "defaulted">>, <<"unique", "defaulted">>, <<"apart", "filled">>,
          <<"defaulted", "renamed">>, <<"filled", "bare">>, <<"renamedUnique", "renamed">>, <<"rekeyed", "bare">>}

(* An empty database, and one with a table and a row from before the       *)
(* record.                                                                 *)
Table(coll, rows) == [key |-> coll.key, fields |-> coll.fields, constraints |-> {}, rows |-> rows]

AllStores ==
    {<<>>} \cup {"a" :> Table(Coll(X(FALSE), {}, <<>>), {("k" :> 1) @@ ("x" :> x)}) : x \in Words}
=============================================================================
