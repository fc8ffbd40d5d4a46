-------------------------------- MODULE Plans ---------------------------------
(***************************************************************************)
(* The migration planner of plugin-storage: the steps from what a database *)
(* has recorded to what the tree declares, and the class a count of rows   *)
(* puts each step in (plan.ts, plan-steps.ts, plan-constraints.ts,         *)
(* plan-class.ts).  Pure: no state, no connection, no row.                 *)
(*                                                                         *)
(* A declaration is [key, fields, unique, refs]: `fields` maps a field to  *)
(* [type, required], `unique` is a set of sets of fields and `refs` maps a *)
(* field to a collection.  A tree is [declared, was, renamed, defaults]:   *)
(* the declarations by collection, and the marks of each.  The order a     *)
(* store writes its collections and fields in is some order, the same one  *)
(* throughout, and of a default only its presence is kept.                 *)
(***************************************************************************)
EXTENDS SequencesExt

CONSTANT None       \* no field, no collection: an optional member left out

(* The steps F answers for each of a set, one after another.               *)
Each(S, F(_)) == LET q == SetToSeq(S) IN FlattenSeq([i \in DOMAIN q |-> F(q[i])])

When(condition, step) == IF condition THEN <<step>> ELSE <<>>

Step(do, c) ==
    [do |-> do, target |-> c, at |-> None, from |-> None, over |-> {}, to |-> None,
     was |-> None, becomes |-> None, loses |-> FALSE, fills |-> FALSE, refused |-> FALSE]

FieldStep(do, c, f) == [Step(do, c) EXCEPT !.at = f]

-----------------------------------------------------------------------------
(* The recorded collection a declared one continues, itself if no `was`    *)
(* names one that is recorded and no longer declared.                      *)
Continues(tree, recorded, c) ==
    IF /\ c \in DOMAIN tree.was
       /\ tree.was[c] \in DOMAIN recorded
       /\ tree.was[c] \notin DOMAIN tree.declared
    THEN tree.was[c] ELSE c

(* How a collection comes to exist: nothing to do where it is recorded     *)
(* under its name.                                                         *)
Opening(tree, recorded, found, c) ==
    LET old == Continues(tree, recorded, c) IN
    IF old # c THEN <<[Step("renameCollection", c) EXCEPT !.from = old]>>
    ELSE CASE c \in DOMAIN recorded                  -> <<>>
           [] c \in DOMAIN found \ DOMAIN recorded   -> <<Step("adopt", c)>>
           [] c \notin DOMAIN found \cup DOMAIN recorded -> <<Step("create", c)>>

(* What the rest of its steps are read against: a table just created has   *)
(* every column and no guarantee.                                          *)
Against(tree, recorded, found, c) ==
    LET old == Continues(tree, recorded, c) IN
    CASE old \in DOMAIN recorded                           -> recorded[old]
      [] old \notin DOMAIN recorded /\ c \in DOMAIN found -> found[c]
      [] OTHER -> [tree.declared[c] EXCEPT !.unique = {}, !.refs = <<>>]

-----------------------------------------------------------------------------
(* Fields.  The field of the record a declared one continues: another only *)
(* where the old name is recorded, the new one is not, and the tree no     *)
(* longer declares the old one.                                            *)
RenameOf(from, to, renamed, f) ==
    IF /\ f \in DOMAIN renamed
       /\ renamed[f] \in DOMAIN from.fields \ DOMAIN to.fields
       /\ f \notin DOMAIN from.fields
    THEN renamed[f] ELSE f

(* A `renamed` still to do is a step, one done is none, and one the record *)
(* cannot answer is a refused step.                                        *)
RenameSteps(c, from, to, renamed) ==
    Each((DOMAIN renamed \cap DOMAIN to.fields) \ DOMAIN from.fields,
         LAMBDA f : <<[FieldStep("rename", c, f) EXCEPT
                          !.from = renamed[f], !.refused = RenameOf(from, to, renamed, f) = f]>>)

AddStep(c, f, field, defaults) ==
    [FieldStep("add", c, f) EXCEPT !.loses = field.required /\ f \notin defaults, !.fills = f \in defaults]

(* A field both hold: its type, then its requirement tightened or relaxed. *)
ChangedSteps(c, f, old, now, defaults) ==
    When(old.type # now.type, [FieldStep("retype", c, f) EXCEPT !.was = old.type, !.becomes = now.type])
    \o When(~old.required /\ now.required, [FieldStep("require", c, f) EXCEPT !.fills = f \in defaults])
    \o When(old.required /\ ~now.required, FieldStep("relax", c, f))

FieldSteps(c, from, to, renamed, defaults) ==
    LET Old(f)   == RenameOf(from, to, renamed, f)
        One(f)   == IF Old(f) \in DOMAIN from.fields
                    THEN ChangedSteps(c, f, from.fields[Old(f)], to.fields[f], defaults)
                    ELSE <<AddStep(c, f, to.fields[f], defaults)>>
        dropped  == DOMAIN from.fields \ {Old(f) : f \in DOMAIN to.fields}
    IN  RenameSteps(c, from, to, renamed)
        \o Each(DOMAIN to.fields, One)
        \o Each(dropped, LAMBDA f : <<FieldStep("remove", c, f)>>)

(* A changed key is refused: no count makes it safe.                       *)
KeySteps(c, from, to) ==
    When(from.key # to.key, [FieldStep("rekey", c, to.key) EXCEPT !.refused = TRUE])

-----------------------------------------------------------------------------
(* Guarantees, compared under the names the fields carry now.              *)
NameNow(renamed, to, f) ==
    IF \E g \in DOMAIN renamed \cap DOMAIN to.fields : renamed[g] = f
    THEN CHOOSE g \in DOMAIN renamed \cap DOMAIN to.fields : renamed[g] = f
    ELSE f

RefPairs(refs, Name(_)) == {<<Name(f), refs[f]>> : f \in DOMAIN refs}

ConstraintSteps(c, from, to, renamed) ==
    LET Now(f)  == NameNow(renamed, to, f)
        uniques == {{Now(f) : f \in over} : over \in from.unique}
        before  == RefPairs(from.refs, Now)
        after   == RefPairs(to.refs, LAMBDA f : f)
        Unique(do, over) == <<[Step(do, c) EXCEPT !.over = over]>>
        Ref(do, pair)    == <<[FieldStep(do, c, pair[1]) EXCEPT !.to = pair[2]]>>
    IN  Each(to.unique \ uniques, LAMBDA over : Unique("unique", over))
        \o Each(uniques \ to.unique, LAMBDA over : Unique("ununique", over))
        \o Each(after \ before, LAMBDA pair : Ref("ref", pair))
        \o Each(before \ after, LAMBDA pair : Ref("unref", pair))

(* A mutant: the guarantees come before the fields they are over.          *)
WithinGuaranteesFirst(tree, recorded, found, c) ==
    LET from == Against(tree, recorded, found, c)
        to   == tree.declared[c]
        made == Opening(tree, recorded, found, c) = <<Step("create", c)>>
    IN  ConstraintSteps(c, from, to, tree.renamed[c])
        \o IF made THEN <<>> ELSE FieldSteps(c, from, to, tree.renamed[c], tree.defaults[c])

(* What is still to do inside a collection: a create made its columns.     *)
Within(tree, recorded, found, c) ==
    LET from == Against(tree, recorded, found, c)
        to   == tree.declared[c]
        made == Opening(tree, recorded, found, c) = <<Step("create", c)>>
        renamed == tree.renamed[c]
        fields  == KeySteps(c, from, to) \o FieldSteps(c, from, to, renamed, tree.defaults[c])
    IN  (IF made THEN <<>> ELSE fields) \o ConstraintSteps(c, from, to, renamed)

(* The plan: every collection opened before anything is done inside any,   *)
(* and the recorded ones no longer declared dropped last, unless another   *)
(* continues them.                                                         *)
Plan(tree, recorded, found) ==
    LET declared == DOMAIN tree.declared
        claimed  == {Continues(tree, recorded, c) : c \in declared}
    IN  Each(declared, LAMBDA c : Opening(tree, recorded, found, c))
        \o Each(declared, LAMBDA c : Within(tree, recorded, found, c))
        \o Each(DOMAIN recorded \ (declared \cup claimed), LAMBDA c : <<Step("drop", c)>>)

-----------------------------------------------------------------------------
(* Classes.  The casts the engine writes (casts.ts).                       *)
Attempts(was, becomes) ==
    \/ becomes = "string" /\ was \in {"number", "boolean", "json"}
    \/ was = "string" /\ becomes \in {"number", "boolean", "json"}
    \/ becomes = "json" /\ was \in {"number", "boolean"}

(* Steps no count changes the class of.                                    *)
AlwaysAdditive       == {"create", "adopt"}
AlwaysTransformative == {"rename", "renameCollection", "relax", "ununique", "unref"}

(* A mutant: taking a field away is not counted.                           *)
CountsNoRemoval(step) == step.do \in {"drop", "unique", "ref", "retype"} /\ ~step.refused

(* Whether rows have to be counted before a step is classed.               *)
Counts(step) ==
    /\ ~step.refused
    /\ step.do \notin AlwaysAdditive \cup AlwaysTransformative
    /\ step.do = "add" => step.loses
    /\ step.do = "require" => ~step.fills

(* The class of a step, `way` saying whether any row stands in its way.    *)
Class(step, way) ==
    IF step.refused THEN "refused"
    ELSE CASE step.do \in AlwaysAdditive       -> "additive"
           [] step.do \in AlwaysTransformative -> "transformative"
           [] step.do \in {"unique", "ref"}    -> IF way THEN "refused" ELSE "additive"
           [] step.do = "add"                  -> IF step.loses /\ way THEN "destructive" ELSE "additive"
           [] step.do = "require"              -> IF way /\ ~step.fills THEN "destructive" ELSE "additive"
           [] step.do = "retype"               -> IF way \/ ~Attempts(step.was, step.becomes)
                                                  THEN "refused" ELSE "destructive"
           [] OTHER                            -> IF way THEN "destructive" ELSE "transformative"

-----------------------------------------------------------------------------
(* The names of a plan as the database has them before it: of collection c *)
(* and of its field f at step i of `steps` (standing.ts, class Before).    *)
Earlier(steps, i, do, c) == {j \in 1 .. (i - 1) : steps[j].do = do /\ steps[j].target = c}

Created(steps, i, c)  == Earlier(steps, i, "create", c) # {}
Added(steps, i, c, f) == \E j \in Earlier(steps, i, "add", c) : steps[j].at = f

TableBefore(steps, i, c) ==
    LET renames == Earlier(steps, i, "renameCollection", c) IN
    IF renames = {} THEN c ELSE steps[CHOOSE j \in renames : TRUE].from

ColumnBefore(steps, i, c, f) ==
    LET renames == {j \in Earlier(steps, i, "rename", c) : steps[j].at = f} IN
    IF renames = {} THEN f ELSE steps[CHOOSE j \in renames : TRUE].from
=============================================================================
