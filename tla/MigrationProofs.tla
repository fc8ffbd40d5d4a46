---------------------------- MODULE MigrationProofs ----------------------------
(***************************************************************************)
(* What runs of any trees do to any store, however many start, migrate and *)
(* write, and whatever is deployed while they do: a starting process keeps *)
(* every value, and the record knows which tables there are.  TLC checks   *)
(* it of a process and an operator over small trees.                       *)
(***************************************************************************)
EXTENDS Migration, SequenceTheorems, FiniteSetTheorems, WellFoundedInduction, TLAPS

-----------------------------------------------------------------------------
(* Induction over the naturals, as a fact about a set of them.             *)
LEMMA LeastNatural ==
    ASSUME NEW S \in SUBSET Nat, S # {}
    PROVE  \E m \in S : \A k \in S : m <= k
<1> DEFINE Below(k) == 0 .. k
           F == {Below(k) : k \in S}
<1>1. F \subseteq FiniteSubsetsOf(Nat) /\ F # {}
  <2>1. \A k \in S : IsFiniteSet(0 .. k) /\ 0 .. k \in SUBSET Nat
    BY FS_Interval
  <2> QED
    BY <2>1 DEF FiniteSubsetsOf
<1>2. \E x \in F : \A y \in F : ~(<<y, x>> \in StrictSubsetOrdering(Nat))
  <2> HIDE DEF F
  <2>1. IsWellFoundedOn(StrictSubsetOrdering(Nat), FiniteSubsetsOf(Nat))
    BY FS_StrictSubsetOrderingWellFounded
  <2> QED
    BY <1>1, <2>1, WFMin
<1>3. PICK m \in S : \A k \in S : ~(<<Below(k), Below(m)>> \in StrictSubsetOrdering(Nat))
  BY <1>2
<1>4. ASSUME NEW k \in S, k < m PROVE FALSE
  <2>1. Below(k) \subseteq Below(m) /\ Below(k) # Below(m) /\ Below(m) \in SUBSET Nat
    BY <1>4
  <2> QED
    BY <2>1, <1>3 DEF StrictSubsetOrdering
<1> QED
  BY <1>3, <1>4

LEMMA StepByStep ==
    ASSUME NEW S \in SUBSET Nat, 0 \in S, \A n \in S : n + 1 \in S
    PROVE  S = Nat
<1>1. SUFFICES ASSUME Nat \ S # {} PROVE FALSE
  OBVIOUS
<1>2. PICK m \in Nat \ S : \A k \in Nat \ S : m <= k
  BY <1>1, LeastNatural
<1>3. m # 0 /\ m - 1 \in Nat
  BY <1>2
<1>4. m - 1 \in S
  BY <1>2, <1>3
<1> QED
  BY <1>2, <1>3, <1>4

-----------------------------------------------------------------------------
(* A step of a plan for what is declared, made where there are the tables  *)
(* `there`: only what is declared no more is dropped or renamed away, and  *)
(* what is adopted is there.                                               *)
IsStep(step, declared, there) ==
    IF step.do = "drop" THEN step.target \notin declared
    ELSE /\ step.target \in declared
         /\ step.do = "renameCollection" => step.from \notin declared
         /\ step.do = "adopt" => step.target \in there

IsPlan(s, declared, there) == \E S : s \in Seq(S) /\ \A step \in S : IsStep(step, declared, there)

LEMMA PlanLength ==
    ASSUME NEW s, NEW declared, NEW there, IsPlan(s, declared, there)
    PROVE  /\ Len(s) \in Nat /\ DOMAIN s = 1 .. Len(s)
           /\ \A i \in DOMAIN s : IsStep(s[i], declared, there)
<1>1. PICK S : s \in Seq(S) /\ \A step \in S : IsStep(step, declared, there)
  BY DEF IsPlan
<1>2. Len(s) \in Nat /\ DOMAIN s = 1 .. Len(s)
  BY <1>1, LenProperties
<1>3. \A i \in DOMAIN s : s[i] \in S
  BY <1>1, <1>2, ElementOfSeq
<1> QED
  BY <1>1, <1>2, <1>3

LEMMA NoStep == \A declared, there : IsPlan(<<>>, declared, there)
<1> TAKE declared, there
<1> DEFINE s == <<>>
           S == {}
<1>1. s \in Seq(S) /\ \A step \in S : IsStep(step, declared, there)
  OBVIOUS
<1> HIDE DEF s, S
<1>2. IsPlan(s, declared, there)
  BY <1>1 DEF IsPlan
<1> QED
  BY <1>2 DEF s

LEMMA OneStep ==
    ASSUME NEW step, NEW declared, NEW there, IsStep(step, declared, there)
    PROVE  IsPlan(<<step>>, declared, there)
<1> DEFINE s == <<step>>
           S == {step}
<1>1. s \in Seq(S) /\ \A any \in S : IsStep(any, declared, there)
  OBVIOUS
<1> HIDE DEF s, S
<1>2. IsPlan(s, declared, there)
  BY <1>1 DEF IsPlan
<1> QED
  BY <1>2 DEF s

(* One inside a table, of what is declared.                                *)
LEMMA InnerStep ==
    ASSUME NEW step, NEW declared, NEW there, step.target \in declared,
           step.do \notin {"drop", "renameCollection", "adopt"}
    PROVE  IsPlan(<<step>>, declared, there)
<1>1. IsStep(step, declared, there)
  BY DEF IsStep
<1> QED
  BY <1>1, OneStep

(* A plan remains one where what is declared of those tables is there.     *)
LEMMA PlanRemains ==
    ASSUME NEW s, NEW declared, NEW there, NEW now,
           IsPlan(s, declared, there), declared \cap there \subseteq now
    PROVE  IsPlan(s, declared, now)
<1>1. PICK S : s \in Seq(S) /\ \A step \in S : IsStep(step, declared, there)
  BY DEF IsPlan
<1>2. \A step \in S : IsStep(step, declared, now)
  BY <1>1 DEF IsStep
<1> QED
  BY <1>1, <1>2 DEF IsPlan

LEMMA StepsInARow ==
    ASSUME NEW s, NEW t, NEW declared, NEW there, IsPlan(s, declared, there), IsPlan(t, declared, there)
    PROVE  IsPlan(s \o t, declared, there)
<1>1. PICK S : s \in Seq(S) /\ \A step \in S : IsStep(step, declared, there)
  BY DEF IsPlan
<1>2. PICK T : t \in Seq(T) /\ \A step \in T : IsStep(step, declared, there)
  BY DEF IsPlan
<1> DEFINE U == S \cup T
<1>3. s \in Seq(U) /\ t \in Seq(U)
  BY <1>1, <1>2
<1>4. s \o t \in Seq(U)
  BY <1>3, ConcatProperties
<1> QED
  BY <1>1, <1>2, <1>4 DEF IsPlan

(* A list of plans, run together (FlattenSeq), one more of them each time. *)
JoinsTo(joined, q, n) ==
    joined = [i \in 1 .. n |-> IF i = 1 THEN q[i] ELSE joined[i - 1] \o q[i]]

LEMMA JoinExists ==
    ASSUME NEW q, NEW n \in Nat
    PROVE  \E joined : JoinsTo(joined, q, n)
<1> DEFINE P(k) == \E joined : JoinsTo(joined, q, k)
           S == {k \in Nat : P(k)}
<1>1. 0 \in S
  <2>1. JoinsTo([i \in 1 .. 0 |-> 0], q, 0)
    BY DEF JoinsTo
  <2> QED
    BY <2>1
<1>2. ASSUME NEW k \in S PROVE k + 1 \in S
  <2>1. PICK f : JoinsTo(f, q, k)
    BY <1>2
  <2>2. k \in Nat /\ k + 1 \in Nat
    BY <1>2
  <2> DEFINE g == [i \in 1 .. (k + 1) |->
                      IF i = k + 1 THEN (IF i = 1 THEN q[i] ELSE f[k] \o q[i]) ELSE f[i]]
  <2>3. \A i \in 1 .. k : f[i] = IF i = 1 THEN q[i] ELSE f[i - 1] \o q[i]
    BY <2>1, <2>2 DEF JoinsTo
  <2>4. ASSUME NEW i \in 1 .. (k + 1)
        PROVE  g[i] = IF i = 1 THEN q[i] ELSE g[i - 1] \o q[i]
    <3>1. CASE i = k + 1
      <4>1. i # 1 => i - 1 = k /\ k \in 1 .. (k + 1) /\ k # k + 1
        BY <2>2, <3>1
      <4>2. i # 1 => g[i - 1] = f[k]
        BY <4>1
      <4> QED
        BY <3>1, <4>2
    <3>2. CASE i # k + 1
      <4>1. i \in 1 .. k /\ (i # 1 => i - 1 \in 1 .. k /\ i - 1 # k + 1 /\ i - 1 \in 1 .. (k + 1))
        BY <2>2, <3>2
      <4>2. g[i] = f[i] /\ (i # 1 => g[i - 1] = f[i - 1])
        BY <3>2, <4>1
      <4> QED
        BY <2>3, <4>1, <4>2
    <3> QED
      BY <3>1, <3>2
  <2>5. g = [i \in 1 .. (k + 1) |-> g[i]]
    OBVIOUS
  <2> HIDE DEF g
  <2>6. JoinsTo(g, q, k + 1)
    BY <2>4, <2>5 DEF JoinsTo
  <2> QED
    BY <2>2, <2>6
<1>3. S = Nat
  <2> HIDE DEF S
  <2>1. S \in SUBSET Nat
    BY DEF S
  <2> QED
    BY <1>1, <1>2, <2>1, StepByStep
<1> QED
  BY <1>3

LEMMA FlattenIs ==
    ASSUME NEW q, Len(q) \in Nat, Len(q) # 0
    PROVE  \E joined : JoinsTo(joined, q, Len(q)) /\ FlattenSeq(q) = joined[Len(q)]
<1> DEFINE flatten[i \in 1 .. Len(q)] == IF i = 1 THEN q[i] ELSE flatten[i - 1] \o q[i]
<1>1. FlattenSeq(q) = flatten[Len(q)]
  BY DEF FlattenSeq
<1>2. \E f : f = [i \in 1 .. Len(q) |-> IF i = 1 THEN q[i] ELSE f[i - 1] \o q[i]]
  BY JoinExists DEF JoinsTo
<1>3. flatten = [i \in 1 .. Len(q) |-> IF i = 1 THEN q[i] ELSE flatten[i - 1] \o q[i]]
  BY <1>2
<1> HIDE DEF flatten
<1>4. JoinsTo(flatten, q, Len(q))
  BY <1>3 DEF JoinsTo
<1> QED
  BY <1>1, <1>4

LEMMA JoinIsPlan ==
    ASSUME NEW q, NEW n \in Nat, NEW joined, JoinsTo(joined, q, n),
           NEW declared, NEW there, \A i \in 1 .. n : IsPlan(q[i], declared, there)
    PROVE  \A i \in 1 .. n : IsPlan(joined[i], declared, there)
<1> DEFINE S == {k \in Nat : k \in 1 .. n => IsPlan(joined[k], declared, there)}
<1>1. 0 \in S
  OBVIOUS
<1>2. ASSUME NEW k \in S PROVE k + 1 \in S
  <2>1. SUFFICES ASSUME k + 1 \in 1 .. n PROVE IsPlan(joined[k + 1], declared, there)
    BY <1>2
  <2>2. joined[k + 1] = IF k + 1 = 1 THEN q[k + 1] ELSE joined[k + 1 - 1] \o q[k + 1]
    <3>1. \A i \in 1 .. n : joined[i] = IF i = 1 THEN q[i] ELSE joined[i - 1] \o q[i]
      BY DEF JoinsTo
    <3> QED
      BY <2>1, <3>1
  <2>3. IsPlan(q[k + 1], declared, there)
    BY <2>1
  <2>4. CASE k = 0
    BY <2>2, <2>3, <2>4
  <2>5. CASE k # 0
    <3>1. k \in 1 .. n /\ k + 1 - 1 = k /\ k + 1 # 1
      BY <1>2, <2>1, <2>5
    <3>2. IsPlan(joined[k], declared, there)
      BY <1>2, <3>1
    <3> QED
      BY <2>2, <2>3, <3>1, <3>2, StepsInARow
  <2> QED
    BY <2>4, <2>5
<1>3. S = Nat
  <2> HIDE DEF S
  <2>1. S \in SUBSET Nat
    BY DEF S
  <2> QED
    BY <1>1, <1>2, <2>1, StepByStep
<1> QED
  BY <1>3

LEMMA ListIsSeq ==
    ASSUME NEW S, IsFiniteSet(S)
    PROVE  SetToSeq(S) \in Seq(S)
<1>1. Cardinality(S) \in Nat /\ ExistsBijection(1 .. Cardinality(S), S)
  BY FS_CardinalityType
<1>2. PICK f : f \in [1 .. Cardinality(S) -> S] /\ IsInjective(f)
  BY <1>1 DEF ExistsBijection, Bijection, Injection, IsInjective
<1>3. SetToSeq(S) \in [1 .. Cardinality(S) -> S]
  BY <1>2 DEF SetToSeq
<1> QED
  BY <1>1, <1>3, SeqDef

(* A plan for each of a finite set, in the order they are listed in.       *)
LEMMA EachIsPlan ==
    ASSUME NEW S, IsFiniteSet(S), NEW declared, NEW there,
           NEW plans, plans = [i \in DOMAIN SetToSeq(S) |-> plans[i]],
           \A i \in DOMAIN SetToSeq(S) : IsPlan(plans[i], declared, there)
    PROVE  IsPlan(FlattenSeq(plans), declared, there)
<1> DEFINE q == SetToSeq(S)
           n == Len(q)
<1>1. q \in Seq(S) /\ n \in Nat /\ DOMAIN q = 1 .. n
  BY ListIsSeq, LenProperties
<1> HIDE DEF q
<1>2. plans \in [1 .. n -> {plans[i] : i \in 1 .. n}]
  BY <1>1 DEF q
<1>3. plans \in Seq({plans[i] : i \in 1 .. n}) /\ Len(plans) = n
  <2>1. plans \in Seq({plans[i] : i \in 1 .. n})
    BY <1>1, <1>2, SeqDef
  <2>2. Len(plans) \in Nat /\ 1 .. Len(plans) = 1 .. n
    BY <1>2, <2>1, LenProperties
  <2>3. (n # 0 => n \in 1 .. Len(plans)) /\ (Len(plans) # 0 => Len(plans) \in 1 .. n)
    BY <1>1, <2>2
  <2> QED
    BY <1>1, <2>1, <2>2, <2>3
<1>4. CASE n = 0
  <2>1. plans = <<>>
    BY <1>3, <1>4, EmptySeq
  <2>2. FlattenSeq(plans) = plans
    BY <1>3, <1>4 DEF FlattenSeq
  <2> QED
    BY <2>1, <2>2, NoStep
<1>5. CASE n # 0
  <2>1. PICK joined : JoinsTo(joined, plans, n) /\ FlattenSeq(plans) = joined[n]
    BY <1>1, <1>3, <1>5, FlattenIs
  <2>2. \A i \in 1 .. n : IsPlan(plans[i], declared, there)
    BY <1>1 DEF q
  <2>3. IsPlan(joined[n], declared, there)
    <3>1. \A i \in 1 .. n : IsPlan(joined[i], declared, there)
      BY <1>1, <2>1, <2>2, JoinIsPlan
    <3> QED
      BY <1>1, <1>5, <3>1
  <2> QED
    BY <2>1, <2>3
<1> QED
  BY <1>4, <1>5

-----------------------------------------------------------------------------
(* The steps of a plan, part by part (plan.ts, plan-steps.ts).             *)
LEMMA FiniteImage ==
    ASSUME NEW S, IsFiniteSet(S), NEW f, f = [x \in S |-> f[x]]
    PROVE  IsFiniteSet({f[x] : x \in S})
<1> DEFINE T == {f[x] : x \in S}
<1>1. f \in Surjection(S, T)
  BY DEF Surjection
<1> QED
  BY <1>1, FS_Surjection

LEMMA DoOf ==
    ASSUME NEW do, NEW c, NEW f
    PROVE  /\ Step(do, c).do = do /\ Step(do, c).target = c
           /\ FieldStep(do, c, f).do = do /\ FieldStep(do, c, f).target = c
           /\ DOMAIN Step(do, c) = {"do", "target", "at", "from", "over", "to", "was", "becomes",
                                    "loses", "fills", "refused"}
           /\ DOMAIN FieldStep(do, c, f) = DOMAIN Step(do, c)
BY DEF Step, FieldStep

LEMMA WhenPlan ==
    ASSUME NEW condition, NEW step, NEW declared, NEW there, step.target \in declared,
           step.do \notin {"drop", "renameCollection", "adopt"}
    PROVE  IsPlan(When(condition, step), declared, there)
BY InnerStep, NoStep DEF When

LEMMA RenamesPlan ==
    ASSUME NEW declared, NEW there, NEW c \in declared, NEW from, NEW to, NEW renamed,
           IsFiniteSet(DOMAIN to.fields)
    PROVE  IsPlan(RenameSteps(c, from, to, renamed), declared, there)
<1> DEFINE S == (DOMAIN renamed \cap DOMAIN to.fields) \ DOMAIN from.fields
           One(f) == <<[FieldStep("rename", c, f) EXCEPT
                          !.from = renamed[f], !.refused = RenameOf(from, to, renamed, f) = f]>>
           q == SetToSeq(S)
           plans == [i \in DOMAIN q |-> One(q[i])]
<1>1. IsFiniteSet(S)
  BY FS_Subset
<1>2. ASSUME NEW f PROVE IsPlan(One(f), declared, there)
  <2> DEFINE step == [FieldStep("rename", c, f) EXCEPT
                         !.from = renamed[f], !.refused = RenameOf(from, to, renamed, f) = f]
  <2>1. step.do = "rename" /\ step.target = c
    BY DoOf
  <2> HIDE DEF step
  <2>2. IsPlan(<<step>>, declared, there)
    BY <2>1, InnerStep
  <2> QED
    BY <2>2 DEF step
<1>3. RenameSteps(c, from, to, renamed) = FlattenSeq(plans)
  BY DEF RenameSteps, Each
<1>4. plans = [i \in DOMAIN q |-> plans[i]] /\ \A i \in DOMAIN q : IsPlan(plans[i], declared, there)
  <2> HIDE DEF One
  <2> QED
    BY <1>2
<1> HIDE DEF plans, S
<1> QED
  BY <1>1, <1>3, <1>4, EachIsPlan

LEMMA ChangesPlan ==
    ASSUME NEW declared, NEW there, NEW c \in declared, NEW f, NEW old, NEW now, NEW defaults
    PROVE  IsPlan(ChangedSteps(c, f, old, now, defaults), declared, there)
<1> DEFINE retype  == [FieldStep("retype", c, f) EXCEPT !.was = old.type, !.becomes = now.type]
           require == [FieldStep("require", c, f) EXCEPT !.fills = f \in defaults]
           relax   == FieldStep("relax", c, f)
           first   == When(old.type # now.type, retype)
           second  == When(~old.required /\ now.required, require)
           third   == When(old.required /\ ~now.required, relax)
<1>1. /\ retype.do = "retype" /\ require.do = "require" /\ relax.do = "relax"
      /\ retype.target = c /\ require.target = c /\ relax.target = c
  BY DoOf
<1> HIDE DEF retype, require, relax
<1>2. IsPlan(first, declared, there) /\ IsPlan(second, declared, there) /\ IsPlan(third, declared, there)
  BY <1>1, WhenPlan
<1>3. ChangedSteps(c, f, old, now, defaults) = first \o second \o third
  BY DEF ChangedSteps, retype, require, relax
<1> HIDE DEF first, second, third
<1> QED
  BY <1>2, <1>3, StepsInARow

LEMMA FieldsPlan ==
    ASSUME NEW declared, NEW there, NEW c \in declared, NEW from, NEW to, NEW renamed, NEW defaults,
           IsFiniteSet(DOMAIN from.fields), IsFiniteSet(DOMAIN to.fields)
    PROVE  IsPlan(FieldSteps(c, from, to, renamed, defaults), declared, there)
<1> DEFINE Old(f)  == RenameOf(from, to, renamed, f)
           One(f)  == IF Old(f) \in DOMAIN from.fields
                      THEN ChangedSteps(c, f, from.fields[Old(f)], to.fields[f], defaults)
                      ELSE <<AddStep(c, f, to.fields[f], defaults)>>
           Drop(f) == <<FieldStep("remove", c, f)>>
           dropped == DOMAIN from.fields \ {Old(f) : f \in DOMAIN to.fields}
           kept    == DOMAIN to.fields
           q       == SetToSeq(kept)
           r       == SetToSeq(dropped)
           ones    == [i \in DOMAIN q |-> One(q[i])]
           drops   == [i \in DOMAIN r |-> Drop(r[i])]
<1>1. IsFiniteSet(dropped) /\ IsFiniteSet(kept)
  BY FS_Subset
<1>2. ASSUME NEW f PROVE IsPlan(One(f), declared, there)
  <2> DEFINE add == AddStep(c, f, to.fields[f], defaults)
  <2>1. add.do = "add" /\ add.target = c
    BY DoOf DEF AddStep
  <2> HIDE DEF add
  <2>2. IsPlan(<<add>>, declared, there)
    BY <2>1, InnerStep
  <2> QED
    BY <2>2, ChangesPlan DEF add
<1>3. ASSUME NEW f PROVE IsPlan(Drop(f), declared, there)
  BY DoOf, InnerStep
<1>4. FieldSteps(c, from, to, renamed, defaults) =
         RenameSteps(c, from, to, renamed) \o FlattenSeq(ones) \o FlattenSeq(drops)
  BY DEF FieldSteps, Each
<1>5. /\ ones = [i \in DOMAIN q |-> ones[i]] /\ drops = [i \in DOMAIN r |-> drops[i]]
      /\ \A i \in DOMAIN q : IsPlan(ones[i], declared, there)
      /\ \A i \in DOMAIN r : IsPlan(drops[i], declared, there)
  <2> HIDE DEF One, Drop
  <2> QED
    BY <1>2, <1>3
<1> HIDE DEF ones, drops, dropped, kept
<1>6. IsPlan(FlattenSeq(ones), declared, there) /\ IsPlan(FlattenSeq(drops), declared, there)
  BY <1>1, <1>5, EachIsPlan
<1>7. IsPlan(RenameSteps(c, from, to, renamed), declared, there)
  BY RenamesPlan
<1> QED
  BY <1>4, <1>6, <1>7, StepsInARow

LEMMA ConstraintsPlan ==
    ASSUME NEW declared, NEW there, NEW c \in declared, NEW from, NEW to, NEW renamed,
           IsFiniteSet(from.unique), IsFiniteSet(DOMAIN from.refs),
           IsFiniteSet(to.unique), IsFiniteSet(DOMAIN to.refs)
    PROVE  IsPlan(ConstraintSteps(c, from, to, renamed), declared, there)
<1> DEFINE Now(f)  == NameNow(renamed, to, f)
           uniques == {{Now(f) : f \in over} : over \in from.unique}
           before  == RefPairs(from.refs, Now)
           after   == RefPairs(to.refs, LAMBDA f : f)
           Uniq(do, over) == <<[Step(do, c) EXCEPT !.over = over]>>
           Ref(do, pair)  == <<[FieldStep(do, c, pair[1]) EXCEPT !.to = pair[2]]>>
           s1 == to.unique \ uniques
           s2 == uniques \ to.unique
           s3 == after \ before
           s4 == before \ after
           p1 == [i \in DOMAIN SetToSeq(s1) |-> Uniq("unique", SetToSeq(s1)[i])]
           p2 == [i \in DOMAIN SetToSeq(s2) |-> Uniq("ununique", SetToSeq(s2)[i])]
           p3 == [i \in DOMAIN SetToSeq(s3) |-> Ref("ref", SetToSeq(s3)[i])]
           p4 == [i \in DOMAIN SetToSeq(s4) |-> Ref("unref", SetToSeq(s4)[i])]
<1>1. ConstraintSteps(c, from, to, renamed) =
         FlattenSeq(p1) \o FlattenSeq(p2) \o FlattenSeq(p3) \o FlattenSeq(p4)
  BY DEF ConstraintSteps, Each
<1>2. IsFiniteSet(uniques)
  <2> DEFINE g == [over \in from.unique |-> {Now(f) : f \in over}]
  <2>1. g = [over \in from.unique |-> g[over]] /\ {g[over] : over \in from.unique} = uniques
    OBVIOUS
  <2> HIDE DEF g, uniques
  <2> QED
    BY <2>1, FiniteImage
<1>3. IsFiniteSet(before)
  <2> DEFINE g == [f \in DOMAIN from.refs |-> <<Now(f), from.refs[f]>>]
  <2>1. g = [f \in DOMAIN from.refs |-> g[f]] /\ {g[f] : f \in DOMAIN from.refs} = before
    BY DEF RefPairs
  <2> HIDE DEF g, before
  <2> QED
    BY <2>1, FiniteImage
<1>4. IsFiniteSet(after)
  <2> DEFINE g == [f \in DOMAIN to.refs |-> <<f, to.refs[f]>>]
  <2>1. g = [f \in DOMAIN to.refs |-> g[f]] /\ {g[f] : f \in DOMAIN to.refs} = after
    BY DEF RefPairs
  <2> HIDE DEF g, after
  <2> QED
    BY <2>1, FiniteImage
<1> HIDE DEF uniques, before, after
<1>5. IsFiniteSet(s1) /\ IsFiniteSet(s2) /\ IsFiniteSet(s3) /\ IsFiniteSet(s4)
  BY <1>2, <1>3, <1>4, FS_Subset
<1>6. ASSUME NEW do, do \notin {"drop", "renameCollection", "adopt"}, NEW x
      PROVE  IsPlan(Uniq(do, x), declared, there) /\ IsPlan(Ref(do, x), declared, there)
  <2> DEFINE one == [Step(do, c) EXCEPT !.over = x]
             two == [FieldStep(do, c, x[1]) EXCEPT !.to = x[2]]
  <2>1. one.do = do /\ two.do = do /\ one.target = c /\ two.target = c
    BY DoOf
  <2> HIDE DEF one, two
  <2>2. IsPlan(<<one>>, declared, there) /\ IsPlan(<<two>>, declared, there)
    BY <1>6, <2>1, InnerStep
  <2> QED
    BY <2>2 DEF one, two
<1>7. /\ p1 = [i \in DOMAIN SetToSeq(s1) |-> p1[i]] /\ p2 = [i \in DOMAIN SetToSeq(s2) |-> p2[i]]
      /\ p3 = [i \in DOMAIN SetToSeq(s3) |-> p3[i]] /\ p4 = [i \in DOMAIN SetToSeq(s4) |-> p4[i]]
      /\ \A i \in DOMAIN SetToSeq(s1) : IsPlan(p1[i], declared, there)
      /\ \A i \in DOMAIN SetToSeq(s2) : IsPlan(p2[i], declared, there)
      /\ \A i \in DOMAIN SetToSeq(s3) : IsPlan(p3[i], declared, there)
      /\ \A i \in DOMAIN SetToSeq(s4) : IsPlan(p4[i], declared, there)
  <2> HIDE DEF Uniq, Ref, s1, s2, s3, s4
  <2> QED
    BY <1>6
<1> HIDE DEF p1, p2, p3, p4, s1, s2, s3, s4
<1>8. /\ IsPlan(FlattenSeq(p1), declared, there) /\ IsPlan(FlattenSeq(p2), declared, there)
      /\ IsPlan(FlattenSeq(p3), declared, there) /\ IsPlan(FlattenSeq(p4), declared, there)
  BY <1>5, <1>7, EachIsPlan
<1> QED
  BY <1>1, <1>8, StepsInARow

LEMMA KeyPlan ==
    ASSUME NEW declared, NEW there, NEW c \in declared, NEW from, NEW to
    PROVE  IsPlan(KeySteps(c, from, to), declared, there)
<1> DEFINE rekey == [FieldStep("rekey", c, to.key) EXCEPT !.refused = TRUE]
<1>1. rekey.do = "rekey" /\ rekey.target = c
  BY DoOf
<1>2. KeySteps(c, from, to) = When(from.key # to.key, rekey)
  BY DEF KeySteps
<1> HIDE DEF rekey
<1> QED
  BY <1>1, <1>2, WhenPlan

LEMMA OpeningPlan ==
    ASSUME NEW t, NEW recorded, NEW found, NEW there,
           DOMAIN found \subseteq there, NEW c \in DOMAIN t.declared
    PROVE  IsPlan(Opening(t, recorded, found, c), DOMAIN t.declared, there)
<1> DEFINE old    == Continues(t, recorded, c)
           rename == [Step("renameCollection", c) EXCEPT !.from = old]
           adopt  == Step("adopt", c)
           create == Step("create", c)
           D      == DOMAIN t.declared
<1>1. /\ rename.do = "renameCollection" /\ adopt.do = "adopt" /\ create.do = "create"
      /\ rename.target = c /\ adopt.target = c /\ create.target = c /\ rename.from = old
  BY DoOf
<1>2. \/ old # c /\ Opening(t, recorded, found, c) = <<rename>>
      \/ c \in there /\ Opening(t, recorded, found, c) = <<adopt>>
      \/ Opening(t, recorded, found, c) \in {<<>>, <<create>>}
  BY DEF Opening
<1>3. old # c => old \notin D
  BY DEF Continues
<1> HIDE DEF rename, adopt, create, old
<1>4. old # c => IsStep(rename, D, there)
  BY <1>1, <1>3 DEF IsStep
<1>5. c \in there => IsStep(adopt, D, there)
  BY <1>1 DEF IsStep
<1>6. IsStep(create, D, there)
  BY <1>1 DEF IsStep
<1> QED
  BY <1>2, <1>4, <1>5, <1>6, OneStep, NoStep

(* What is recorded, or found, of finitely many collections.               *)
AreDeclarations(known) ==
    IsFiniteSet(DOMAIN known) /\ \A c \in DOMAIN known : IsDeclaration(known[c])

LEMMA AgainstIsDeclaration ==
    ASSUME NEW t, NEW recorded, NEW found, NEW c \in DOMAIN t.declared,
           AreDeclarations(t.declared), AreDeclarations(recorded), AreDeclarations(found)
    PROVE  IsDeclaration(Against(t, recorded, found, c))
<1> DEFINE fresh == [t.declared[c] EXCEPT !.unique = {}, !.refs = <<>>]
<1>1. IsDeclaration(t.declared[c])
  BY DEF AreDeclarations
<1>2. IsDeclaration(fresh)
  <2>1. /\ DOMAIN fresh = {"key", "fields", "unique", "refs"} /\ fresh.fields = t.declared[c].fields
        /\ fresh.unique = {} /\ DOMAIN fresh.refs = {}
    BY <1>1 DEF IsDeclaration
  <2> HIDE DEF fresh
  <2> QED
    BY <1>1, <2>1, FS_EmptySet DEF IsDeclaration
<1> HIDE DEF fresh
<1>3. Against(t, recorded, found, c) =
          LET old == Continues(t, recorded, c) IN
          CASE old \in DOMAIN recorded -> recorded[old]
            [] old \notin DOMAIN recorded /\ c \in DOMAIN found -> found[c]
            [] OTHER -> fresh
  BY DEF Against, fresh
<1> QED
  BY <1>2, <1>3 DEF AreDeclarations

LEMMA WithinPlan ==
    ASSUME NEW t, NEW recorded, NEW found, NEW there, NEW c \in DOMAIN t.declared,
           AreDeclarations(t.declared), AreDeclarations(recorded), AreDeclarations(found)
    PROVE  IsPlan(Within(t, recorded, found, c), DOMAIN t.declared, there)
<1> DEFINE from    == Against(t, recorded, found, c)
           to      == t.declared[c]
           renamed == t.renamed[c]
           D       == DOMAIN t.declared
           fields  == KeySteps(c, from, to) \o FieldSteps(c, from, to, renamed, t.defaults[c])
           made    == Opening(t, recorded, found, c) = <<Step("create", c)>>
           first   == IF made THEN <<>> ELSE fields
           last    == ConstraintSteps(c, from, to, renamed)
<1>1. IsDeclaration(from) /\ IsDeclaration(to) /\ c \in D
  BY AgainstIsDeclaration DEF AreDeclarations
<1>2. Within(t, recorded, found, c) = first \o last
  BY DEF Within
<1> HIDE DEF from, to, renamed, D, made
<1>3. IsPlan(fields, D, there)
  BY <1>1, KeyPlan, FieldsPlan, StepsInARow DEF IsDeclaration
<1>4. IsPlan(last, D, there)
  BY <1>1, ConstraintsPlan DEF IsDeclaration
<1> HIDE DEF fields, last
<1>5. IsPlan(first, D, there)
  BY <1>3, NoStep
<1> HIDE DEF first
<1>6. IsPlan(first \o last, D, there)
  BY <1>4, <1>5, StepsInARow
<1> QED
  BY <1>2, <1>6 DEF D

LEMMA PlanIsPlan ==
    ASSUME NEW t, NEW recorded, NEW found, NEW there, DOMAIN found \subseteq there,
           AreDeclarations(t.declared), AreDeclarations(recorded), AreDeclarations(found)
    PROVE  IsPlan(Plan(t, recorded, found), DOMAIN t.declared, there)
<1> DEFINE D       == DOMAIN t.declared
           claimed == {Continues(t, recorded, c) : c \in D}
           gone    == DOMAIN recorded \ (D \cup claimed)
           q       == SetToSeq(D)
           r       == SetToSeq(gone)
           Drop(c) == <<Step("drop", c)>>
           opens   == [i \in DOMAIN q |-> Opening(t, recorded, found, q[i])]
           withins == [i \in DOMAIN q |-> Within(t, recorded, found, q[i])]
           drops   == [i \in DOMAIN r |-> Drop(r[i])]
<1>1. Plan(t, recorded, found) = FlattenSeq(opens) \o FlattenSeq(withins) \o FlattenSeq(drops)
  BY DEF Plan, Each
<1>2. IsFiniteSet(D) /\ IsFiniteSet(gone)
  BY FS_Subset DEF AreDeclarations
<1>3. \A i \in DOMAIN q : q[i] \in D
  <2> HIDE DEF D, q
  <2>1. q \in Seq(D)
    BY <1>2, ListIsSeq DEF q
  <2> QED
    BY <2>1, LenProperties, ElementOfSeq
<1> HIDE DEF q
<1>4. /\ opens = [i \in DOMAIN q |-> opens[i]] /\ withins = [i \in DOMAIN q |-> withins[i]]
      /\ \A i \in DOMAIN q : IsPlan(opens[i], D, there) /\ IsPlan(withins[i], D, there)
  BY <1>3, OpeningPlan, WithinPlan
<1>5. ASSUME NEW c \in gone PROVE IsPlan(Drop(c), D, there)
  <2> DEFINE drop == Step("drop", c)
  <2>1. drop.do = "drop" /\ drop.target = c /\ c \notin D
    BY DoOf
  <2> HIDE DEF D, drop
  <2>2. IsPlan(<<drop>>, D, there)
    BY <2>1, OneStep DEF IsStep
  <2> QED
    BY <2>2 DEF drop
<1>6. drops = [i \in DOMAIN r |-> drops[i]] /\ \A i \in DOMAIN r : IsPlan(drops[i], D, there)
  <2>1. \A i \in DOMAIN r : r[i] \in gone
    <3> HIDE DEF gone, r
    <3>1. r \in Seq(gone)
      BY <1>2, ListIsSeq DEF r
    <3> QED
      BY <3>1, LenProperties, ElementOfSeq
  <2> HIDE DEF Drop, D, gone, r
  <2> QED
    BY <1>5, <2>1
<1>7. /\ IsPlan(FlattenSeq(opens), D, there) /\ IsPlan(FlattenSeq(withins), D, there)
      /\ IsPlan(FlattenSeq(drops), D, there)
  <2> HIDE DEF opens, withins, drops, D, gone
  <2> QED
    BY <1>2, <1>4, <1>6, EachIsPlan DEF q
<1> HIDE DEF opens, withins, drops
<1> QED
  BY <1>1, <1>7, StepsInARow

-----------------------------------------------------------------------------
(* A database whose tables are tables, whatever a statement does to it     *)
(* (steps.ts).                                                             *)
AreTables(d) == \A c \in DOMAIN d : IsTable(d[c])

LEMMA WithIs ==
    ASSUME NEW f, NEW x, NEW v
    PROVE  /\ DOMAIN With(f, x, v) = DOMAIN f \cup {x}
           /\ With(f, x, v)[x] = v
           /\ \A y \in DOMAIN f \ {x} : With(f, x, v)[y] = f[y]
BY DEF With

LEMMA MovedIs ==
    ASSUME NEW f, NEW old \in DOMAIN f, NEW new
    PROVE  /\ DOMAIN Moved(f, old, new) = (DOMAIN f \ {old}) \cup {new}
           /\ \A y \in DOMAIN Moved(f, old, new) :
                 Moved(f, old, new)[y] = IF y = new THEN f[old] ELSE f[y]
BY DEF Moved

LEMMA CreateKeepsTables ==
    ASSUME NEW d, AreTables(d), NEW c, NEW decl, IsDeclaration(decl),
           NEW e \in CreateTable(d, c, decl)
    PROVE  AreTables(e)
<1> DEFINE new == [key |-> decl.key, fields |-> decl.fields, constraints |-> {}, rows |-> {}]
<1>1. c \notin DOMAIN d /\ e = With(d, c, new)
  BY DEF CreateTable, If
<1>2. IsTable(new)
  <2>1. DOMAIN new = {"key", "fields", "constraints", "rows"} /\ new.fields = decl.fields
        /\ new.constraints = {} /\ new.rows = {}
    OBVIOUS
  <2> HIDE DEF new
  <2> QED
    BY <2>1, FS_EmptySet DEF IsTable, IsDeclaration
<1> HIDE DEF new
<1>3. DOMAIN e = {c} \cup DOMAIN d /\ e[c] = new /\ \A x \in DOMAIN d : e[x] = d[x]
  BY <1>1 DEF With
<1> QED
  BY <1>2, <1>3 DEF AreTables

(* A table whose constraints are changed, one for one.                     *)
LEMMA ConstraintsKeepTable ==
    ASSUME NEW table, IsTable(table), NEW constraints, IsFiniteSet(constraints),
           \A con \in constraints : IsConstraint(con)
    PROVE  LET e == [table EXCEPT !.constraints = constraints] IN
           IsTable(e) /\ e.rows = table.rows /\ e.key = table.key /\ e.fields = table.fields
<1> DEFINE e == [table EXCEPT !.constraints = constraints]
<1>1. /\ DOMAIN e = DOMAIN table /\ e.constraints = constraints
      /\ e.rows = table.rows /\ e.key = table.key /\ e.fields = table.fields
  BY DEF IsTable
<1> HIDE DEF e
<1>2. IsTable(e)
  BY <1>1 DEF IsTable
<1> QED
  BY <1>1, <1>2 DEF e

LEMMA RenameKeepsTables ==
    ASSUME NEW d, AreTables(d), NEW from, NEW c, NEW e \in RenameTable(d, from, c)
    PROVE  AreTables(e)
<1> DEFINE Follow(con) == IF con.to = from THEN [con EXCEPT !.to = c] ELSE con
           moved == Moved(d, from, c)
           Followed(t) == {Follow(con) : con \in moved[t].constraints}
<1>1. /\ from \in DOMAIN d
      /\ e = [t \in DOMAIN moved |-> [moved[t] EXCEPT !.constraints = Followed(t)]]
  BY DEF RenameTable, If
<1>2. \A t \in DOMAIN moved : IsTable(moved[t])
  <2>1. \A t \in DOMAIN moved : t \in DOMAIN d \cup {c} /\ moved[t] = IF t = c THEN d[from] ELSE d[t]
    BY DEF Moved
  <2> HIDE DEF moved
  <2> QED
    BY <1>1, <2>1 DEF AreTables
<1> HIDE DEF moved
<1>3. ASSUME NEW con, IsConstraint(con) PROVE IsConstraint(Follow(con))
  <2> DEFINE to == [con EXCEPT !.to = c]
  <2>1. DOMAIN to = DOMAIN con /\ to.unique = con.unique /\ to.over = con.over
    BY <1>3 DEF IsConstraint
  <2> HIDE DEF to
  <2>2. IsConstraint(to)
    BY <1>3, <2>1 DEF IsConstraint
  <2> QED
    BY <1>3, <2>2 DEF to
<1> HIDE DEF Follow
<1>4. ASSUME NEW t \in DOMAIN moved PROVE IsTable(e[t])
  <2>1. IsTable(moved[t])
    BY <1>2
  <2>2. \A con \in Followed(t) : IsConstraint(con)
    BY <1>3, <2>1 DEF IsTable
  <2>3. IsFiniteSet(Followed(t))
    <3> DEFINE S == moved[t].constraints
               g == [con \in S |-> Follow(con)]
    <3>1. g = [con \in S |-> g[con]] /\ Followed(t) = {g[con] : con \in S} /\ IsFiniteSet(S)
      BY <2>1 DEF IsTable
    <3> HIDE DEF g, S
    <3> QED
      BY <3>1, FiniteImage
  <2> HIDE DEF Followed
  <2>4. IsTable([moved[t] EXCEPT !.constraints = Followed(t)])
    BY <2>1, <2>2, <2>3, ConstraintsKeepTable
  <2> QED
    BY <1>1, <2>4
<1> QED
  BY <1>1, <1>4 DEF AreTables

LEMMA DropKeepsTables ==
    ASSUME NEW d, AreTables(d), NEW c, NEW e \in DropTable(d, c)
    PROVE  AreTables(e)
<1> DEFINE Left(t) == {con \in d[t].constraints : con.to # c}
<1>1. e = [t \in DOMAIN d \ {c} |-> [d[t] EXCEPT !.constraints = Left(t)]]
  BY DEF DropTable
<1>2. ASSUME NEW t \in DOMAIN d \ {c} PROVE IsTable(e[t])
  <2>1. IsTable(d[t])
    BY DEF AreTables
  <2>2. IsFiniteSet(Left(t)) /\ \A con \in Left(t) : IsConstraint(con)
    BY <2>1, FS_Subset DEF IsTable
  <2> HIDE DEF Left
  <2>3. IsTable([d[t] EXCEPT !.constraints = Left(t)])
    BY <2>1, <2>2, ConstraintsKeepTable
  <2> QED
    BY <1>1, <2>3
<1> QED
  BY <1>1, <1>2 DEF AreTables

(* Only the table c is changed, into another.                              *)
Changes(d, e, c) ==
    c \in DOMAIN d /\ DOMAIN e = DOMAIN d /\ \A x \in DOMAIN d \ {c} : e[x] = d[x]

LEMMA ChangeKeepsTables ==
    ASSUME NEW d, AreTables(d), NEW e, NEW c, Changes(d, e, c), IsTable(e[c])
    PROVE  AreTables(e)
BY DEF AreTables, Changes

LEMMA RenameColumnKeepsTables ==
    ASSUME NEW d, AreTables(d), NEW c \in DOMAIN d, NEW from, NEW f, NEW e \in RenameColumn(d, c, from, f)
    PROVE  AreTables(e)
<1> DEFINE over(con) == {IF g = from THEN f ELSE g : g \in con.over}
           constraints == {[con EXCEPT !.over = over(con)] : con \in d[c].constraints}
           rows  == {Moved(row, from, f) : row \in d[c].rows}
           table == [key         |-> IF d[c].key = from THEN f ELSE d[c].key,
                     fields      |-> Moved(d[c].fields, from, f),
                     constraints |-> constraints,
                     rows        |-> rows]
<1>1. from \in DOMAIN d[c].fields /\ e = [d EXCEPT ![c] = table]
  BY DEF RenameColumn, If
<1>2. IsTable(d[c])
  BY DEF AreTables
<1>3. DOMAIN Moved(d[c].fields, from, f) = (DOMAIN d[c].fields \ {from}) \cup {f}
  BY DEF Moved
<1>4. IsFiniteSet(DOMAIN Moved(d[c].fields, from, f))
  <2>1. IsFiniteSet(DOMAIN d[c].fields)
    BY <1>2 DEF IsTable
  <2>2. IsFiniteSet(DOMAIN d[c].fields \ {from})
    BY <2>1, FS_RemoveElement
  <2>3. IsFiniteSet((DOMAIN d[c].fields \ {from}) \cup {f})
    BY <2>2, FS_AddElement
  <2> QED
    BY <1>3, <2>3
<1>5. \A row \in rows : DOMAIN row \subseteq DOMAIN Moved(d[c].fields, from, f)
  <2>1. ASSUME NEW row \in d[c].rows
        PROVE  DOMAIN Moved(row, from, f) \subseteq (DOMAIN d[c].fields \ {from}) \cup {f}
    <3>1. DOMAIN row \subseteq DOMAIN d[c].fields
      BY <1>2 DEF IsTable
    <3> QED
      BY <3>1 DEF Moved
  <2> QED
    BY <1>3, <2>1
<1>6. IsFiniteSet(constraints)
  <2> DEFINE S == d[c].constraints
             g == [con \in S |-> [con EXCEPT !.over = over(con)]]
  <2>1. g = [con \in S |-> g[con]] /\ constraints = {g[con] : con \in S} /\ IsFiniteSet(S)
    BY <1>2 DEF IsTable
  <2> HIDE DEF g, S, constraints
  <2> QED
    BY <2>1, FiniteImage
<1>7. ASSUME NEW con \in d[c].constraints PROVE IsConstraint([con EXCEPT !.over = over(con)])
  <2> DEFINE new == [con EXCEPT !.over = over(con)]
  <2>1. IsConstraint(con)
    BY <1>2 DEF IsTable
  <2>2. con.unique \/ IsFiniteSet(over(con))
    <3>1. SUFFICES ASSUME ~con.unique PROVE IsFiniteSet(over(con))
      OBVIOUS
    <3> DEFINE S == con.over
               h == [g \in S |-> IF g = from THEN f ELSE g]
    <3>2. h = [g \in S |-> h[g]] /\ over(con) = {h[g] : g \in S} /\ IsFiniteSet(S)
      BY <2>1, <3>1 DEF IsConstraint
    <3> HIDE DEF h, S, over
    <3> QED
      BY <3>2, FiniteImage
  <2>3. DOMAIN new = DOMAIN con /\ new.unique = con.unique /\ new.over = over(con)
    BY <2>1 DEF IsConstraint
  <2> HIDE DEF new, over
  <2>4. IsConstraint(new)
    BY <2>1, <2>2, <2>3 DEF IsConstraint
  <2> QED
    BY <2>4 DEF new
<1>8. \A con \in constraints : IsConstraint(con)
  <2> HIDE DEF over
  <2> QED
    BY <1>7
<1> HIDE DEF constraints, rows
<1>9. DOMAIN table = {"key", "fields", "constraints", "rows"} /\ table.constraints = constraints
      /\ table.rows = rows /\ table.fields = Moved(d[c].fields, from, f)
  OBVIOUS
<1> HIDE DEF table
<1>10. IsTable(table)
  BY <1>4, <1>5, <1>6, <1>8, <1>9 DEF IsTable
<1>11. Changes(d, e, c) /\ e[c] = table
  BY <1>1 DEF Changes
<1> QED
  BY <1>10, <1>11, ChangeKeepsTables

LEMMA DropColumnKeepsTables ==
    ASSUME NEW d, AreTables(d), NEW c \in DOMAIN d, NEW f, NEW e \in DropColumn(d, c, f)
    PROVE  AreTables(e)
<1> DEFINE fields == Without(d[c].fields, f)
           constraints == {con \in d[c].constraints : f \notin con.over}
           rows == {Without(row, f) : row \in d[c].rows}
<1>1. IsTable(d[c])
  BY DEF AreTables
<1>2. /\ Changes(d, e, c) /\ DOMAIN e[c] = DOMAIN d[c] /\ e[c].fields = fields
      /\ e[c].constraints = constraints /\ e[c].rows = rows
  <2>1. e = [d EXCEPT ![c] = [d[c] EXCEPT !.fields = fields, !.constraints = constraints, !.rows = rows]]
    BY DEF DropColumn
  <2> HIDE DEF fields, constraints, rows
  <2> QED
    BY <1>1, <2>1 DEF Changes, IsTable
<1>3. DOMAIN fields = DOMAIN d[c].fields \ {f} /\ \A row \in rows : DOMAIN row \subseteq DOMAIN fields
  <2>1. DOMAIN fields = DOMAIN d[c].fields \ {f}
    BY DEF Without
  <2>2. ASSUME NEW row \in d[c].rows PROVE DOMAIN Without(row, f) \subseteq DOMAIN d[c].fields \ {f}
    <3>1. DOMAIN row \subseteq DOMAIN d[c].fields
      BY <1>1 DEF IsTable
    <3> QED
      BY <3>1 DEF Without
  <2> HIDE DEF fields
  <2> QED
    BY <2>1, <2>2
<1>4. IsFiniteSet(DOMAIN fields) /\ IsFiniteSet(constraints)
  BY <1>1, <1>3, FS_RemoveElement, FS_Subset DEF IsTable
<1>5. \A con \in constraints : IsConstraint(con)
  BY <1>1 DEF IsTable
<1> HIDE DEF fields, constraints, rows
<1>6. IsTable(e[c])
  BY <1>1, <1>2, <1>3, <1>4, <1>5 DEF IsTable
<1> QED
  BY <1>2, <1>6, ChangeKeepsTables

(* What relaxing, retyping and requiring do to the columns.                *)
LEMMA RelaxKeepsTables ==
    ASSUME NEW d, AreTables(d), NEW c \in DOMAIN d, NEW f, NEW e \in Relax(d, c, f)
    PROVE  AreTables(e)
<1>1. IsTable(d[c])
  BY DEF AreTables
<1>2. /\ Changes(d, e, c) /\ DOMAIN e[c] = DOMAIN d[c] /\ DOMAIN e[c].fields = DOMAIN d[c].fields
      /\ e[c].constraints = d[c].constraints /\ e[c].rows = d[c].rows
  BY <1>1 DEF Relax, If, Changes, IsTable
<1>3. IsTable(e[c])
  BY <1>1, <1>2 DEF IsTable
<1> QED
  BY <1>2, <1>3, ChangeKeepsTables

LEMMA RetypeKeepsTables ==
    ASSUME NEW d, AreTables(d), NEW c \in DOMAIN d, NEW f, NEW becomes, NEW e \in Retype(d, c, f, becomes)
    PROVE  AreTables(e)
<1>1. IsTable(d[c])
  BY DEF AreTables
<1>2. /\ Changes(d, e, c) /\ DOMAIN e[c] = DOMAIN d[c] /\ DOMAIN e[c].fields = DOMAIN d[c].fields
      /\ e[c].constraints = d[c].constraints /\ e[c].rows = d[c].rows
  BY <1>1 DEF Retype, If, Changes, IsTable
<1>3. IsTable(e[c])
  BY <1>1, <1>2 DEF IsTable
<1> QED
  BY <1>2, <1>3, ChangeKeepsTables

LEMMA DropConstraintKeepsTables ==
    ASSUME NEW d, AreTables(d), NEW c \in DOMAIN d, NEW name, NEW e \in DropConstraint(d, c, name)
    PROVE  AreTables(e)
<1> DEFINE left == {con \in d[c].constraints : con.name # name}
<1>1. IsTable(d[c])
  BY DEF AreTables
<1>2. /\ Changes(d, e, c) /\ DOMAIN e[c] = DOMAIN d[c] /\ e[c].fields = d[c].fields
      /\ e[c].constraints = left /\ e[c].rows = d[c].rows
  BY <1>1 DEF DropConstraint, Changes, IsTable
<1>3. IsFiniteSet(left) /\ \A con \in left : IsConstraint(con)
  BY <1>1, FS_Subset DEF IsTable
<1> HIDE DEF left
<1>4. IsTable(e[c])
  BY <1>1, <1>2, <1>3 DEF IsTable
<1> QED
  BY <1>2, <1>4, ChangeKeepsTables

LEMMA AddColumnKeepsTables ==
    ASSUME NEW d, AreTables(d), NEW c \in DOMAIN d, NEW f, NEW field, NEW fills,
           NEW e \in AddColumn(d, c, f, field, fills)
    PROVE  AreTables(e)
<1> DEFINE value  == IF fills THEN Default ELSE None
           fields == With(d[c].fields, f, field)
           rows   == {With(row, f, value) : row \in d[c].rows}
<1>1. IsTable(d[c])
  BY DEF AreTables
<1>2. /\ Changes(d, e, c) /\ DOMAIN e[c] = DOMAIN d[c] /\ e[c].fields = fields
      /\ e[c].constraints = d[c].constraints /\ e[c].rows = rows
  <2>1. e = [d EXCEPT ![c] = [d[c] EXCEPT !.fields = fields, !.rows = rows]]
    BY DEF AddColumn, If
  <2> HIDE DEF fields, rows
  <2> QED
    BY <1>1, <2>1 DEF Changes, IsTable
<1>3. DOMAIN fields = DOMAIN d[c].fields \cup {f} /\ \A row \in rows : DOMAIN row \subseteq DOMAIN fields
  <2>1. DOMAIN fields = DOMAIN d[c].fields \cup {f}
    BY DEF With
  <2>2. ASSUME NEW row \in d[c].rows PROVE DOMAIN With(row, f, value) \subseteq DOMAIN d[c].fields \cup {f}
    <3>1. DOMAIN row \subseteq DOMAIN d[c].fields
      BY <1>1 DEF IsTable
    <3> QED
      BY <3>1 DEF With
  <2> HIDE DEF fields, value
  <2> QED
    BY <2>1, <2>2
<1>4. IsFiniteSet(DOMAIN fields)
  <2> HIDE DEF fields
  <2>1. IsFiniteSet(DOMAIN d[c].fields)
    BY <1>1 DEF IsTable
  <2> QED
    BY <1>3, <2>1, FS_AddElement
<1> HIDE DEF fields, rows
<1>5. IsTable(e[c])
  BY <1>1, <1>2, <1>3, <1>4 DEF IsTable
<1> QED
  BY <1>2, <1>5, ChangeKeepsTables

LEMMA RequireKeepsTables ==
    ASSUME NEW d, AreTables(d), NEW c \in DOMAIN d, NEW f, NEW fills, NEW e \in Require(d, c, f, fills)
    PROVE  AreTables(e)
<1> DEFINE Filled(row) == IF fills /\ row[f] = None THEN [row EXCEPT ![f] = Default] ELSE row
           rows == {Filled(row) : row \in d[c].rows}
<1>1. IsTable(d[c])
  BY DEF AreTables
<1>2. /\ Changes(d, e, c) /\ DOMAIN e[c] = DOMAIN d[c] /\ DOMAIN e[c].fields = DOMAIN d[c].fields
      /\ e[c].constraints = d[c].constraints /\ e[c].rows = rows
  <2>1. e = [d EXCEPT ![c] = [d[c] EXCEPT !.fields[f].required = TRUE, !.rows = rows]]
    BY DEF Require, If
  <2> HIDE DEF rows
  <2> QED
    BY <1>1, <2>1 DEF Changes, IsTable
<1>3. \A row \in rows : DOMAIN row \subseteq DOMAIN d[c].fields
  BY <1>1 DEF IsTable
<1> HIDE DEF rows
<1>4. IsTable(e[c])
  BY <1>1, <1>2, <1>3 DEF IsTable
<1> QED
  BY <1>2, <1>4, ChangeKeepsTables

LEMMA AddConstraintKeepsTables ==
    ASSUME NEW d, AreTables(d), NEW c \in DOMAIN d, NEW con, IsConstraint(con),
           NEW e \in AddConstraint(d, c, con)
    PROVE  AreTables(e)
<1> DEFINE more == d[c].constraints \cup {con}
<1>1. IsTable(d[c])
  BY DEF AreTables
<1>2. /\ Changes(d, e, c) /\ DOMAIN e[c] = DOMAIN d[c] /\ e[c].fields = d[c].fields
      /\ e[c].constraints = more /\ e[c].rows = d[c].rows
  BY <1>1 DEF AddConstraint, If, Changes, IsTable
<1>3. IsFiniteSet(more) /\ \A x \in more : IsConstraint(x)
  BY <1>1, FS_AddElement DEF IsTable
<1> HIDE DEF more
<1>4. IsTable(e[c])
  BY <1>1, <1>2, <1>3 DEF IsTable
<1> QED
  BY <1>2, <1>4, ChangeKeepsTables

LEMMA MadeConstraints ==
    ASSUME NEW c, NEW over, NEW f, NEW to
    PROVE  IsConstraint(Unique(c, over)) /\ IsConstraint(Foreign(c, f, to))
<1>1. DOMAIN Unique(c, over) = {"name", "unique", "over", "to"} /\ Unique(c, over).unique = TRUE
  BY DEF Unique
<1>2. /\ DOMAIN Foreign(c, f, to) = {"name", "unique", "over", "to"}
      /\ Foreign(c, f, to).unique = FALSE /\ Foreign(c, f, to).over = {f}
  BY DEF Foreign
<1> QED
  BY <1>1, <1>2, FS_Singleton DEF IsConstraint

LEMMA StatementKeepsTables ==
    ASSUME NEW d, AreTables(d), NEW s, NEW declared,
           \A c \in DOMAIN declared : IsDeclaration(declared[c]),
           NEW there, IsStep(s, DOMAIN declared, there),
           NEW e \in Statement(d, s, declared)
    PROVE  AreTables(e)
<1>1. CASE s.do = "adopt"
  BY <1>1 DEF Statement
<1>2. CASE s.do = "create"
  <2>1. s.target \in DOMAIN declared
    BY <1>2 DEF IsStep
  <2> QED
    BY <1>2, <2>1, CreateKeepsTables DEF Statement
<1>3. CASE s.do = "drop"
  BY <1>3, DropKeepsTables DEF Statement
<1>4. CASE s.do = "renameCollection"
  BY <1>4, RenameKeepsTables DEF Statement
<1>5. ASSUME s.do \notin {"adopt", "create", "drop", "renameCollection"}
      PROVE  s.target \in DOMAIN d /\ e \in Altered(d, s, declared)
  BY <1>5 DEF Statement
<1>6. CASE s.do = "rename"
  BY <1>5, <1>6, RenameColumnKeepsTables DEF Altered
<1>7. CASE s.do = "remove"
  BY <1>5, <1>7, DropColumnKeepsTables DEF Altered
<1>8. CASE s.do = "add"
  BY <1>5, <1>8, AddColumnKeepsTables DEF Altered
<1>9. CASE s.do = "unique"
  BY <1>5, <1>9, AddConstraintKeepsTables, MadeConstraints DEF Altered
<1>10. CASE s.do = "ununique"
  BY <1>5, <1>10, DropConstraintKeepsTables DEF Altered
<1>11. CASE s.do = "ref"
  BY <1>5, <1>11, AddConstraintKeepsTables, MadeConstraints DEF Altered
<1>12. CASE s.do = "unref"
  BY <1>5, <1>12, DropConstraintKeepsTables DEF Altered
<1>13. CASE s.do = "require"
  BY <1>5, <1>13, RequireKeepsTables DEF Altered
<1>14. CASE s.do = "relax"
  BY <1>5, <1>14, RelaxKeepsTables DEF Altered
<1>15. CASE s.do = "retype"
  BY <1>5, <1>15, RetypeKeepsTables DEF Altered
<1>16. CASE s.do \notin {"adopt", "create", "drop", "renameCollection", "rename", "remove", "add", "unique",
                         "ununique", "ref", "unref", "require", "relax", "retype"}
  BY <1>5, <1>16 DEF Altered
<1> QED
  BY <1>1, <1>2, <1>3, <1>4, <1>6, <1>7, <1>8, <1>9, <1>10, <1>11, <1>12, <1>13, <1>14, <1>15, <1>16

(* The tables there are after a step: its own, unless it drops it, and all *)
(* there were but the one it drops or renames.                             *)
Takes(s, c) == (s.do = "drop" /\ s.target = c) \/ (s.do = "renameCollection" /\ s.from = c)

LEMMA AlteredDomain ==
    ASSUME NEW d, NEW s, NEW declared, s.target \in DOMAIN d, NEW e \in Altered(d, s, declared)
    PROVE  DOMAIN e = DOMAIN d
<1> DEFINE c == s.target
           f == s.at
<1>1. CASE s.do = "rename"
  <2>1. \E table : e = [d EXCEPT ![c] = table]
    BY <1>1 DEF Altered, RenameColumn, If
  <2> QED
    BY <2>1
<1>2. CASE s.do = "remove"
  <2>1. \E table : e = [d EXCEPT ![c] = table]
    BY <1>2 DEF Altered, DropColumn
  <2> QED
    BY <2>1
<1>3. CASE s.do = "add"
  <2>1. \E table : e = [d EXCEPT ![c] = table]
    BY <1>3 DEF Altered, AddColumn, If
  <2> QED
    BY <2>1
<1>4. CASE s.do \in {"unique", "ref"}
  BY <1>4 DEF Altered, AddConstraint, If
<1>5. CASE s.do \in {"ununique", "unref"}
  BY <1>5 DEF Altered, DropConstraint
<1>6. CASE s.do = "require"
  <2>1. \E table : e = [d EXCEPT ![c] = table]
    BY <1>6 DEF Altered, Require, If
  <2> QED
    BY <2>1
<1>7. CASE s.do = "relax"
  BY <1>7 DEF Altered, Relax, If
<1>8. CASE s.do = "retype"
  BY <1>8 DEF Altered, Retype, If
<1>9. CASE s.do \notin {"rename", "remove", "add", "unique", "ununique", "ref", "unref",
                        "require", "relax", "retype"}
  BY <1>9 DEF Altered
<1> QED
  BY <1>1, <1>2, <1>3, <1>4, <1>5, <1>6, <1>7, <1>8, <1>9

LEMMA StatementDomain ==
    ASSUME NEW d, NEW s, NEW declared, NEW there, IsStep(s, DOMAIN declared, there),
           NEW e \in Statement(d, s, declared)
    PROVE  /\ DOMAIN e \subseteq DOMAIN d \cup (DOMAIN declared \cap {s.target})
           /\ s.do \notin {"drop", "adopt"} => s.target \in DOMAIN e
           /\ \A c \in DOMAIN d : c \notin DOMAIN e => Takes(s, c)
           /\ \A c : Takes(s, c) => c \notin DOMAIN e /\ c \notin DOMAIN declared
<1>1. CASE s.do = "adopt"
  <2>1. e = d
    BY <1>1 DEF Statement
  <2> QED
    BY <1>1, <2>1 DEF IsStep, Takes
<1>2. CASE s.do = "create"
  <2>1. DOMAIN e = DOMAIN d \cup {s.target}
    <3>1. \E table : e = With(d, s.target, table)
      BY <1>2 DEF Statement, CreateTable, If
    <3> QED
      BY <3>1 DEF With
  <2> QED
    BY <1>2, <2>1 DEF IsStep, Takes
<1>3. CASE s.do = "drop"
  <2>1. DOMAIN e = DOMAIN d \ {s.target}
    BY <1>3 DEF Statement, DropTable
  <2> QED
    BY <1>3, <2>1 DEF IsStep, Takes
<1>4. CASE s.do = "renameCollection"
  <2>1. DOMAIN e = (DOMAIN d \ {s.from}) \cup {s.target}
    <3>1. DOMAIN e = DOMAIN Moved(d, s.from, s.target)
      BY <1>4 DEF Statement, RenameTable, If
    <3> QED
      BY <3>1 DEF Moved
  <2> QED
    BY <1>4, <2>1 DEF IsStep, Takes
<1>5. ASSUME s.do \notin {"adopt", "create", "drop", "renameCollection"}
      PROVE  s.target \in DOMAIN d /\ DOMAIN e = DOMAIN d
  <2>1. s.target \in DOMAIN d /\ e \in Altered(d, s, declared)
    BY <1>5 DEF Statement
  <2> QED
    BY <2>1, AlteredDomain
<1> QED
  BY <1>1, <1>2, <1>3, <1>4, <1>5 DEF IsStep, Takes

-----------------------------------------------------------------------------
(* The databases a plan may leave, step by step.                           *)
AreWays(after, d, steps, declared, n) ==
    after = [i \in 0 .. n |->
                IF i = 0 THEN {d} ELSE UNION {Statement(e, steps[i], declared) : e \in after[i - 1]}]

LEMMA WaysExist ==
    ASSUME NEW d, NEW steps, NEW declared, NEW n \in Nat
    PROVE  \E after : AreWays(after, d, steps, declared, n)
<1> DEFINE Onward(before, i) == UNION {Statement(e, steps[i], declared) : e \in before}
           W(f, k) == f = [i \in 0 .. k |-> IF i = 0 THEN {d} ELSE Onward(f[i - 1], i)]
           S == {k \in Nat : \E f : W(f, k)}
<1> HIDE DEF Onward
<1>1. 0 \in S
  <2>1. W([i \in 0 .. 0 |-> {d}], 0)
    OBVIOUS
  <2> QED
    BY <2>1
<1>2. ASSUME NEW k \in S PROVE k + 1 \in S
  <2>1. PICK f : W(f, k)
    BY <1>2
  <2> DEFINE g == [i \in 0 .. (k + 1) |-> IF i = k + 1 THEN Onward(f[k], i) ELSE f[i]]
  <2>2. k \in Nat /\ k + 1 \in Nat
    BY <1>2
  <2>3. \A i \in 0 .. k : f[i] = IF i = 0 THEN {d} ELSE Onward(f[i - 1], i)
    BY <2>1
  <2>4. ASSUME NEW i \in 0 .. (k + 1) PROVE g[i] = IF i = 0 THEN {d} ELSE Onward(g[i - 1], i)
    <3>1. CASE i = k + 1
      <4>1. i # 0 /\ i - 1 = k /\ k \in 0 .. (k + 1) /\ k # k + 1
        BY <2>2, <3>1
      <4>2. g[i] = Onward(f[k], i) /\ g[i - 1] = f[k]
        BY <3>1, <4>1
      <4> QED
        BY <4>1, <4>2
    <3>2. CASE i # k + 1
      <4>1. i \in 0 .. k /\ (i # 0 => i - 1 \in 0 .. k /\ i - 1 # k + 1 /\ i - 1 \in 0 .. (k + 1))
        BY <2>2, <3>2
      <4>2. g[i] = f[i] /\ (i # 0 => g[i - 1] = f[i - 1])
        BY <3>2, <4>1
      <4> QED
        BY <2>3, <4>1, <4>2
    <3> QED
      BY <3>1, <3>2
  <2>5. g = [i \in 0 .. (k + 1) |-> g[i]]
    OBVIOUS
  <2> HIDE DEF g
  <2>6. W(g, k + 1)
    BY <2>4, <2>5
  <2> QED
    BY <2>2, <2>6
<1>3. S = Nat
  <2> HIDE DEF S
  <2>1. S \in SUBSET Nat
    BY DEF S
  <2> QED
    BY <1>1, <1>2, <2>1, StepByStep
<1>4. PICK f : W(f, n)
  BY <1>3
<1> QED
  BY <1>4 DEF AreWays, Onward

LEMMA AppliedIs ==
    ASSUME NEW d, NEW steps, NEW declared, Len(steps) \in Nat
    PROVE  \E after : /\ AreWays(after, d, steps, declared, Len(steps))
                      /\ Applied(d, steps, declared) = after[Len(steps)]
<1> DEFINE after[n \in 0 .. Len(steps)] ==
               IF n = 0 THEN {d} ELSE UNION {Statement(e, steps[n], declared) : e \in after[n - 1]}
<1>1. Applied(d, steps, declared) = after[Len(steps)]
  BY DEF Applied
<1>2. \E f : f = [n \in 0 .. Len(steps) |->
                     IF n = 0 THEN {d} ELSE UNION {Statement(e, steps[n], declared) : e \in f[n - 1]}]
  <2>1. PICK f : AreWays(f, d, steps, declared, Len(steps))
    BY WaysExist
  <2>2. f = [n \in 0 .. Len(steps) |->
                IF n = 0 THEN {d} ELSE UNION {Statement(e, steps[n], declared) : e \in f[n - 1]}]
    BY <2>1 DEF AreWays
  <2> QED
    BY <2>2
<1>3. after = [n \in 0 .. Len(steps) |->
                  IF n = 0 THEN {d} ELSE UNION {Statement(e, steps[n], declared) : e \in after[n - 1]}]
  BY <1>2
<1> HIDE DEF after
<1>4. AreWays(after, d, steps, declared, Len(steps))
  BY <1>3 DEF AreWays
<1> QED
  BY <1>1, <1>4

(* Every value of every key is in d where it is in e.                      *)
Keeps(d, e) ==
    \A c \in DOMAIN d : c \in DOMAIN e /\ \A k : k # None => Cells(d[c], k) \subseteq Cells(e[c], k)

(* The steps that are additive where they are.                             *)
Adding == AlwaysAdditive \cup {"unique", "ref", "add", "require"}

LEMMA AdditiveAdds ==
    ASSUME NEW step, NEW way, Class(step, way) = "additive"
    PROVE  step.do \in Adding
BY DEF Class, Adding

LEMMA SameRowsKeep ==
    ASSUME NEW d, NEW e, NEW c, Changes(d, e, c), e[c].rows = d[c].rows, e[c].key = d[c].key
    PROVE  Keeps(d, e)
<1>1. \A x \in DOMAIN d : x \in DOMAIN e /\ e[x].rows = d[x].rows /\ e[x].key = d[x].key
  BY DEF Changes
<1> QED
  BY <1>1 DEF Keeps, Cells

(* Of each row there is one with its key that holds what it held.          *)
LEMMA RowsKept ==
    ASSUME NEW d, NEW e, NEW c, Changes(d, e, c), e[c].key = d[c].key,
           \A row \in d[c].rows : \E new \in e[c].rows :
               /\ DOMAIN row \subseteq DOMAIN new
               /\ \A f \in DOMAIN row : row[f] \notin {None, Default} => new[f] = row[f]
               /\ d[c].key \in DOMAIN row /\ row[d[c].key] # None => new[d[c].key] = row[d[c].key]
    PROVE  Keeps(d, e)
<1>1. ASSUME NEW k, k # None, NEW cell \in Cells(d[c], k) PROVE cell \in Cells(e[c], k)
  <2> DEFINE key == d[c].key
  <2>1. PICK row \in d[c].rows : key \in DOMAIN row /\ row[key] = k
                                 /\ cell \in {<<f, row[f]>> : f \in {g \in DOMAIN row : row[g] \notin {None, Default}}}
    BY DEF Cells
  <2>2. PICK f \in DOMAIN row : row[f] \notin {None, Default} /\ cell = <<f, row[f]>>
    BY <2>1
  <2>3. PICK new \in e[c].rows :
               /\ DOMAIN row \subseteq DOMAIN new
               /\ \A g \in DOMAIN row : row[g] \notin {None, Default} => new[g] = row[g]
               /\ key \in DOMAIN row /\ row[key] # None => new[key] = row[key]
    OBVIOUS
  <2>4. key \in DOMAIN new /\ new[key] = k /\ f \in DOMAIN new /\ new[f] = row[f]
    BY <1>1, <2>1, <2>2, <2>3
  <2>5. cell \in {<<g, new[g]>> : g \in {h \in DOMAIN new : new[h] \notin {None, Default}}}
    BY <2>2, <2>4
  <2> QED
    BY <2>4, <2>5 DEF Cells
<1>2. \A x \in DOMAIN d \ {c} : x \in DOMAIN e /\ e[x] = d[x]
  BY DEF Changes
<1>3. c \in DOMAIN e
  BY DEF Changes
<1> QED
  BY <1>1, <1>2, <1>3 DEF Keeps

LEMMA CreateKeeps ==
    ASSUME NEW d, NEW c, NEW decl, NEW e \in CreateTable(d, c, decl)
    PROVE  Keeps(d, e)
<1> DEFINE new == [key |-> decl.key, fields |-> decl.fields, constraints |-> {}, rows |-> {}]
<1>1. c \notin DOMAIN d /\ e = With(d, c, new)
  BY DEF CreateTable, If
<1> HIDE DEF new
<1>2. \A x \in DOMAIN d : x \in DOMAIN e /\ e[x] = d[x]
  BY <1>1 DEF With
<1> QED
  BY <1>2 DEF Keeps

LEMMA AddColumnKeeps ==
    ASSUME NEW d, AreTables(d), NEW c \in DOMAIN d, NEW f, NEW field, NEW fills,
           NEW e \in AddColumn(d, c, f, field, fills)
    PROVE  Keeps(d, e)
<1> DEFINE value  == IF fills THEN Default ELSE None
           fields == With(d[c].fields, f, field)
           rows   == {With(row, f, value) : row \in d[c].rows}
<1>1. IsTable(d[c])
  BY DEF AreTables
<1>2. Changes(d, e, c) /\ e[c].key = d[c].key /\ e[c].rows = rows /\ f \notin DOMAIN d[c].fields
  <2>1. e = [d EXCEPT ![c] = [d[c] EXCEPT !.fields = fields, !.rows = rows]] /\ f \notin DOMAIN d[c].fields
    BY DEF AddColumn, If
  <2> HIDE DEF fields, rows
  <2> QED
    BY <1>1, <2>1 DEF Changes, IsTable
<1>3. ASSUME NEW row \in d[c].rows
      PROVE  \E new \in e[c].rows :
               /\ DOMAIN row \subseteq DOMAIN new
               /\ \A g \in DOMAIN row : row[g] \notin {None, Default} => new[g] = row[g]
               /\ d[c].key \in DOMAIN row /\ row[d[c].key] # None => new[d[c].key] = row[d[c].key]
  <2> DEFINE new == With(row, f, value)
  <2>1. new \in e[c].rows
    BY <1>2
  <2>2. f \notin DOMAIN row
    BY <1>1, <1>2 DEF IsTable
  <2>3. DOMAIN row \subseteq DOMAIN new /\ \A g \in DOMAIN row : new[g] = row[g]
    BY <2>2 DEF With
  <2> HIDE DEF new
  <2> QED
    BY <2>1, <2>3
<1> HIDE DEF rows
<1> QED
  BY <1>2, <1>3, RowsKept

LEMMA RequireKeeps ==
    ASSUME NEW d, AreTables(d), NEW c \in DOMAIN d, NEW f, NEW fills, NEW e \in Require(d, c, f, fills)
    PROVE  Keeps(d, e)
<1> DEFINE Filled(row) == IF fills /\ row[f] = None THEN [row EXCEPT ![f] = Default] ELSE row
           rows == {Filled(row) : row \in d[c].rows}
<1>1. IsTable(d[c])
  BY DEF AreTables
<1>2. Changes(d, e, c) /\ e[c].key = d[c].key /\ e[c].rows = rows
  <2>1. e = [d EXCEPT ![c] = [d[c] EXCEPT !.fields[f].required = TRUE, !.rows = rows]]
    BY DEF Require, If
  <2> HIDE DEF rows
  <2> QED
    BY <1>1, <2>1 DEF Changes, IsTable
<1>3. ASSUME NEW row \in d[c].rows
      PROVE  \E new \in e[c].rows :
               /\ DOMAIN row \subseteq DOMAIN new
               /\ \A g \in DOMAIN row : row[g] \notin {None, Default} => new[g] = row[g]
               /\ d[c].key \in DOMAIN row /\ row[d[c].key] # None => new[d[c].key] = row[d[c].key]
  <2> DEFINE new == Filled(row)
  <2>1. new \in e[c].rows
    BY <1>2
  <2>2. DOMAIN new = DOMAIN row /\ \A g \in DOMAIN row : row[g] # None => new[g] = row[g]
    OBVIOUS
  <2> HIDE DEF new
  <2> QED
    BY <2>1, <2>2
<1> HIDE DEF rows
<1> QED
  BY <1>2, <1>3, RowsKept

LEMMA AddConstraintKeeps ==
    ASSUME NEW d, AreTables(d), NEW c \in DOMAIN d, NEW con, NEW e \in AddConstraint(d, c, con)
    PROVE  Keeps(d, e)
<1>1. IsTable(d[c])
  BY DEF AreTables
<1>2. Changes(d, e, c) /\ e[c].key = d[c].key /\ e[c].rows = d[c].rows
  BY <1>1 DEF AddConstraint, If, Changes, IsTable
<1> QED
  BY <1>2, SameRowsKeep

LEMMA StatementKeeps ==
    ASSUME NEW d, AreTables(d), NEW s, s.do \in Adding, NEW declared,
           NEW e \in Statement(d, s, declared)
    PROVE  Keeps(d, e)
<1>1. CASE s.do = "adopt"
  <2>1. e = d
    BY <1>1 DEF Statement
  <2> QED
    BY <2>1 DEF Keeps
<1>2. CASE s.do = "create"
  BY <1>2, CreateKeeps DEF Statement
<1>3. ASSUME s.do \notin AlwaysAdditive
      PROVE  s.target \in DOMAIN d /\ e \in Altered(d, s, declared)
  BY <1>3 DEF Statement, Adding, AlwaysAdditive
<1>4. CASE s.do = "add"
  BY <1>3, <1>4, AddColumnKeeps DEF Altered, AlwaysAdditive
<1>5. CASE s.do = "require"
  BY <1>3, <1>5, RequireKeeps DEF Altered, AlwaysAdditive
<1>6. CASE s.do = "unique"
  BY <1>3, <1>6, AddConstraintKeeps DEF Altered, AlwaysAdditive
<1>7. CASE s.do = "ref"
  BY <1>3, <1>7, AddConstraintKeeps DEF Altered, AlwaysAdditive
<1> QED
  BY <1>1, <1>2, <1>4, <1>5, <1>6, <1>7 DEF Adding, AlwaysAdditive

LEMMA KeepsOn ==
    ASSUME NEW d, NEW e, NEW g, Keeps(d, e), Keeps(e, g)
    PROVE  Keeps(d, g)
<1>1. ASSUME NEW c \in DOMAIN d
      PROVE  c \in DOMAIN g /\ \A k : k # None => Cells(d[c], k) \subseteq Cells(g[c], k)
  <2>1. c \in DOMAIN e /\ \A k : k # None => Cells(d[c], k) \subseteq Cells(e[c], k)
    BY DEF Keeps
  <2>2. c \in DOMAIN g /\ \A k : k # None => Cells(e[c], k) \subseteq Cells(g[c], k)
    BY <2>1 DEF Keeps
  <2> QED
    BY <2>1, <2>2
<1> QED
  BY <1>1 DEF Keeps

(* What a plan leaves of the tables there were before its first n steps.   *)
Leaves(steps, n, declared, d, e) ==
    /\ declared \cap DOMAIN d \subseteq DOMAIN e
    /\ \A c \in DOMAIN e \ DOMAIN d : \E i \in 1 .. n : steps[i].do # "drop" /\ steps[i].target = c
    /\ \A c \in DOMAIN d \ DOMAIN e : \E i \in 1 .. n : Takes(steps[i], c)
    /\ \A i \in 1 .. n : /\ steps[i].do \notin {"drop", "adopt"} => steps[i].target \in DOMAIN e
                         /\ \A c : Takes(steps[i], c) => c \notin DOMAIN e

LEMMA LeavesOneMore ==
    ASSUME NEW d, NEW declared, NEW there, NEW steps, NEW n \in Nat,
           \A i \in 1 .. (n + 1) : IsStep(steps[i], DOMAIN declared, there),
           NEW y, Leaves(steps, n, DOMAIN declared, d, y), NEW x \in Statement(y, steps[n + 1], declared)
    PROVE  Leaves(steps, n + 1, DOMAIN declared, d, x)
<1> DEFINE D == DOMAIN declared
           s == steps[n + 1]
<1>1. IsStep(s, D, there) /\ n + 1 \in 1 .. (n + 1) /\ \A i \in 1 .. n : i \in 1 .. (n + 1)
  OBVIOUS
<1>3. /\ DOMAIN x \subseteq DOMAIN y \cup (D \cap {s.target})
      /\ s.do \notin {"drop", "adopt"} => s.target \in DOMAIN x
      /\ \A c \in DOMAIN y : c \notin DOMAIN x => Takes(s, c)
      /\ \A c : Takes(s, c) => c \notin DOMAIN x /\ c \notin D
  BY <1>1, StatementDomain
<1>4. D \cap DOMAIN d \subseteq DOMAIN x
  BY <1>3 DEF Leaves
<1>5. ASSUME NEW c \in DOMAIN x \ DOMAIN d
      PROVE  \E i \in 1 .. (n + 1) : steps[i].do # "drop" /\ steps[i].target = c
  <2>1. CASE c \in DOMAIN y
    <3>1. PICK i \in 1 .. n : steps[i].do # "drop" /\ steps[i].target = c
      BY <1>5, <2>1 DEF Leaves
    <3> QED
      BY <1>1, <3>1
  <2>2. CASE c \notin DOMAIN y
    <3>1. c \in D /\ s.target = c
      BY <1>3, <1>5, <2>2
    <3>2. s.do # "drop"
      BY <1>1, <3>1 DEF IsStep
    <3> QED
      BY <1>1, <3>1, <3>2
  <2> QED
    BY <2>1, <2>2
<1>6. ASSUME NEW c \in DOMAIN d \ DOMAIN x PROVE \E i \in 1 .. (n + 1) : Takes(steps[i], c)
  <2>1. CASE c \in DOMAIN y
    BY <1>1, <1>3, <1>6, <2>1
  <2>2. CASE c \notin DOMAIN y
    <3>1. PICK i \in 1 .. n : Takes(steps[i], c)
      BY <1>6, <2>2 DEF Leaves
    <3> QED
      BY <1>1, <3>1
  <2> QED
    BY <2>1, <2>2
<1>7. ASSUME NEW i \in 1 .. (n + 1)
      PROVE  /\ steps[i].do \notin {"drop", "adopt"} => steps[i].target \in DOMAIN x
             /\ \A c : Takes(steps[i], c) => c \notin DOMAIN x
  <2>1. CASE i = n + 1
    BY <1>3, <2>1
  <2>2. CASE i # n + 1
    <3>1. i \in 1 .. n /\ IsStep(steps[i], D, there)
      BY <2>2
    <3>2. /\ steps[i].do \notin {"drop", "adopt"} => steps[i].target \in DOMAIN y
          /\ \A c : Takes(steps[i], c) => c \notin DOMAIN y
      BY <3>1 DEF Leaves
    <3>3. steps[i].do # "drop" => steps[i].target \in D
      BY <3>1 DEF IsStep
    <3>4. \A c : Takes(steps[i], c) => c \notin D
      BY <3>1 DEF IsStep, Takes
    <3> QED
      BY <1>3, <3>2, <3>3, <3>4
  <2> QED
    BY <2>1, <2>2
<1> QED
  BY <1>4, <1>5, <1>6, <1>7 DEF Leaves

(* A plan leaves tables, those it says, and one of additive steps leaves   *)
(* every value.                                                            *)
LEMMA PlanLeaves ==
    ASSUME NEW d, AreTables(d), NEW declared, NEW there, NEW steps, IsPlan(steps, DOMAIN declared, there),
           \A c \in DOMAIN declared : IsDeclaration(declared[c]),
           NEW e \in Applied(d, steps, declared)
    PROVE  /\ AreTables(e) /\ Leaves(steps, Len(steps), DOMAIN declared, d, e)
           /\ (\A i \in DOMAIN steps : steps[i].do \in Adding) => Keeps(d, e)
<1> DEFINE n == Len(steps)
           adds == \A i \in DOMAIN steps : steps[i].do \in Adding
<1>1. /\ n \in Nat /\ DOMAIN steps = 1 .. n
      /\ \A i \in 1 .. n : IsStep(steps[i], DOMAIN declared, there)
  BY PlanLength
<1>2. PICK after : AreWays(after, d, steps, declared, n) /\ Applied(d, steps, declared) = after[n]
  BY <1>1, AppliedIs
<1>3. /\ after[0] = {d}
      /\ \A i \in 1 .. n : \A x \in after[i] : \E y \in after[i - 1] : x \in Statement(y, steps[i], declared)
  <2> DEFINE Onward(before, i) == UNION {Statement(x, steps[i], declared) : x \in before}
  <2>1. after = [i \in 0 .. n |-> IF i = 0 THEN {d} ELSE Onward(after[i - 1], i)]
    BY <1>2 DEF AreWays
  <2>2. \A before, i : \A x \in Onward(before, i) : \E y \in before : x \in Statement(y, steps[i], declared)
    OBVIOUS
  <2> HIDE DEF Onward
  <2>3. after[0] = {d} /\ \A i \in 1 .. n : after[i] = Onward(after[i - 1], i)
    <3>1. 0 \in 0 .. n /\ \A i \in 1 .. n : i \in 0 .. n /\ i # 0
      BY <1>1
    <3> QED
      BY <2>1, <3>1
  <2> QED
    BY <2>2, <2>3
<1> HIDE DEF adds
<1> DEFINE S == {i \in Nat : i <= n => \A x \in after[i] :
                    /\ AreTables(x) /\ Leaves(steps, i, DOMAIN declared, d, x)
                    /\ adds => Keeps(d, x)}
<1>4. 0 \in S
  <2>1. Keeps(d, d) /\ Leaves(steps, 0, DOMAIN declared, d, d)
    BY DEF Keeps, Leaves
  <2> QED
    BY <1>3, <2>1
<1>5. ASSUME NEW i \in S PROVE i + 1 \in S
  <2>1. i \in Nat /\ i + 1 \in Nat
    BY <1>5
  <2>2. SUFFICES ASSUME i + 1 <= n, NEW x \in after[i + 1]
                 PROVE  /\ AreTables(x) /\ Leaves(steps, i + 1, DOMAIN declared, d, x)
                        /\ adds => Keeps(d, x)
    BY <2>1
  <2>3. i + 1 \in 1 .. n /\ i + 1 - 1 = i /\ i <= n /\ \A j \in 1 .. (i + 1) : j \in 1 .. n
    BY <1>1, <2>1, <2>2
  <2>5. PICK y \in after[i] : x \in Statement(y, steps[i + 1], declared)
    <3>1. \E y \in after[i + 1 - 1] : x \in Statement(y, steps[i + 1], declared)
      BY <1>3, <2>2, <2>3
    <3> QED
      BY <2>3, <3>1
  <2>6. AreTables(y) /\ Leaves(steps, i, DOMAIN declared, d, y) /\ (adds => Keeps(d, y))
    BY <1>5, <2>3
  <2>7. IsStep(steps[i + 1], DOMAIN declared, there)
    BY <1>1, <2>3
  <2>8. AreTables(x)
    BY <2>5, <2>6, <2>7, StatementKeepsTables
  <2>9. Leaves(steps, i + 1, DOMAIN declared, d, x)
    <3>1. \A j \in 1 .. (i + 1) : IsStep(steps[j], DOMAIN declared, there)
      BY <1>1, <2>3
    <3> QED
      BY <2>1, <2>5, <2>6, <3>1, LeavesOneMore
  <2>10. ASSUME adds PROVE Keeps(d, x)
    <3>1. steps[i + 1].do \in Adding
      BY <1>1, <2>3, <2>10 DEF adds
    <3>2. Keeps(y, x)
      BY <2>5, <2>6, <3>1, StatementKeeps
    <3> QED
      BY <2>6, <2>10, <3>2, KeepsOn
  <2> QED
    BY <2>8, <2>9, <2>10
<1>6. S = Nat
  <2> HIDE DEF S
  <2>1. S \in SUBSET Nat
    BY DEF S
  <2> QED
    BY <1>4, <1>5, <2>1, StepByStep
<1>7. n \in S
  BY <1>1, <1>6
<1> QED
  BY <1>1, <1>2, <1>7 DEF adds

-----------------------------------------------------------------------------
(* What stands is read as declarations (inspect.ts), finitely many.        *)
LEMMA InspectIsDeclaration ==
    ASSUME NEW table, IsTable(table)
    PROVE  IsDeclaration(Inspect(table))
<1> DEFINE foreign == {con \in table.constraints : ~con.unique}
           uniques == {con.over : con \in table.constraints \ foreign}
           overs   == {con.over : con \in foreign}
           refs    == [f \in UNION overs |-> (CHOOSE con \in foreign : con.over = {f}).to]
           read    == [key |-> table.key, fields |-> table.fields, unique |-> uniques, refs |-> refs]
<1>1. Inspect(table) = read
  BY DEF Inspect
<1>2. IsFiniteSet(foreign) /\ IsFiniteSet(table.constraints \ foreign)
  BY FS_Subset DEF IsTable
<1>3. \A con \in foreign : IsFiniteSet(con.over)
  BY DEF IsTable, IsConstraint
<1> HIDE DEF foreign
<1>4. IsFiniteSet(uniques)
  <2> DEFINE S == table.constraints \ foreign
             g == [con \in S |-> con.over]
  <2>1. g = [con \in S |-> g[con]] /\ uniques = {g[con] : con \in S}
    OBVIOUS
  <2>2. IsFiniteSet(S)
    BY <1>2
  <2> HIDE DEF g, S, uniques
  <2> QED
    BY <2>1, <2>2, FiniteImage
<1>5. IsFiniteSet(UNION overs)
  <2> DEFINE g == [con \in foreign |-> con.over]
  <2>1. g = [con \in foreign |-> g[con]] /\ overs = {g[con] : con \in foreign}
    OBVIOUS
  <2>2. \A over \in overs : IsFiniteSet(over)
    BY <1>3
  <2> HIDE DEF g, overs
  <2>3. IsFiniteSet(overs)
    BY <1>2, <2>1, FiniteImage
  <2> QED
    BY <2>2, <2>3, FS_UNION
<1>6. DOMAIN refs = UNION overs
  OBVIOUS
<1> HIDE DEF uniques, refs
<1>7. DOMAIN read = {"key", "fields", "unique", "refs"} /\ read.fields = table.fields
      /\ read.unique = uniques /\ read.refs = refs
  OBVIOUS
<1> HIDE DEF read, overs
<1> QED
  BY <1>1, <1>4, <1>5, <1>6, <1>7 DEF IsDeclaration, IsTable

(* What is recorded of collections, gone ones among them.                  *)
IsRecord(known) ==
    IsFiniteSet(DOMAIN known) /\ \A c \in DOMAIN known : known[c] = None \/ IsDeclaration(known[c])

LEMMA PlanOfIsPlan ==
    ASSUME NEW p, NEW adopt, NEW t \in DOMAIN Trees, AreTables(db), IsRecord(record)
    PROVE  IsPlan(PlanOf(p, Trees[t], adopt), DOMAIN Trees[t].declared, DOMAIN db)
<1> DEFINE names    == Asked(p, Trees[t])
           drifted  == IF adopt THEN Drifted(names) ELSE {}
           stands   == DOMAIN Recorded(names) \ drifted
           recorded == [c \in stands |-> record[c]]
           found    == Catalog(names \ DOMAIN recorded)
<1>1. AreDeclarations(Trees[t].declared)
  BY TreesAssumption DEF AreDeclarations
<1>2. IsFiniteSet(names)
  <2>1. IsFiniteSet(DOMAIN Trees[t].declared) /\ IsFiniteSet(DOMAIN record)
    BY <1>1 DEF AreDeclarations, IsRecord
  <2>2. IsFiniteSet(DOMAIN Trees[t].declared \cup DOMAIN record)
    BY <2>1, FS_Union
  <2> QED
    BY <2>1, <2>2 DEF Asked, EverKnown
<1>3. stands \subseteq {c \in DOMAIN record : record[c] # None}
  BY DEF Recorded
<1>4. AreDeclarations(recorded)
  <2>1. IsFiniteSet(stands)
    <3>1. stands \subseteq DOMAIN record /\ IsFiniteSet(DOMAIN record)
      BY <1>3 DEF IsRecord
    <3> HIDE DEF stands
    <3> QED
      BY <3>1, FS_Subset
  <2> HIDE DEF stands
  <2> QED
    BY <1>3, <2>1 DEF AreDeclarations, IsRecord
<1> HIDE DEF names, recorded
<1>5. AreDeclarations(found) /\ DOMAIN found \subseteq DOMAIN db
  <2> DEFINE asked == (names \ DOMAIN recorded) \cap DOMAIN db
  <2>1. found = [c \in asked |-> Inspect(db[c])]
    BY DEF Catalog
  <2>2. IsFiniteSet(asked)
    BY <1>2, FS_Subset
  <2>3. \A c \in asked : IsDeclaration(Inspect(db[c]))
    BY InspectIsDeclaration DEF AreTables
  <2>4. asked \subseteq DOMAIN db
    OBVIOUS
  <2> HIDE DEF asked
  <2> QED
    BY <2>1, <2>2, <2>3, <2>4 DEF AreDeclarations
<1> HIDE DEF found
<1>6. PlanOf(p, Trees[t], adopt) = Plan(Trees[t], recorded, found)
  BY DEF PlanOf, names, recorded, found
<1> QED
  BY <1>1, <1>4, <1>5, <1>6, PlanIsPlan

-----------------------------------------------------------------------------
(* What holds of the connection whatever starts, migrates and writes: the  *)
(* database is one, what is recorded are declarations, of the tables that  *)
(* are there unless a crossed run wrote to them, and what a run under way  *)
(* holds is a plan for the tree it read, made where there were the tables  *)
(* there are, or, once the plan of another tree has crossed it, where      *)
(* there may have been any; of one judged, only what adds is additive.     *)
Ground(t, stale, there) == IF stale THEN DOMAIN Trees[t].declared ELSE there

Holds(r, stale, there) ==
    /\ DOMAIN r = DOMAIN Idle
    /\ r.phase \in {"read", "judged"} =>
          /\ r.tree \in DOMAIN Trees
          /\ IsPlan(r.steps, DOMAIN Trees[r.tree].declared, Ground(r.tree, stale, there))
    /\ r.phase = "judged" =>
          \A i \in DOMAIN r.steps : r.classes[i] = "additive" => r.steps[i].do \in Adding

Tidy ==
    /\ AreTables(db) /\ IsRecord(record) /\ KnowsTheTables /\ tree \in DOMAIN Trees
    /\ DOMAIN run = Runner /\ \A p \in Runner : Holds(run[p], p \in crossed, DOMAIN db)

LEMMA IdleHolds == Idle.phase = "idle" /\ \A stale, there : Holds(Idle, stale, there)
BY DEF Holds, Idle

(* A plan outlives what others apply: one of its own tree takes nothing    *)
(* that is declared, and of another it is then crossed by.                 *)
LEMMA HoldsOn ==
    ASSUME NEW r, NEW stale, NEW there, NEW crossing, NEW now, Holds(r, stale, there),
           ~crossing => ~stale /\ (r.phase \in {"read", "judged"} =>
                                      DOMAIN Trees[r.tree].declared \cap there \subseteq now)
    PROVE  Holds(r, crossing, now)
<1> DEFINE declared == DOMAIN Trees[r.tree].declared
<1>1. ASSUME r.phase \in {"read", "judged"}, IsPlan(r.steps, declared, Ground(r.tree, stale, there))
      PROVE  IsPlan(r.steps, declared, Ground(r.tree, crossing, now))
  <2>1. declared \cap Ground(r.tree, stale, there) \subseteq Ground(r.tree, crossing, now)
    BY <1>1 DEF Ground
  <2> HIDE DEF declared
  <2> QED
    BY <1>1, <2>1, PlanRemains
<1> QED
  BY <1>1 DEF Holds

(* One that ended holds no plan, and the others what they held.            *)
LEMMA EndHolds ==
    ASSUME Tidy, NEW p \in Runner, NEW phase, phase \notin {"read", "judged"}, End(p, phase)
    PROVE  /\ DOMAIN run' = Runner /\ \A stale, there : Holds(run'[p], stale, there)
           /\ run'[p].phase = phase /\ \A q \in Runner \ {p} : run'[q] = run[q]
<1> DEFINE ended == [Idle EXCEPT !.phase = phase, !.tree = run[p].tree]
<1>1. run' = [run EXCEPT ![p] = ended]
  BY DEF End
<1>2. DOMAIN ended = DOMAIN Idle /\ ended.phase = phase
  BY DEF Idle
<1> HIDE DEF ended
<1>3. \A stale, there : Holds(ended, stale, there)
  BY <1>2 DEF Holds
<1>4. DOMAIN run' = Runner /\ run'[p] = ended /\ \A q \in Runner \ {p} : run'[q] = run[q]
  BY <1>1 DEF Tidy
<1> QED
  BY <1>2, <1>3, <1>4

(* Where only p moves and no table comes or goes, the others hold on.      *)
LEMMA OthersHold ==
    ASSUME Tidy, NEW p \in Runner, NEW r, DOMAIN run' = Runner, run'[p] = r,
           \A q \in Runner \ {p} : run'[q] = run[q] /\ (q \in crossed' <=> q \in crossed),
           Holds(r, p \in crossed', DOMAIN db), db' = db, record' = record, tree' = tree, astray' = astray
    PROVE  Tidy'
<1>1. ASSUME NEW q \in Runner PROVE Holds(run'[q], q \in crossed', DOMAIN db)
  <2>1. CASE q = p
    BY <2>1
  <2>2. CASE q # p
    <3>1. (q \in crossed') = (q \in crossed) /\ Holds(run[q], q \in crossed, DOMAIN db)
      BY <2>2 DEF Tidy
    <3>2. run'[q] = run[q]
      BY <2>2
    <3> QED
      BY <3>1, <3>2
  <2> QED
    BY <2>1, <2>2
<1> QED
  BY <1>1 DEF Tidy, KnowsTheTables

(* A run that ends and changes nothing.                                    *)
LEMMA EndTidy ==
    ASSUME Tidy, NEW p \in Runner, NEW phase, phase \notin {"read", "judged"}, End(p, phase),
           Undone(p) \/ crossed' = crossed,
           db' = db, record' = record, tree' = tree, astray' = astray
    PROVE  Tidy'
<1>1. \A q \in Runner \ {p} : q \in crossed' <=> q \in crossed
  BY DEF Undone
<1>2. Holds(run'[p], p \in crossed', DOMAIN db)
  BY EndHolds
<1> QED
  BY <1>1, <1>2, EndHolds, OthersHold

LEMMA InitTidy == Init => Tidy
<1> SUFFICES ASSUME Init PROVE Tidy
  OBVIOUS
<1>1. AreTables(db)
  BY StoresAssumption DEF Init, AreTables
<1>2. DOMAIN record = {} /\ IsRecord(record) /\ KnowsTheTables
  BY FS_EmptySet DEF Init, IsRecord, KnowsTheTables
<1>3. DOMAIN run = Runner /\ \A p \in Runner : run[p] = Idle
  BY DEF Init
<1> QED
  BY <1>1, <1>2, <1>3, IdleHolds DEF Init, Tidy

LEMMA ReadTidy ==
    ASSUME Tidy, NEW p \in Runner, Read(p)
    PROVE  Tidy'
<1>1. db' = db /\ record' = record /\ tree' = tree /\ crossed' = crossed /\ astray' = astray
  BY DEF Read, history
<1>2. PICK adopt \in IF p = Operator THEN BOOLEAN ELSE {FALSE} :
         \/ End(p, "refused")
         \/ run' = [run EXCEPT ![p] = [Idle EXCEPT !.phase = "read", !.tree = tree,
                                                   !.steps = PlanOf(p, Trees[tree], adopt)]]
  BY DEF Read
<1>3. CASE End(p, "refused")
  BY <1>1, <1>3, EndTidy
<1>4. CASE run' = [run EXCEPT ![p] = [Idle EXCEPT !.phase = "read", !.tree = tree,
                                                  !.steps = PlanOf(p, Trees[tree], adopt)]]
  <2> DEFINE steps == PlanOf(p, Trees[tree], adopt)
             r == [Idle EXCEPT !.phase = "read", !.tree = tree, !.steps = steps]
  <2>1. tree \in DOMAIN Trees /\ IsPlan(steps, DOMAIN Trees[tree].declared, DOMAIN db)
    BY PlanOfIsPlan DEF Tidy
  <2> HIDE DEF steps
  <2>2. DOMAIN r = DOMAIN Idle /\ r.phase = "read" /\ r.tree = tree /\ r.steps = steps
    BY DEF Idle
  <2>3. run' = [run EXCEPT ![p] = r]
    BY <1>4 DEF steps
  <2> HIDE DEF r
  <2>4. Holds(r, FALSE, DOMAIN db)
    BY <2>1, <2>2 DEF Holds, Ground
  <2>5. Holds(r, p \in crossed', DOMAIN db)
    BY <2>4, HoldsOn
  <2>6. DOMAIN run' = Runner /\ run'[p] = r /\ \A q \in Runner \ {p} : run'[q] = run[q]
    BY <2>3 DEF Tidy
  <2> QED
    BY <1>1, <2>5, <2>6, OthersHold
<1> QED
  BY <1>2, <1>3, <1>4

LEMMA JudgeTidy ==
    ASSUME Tidy, NEW p \in Runner, Judge(p)
    PROVE  Tidy'
<1> DEFINE steps == run[p].steps
           classes == Classes(db, steps)
<1>1. db' = db /\ record' = record /\ tree' = tree /\ astray' = astray
  BY DEF Judge
<1>2. \/ End(p, "failed") /\ Undone(p)
      \/ /\ crossed' = crossed
         /\ \E allow :
               run' = [run EXCEPT ![p].phase = "judged", ![p].classes = classes, ![p].allow = allow]
  BY DEF Judge
<1>3. CASE End(p, "failed") /\ Undone(p)
  BY <1>1, <1>3, EndTidy
<1>4. ASSUME crossed' = crossed, NEW allow,
             run' = [run EXCEPT ![p].phase = "judged", ![p].classes = classes, ![p].allow = allow]
      PROVE  Tidy'
  <2>1. Holds(run[p], p \in crossed, DOMAIN db) /\ run[p].phase = "read"
    BY DEF Tidy, Judge
  <2>2. \A i \in DOMAIN steps : classes[i] = "additive" => steps[i].do \in Adding
    <3>1. \A i \in DOMAIN steps : classes[i] = Class(steps[i], InTheWay(db, steps, i))
      BY DEF Classes
    <3> HIDE DEF steps, classes
    <3> QED
      BY <3>1, AdditiveAdds
  <2> HIDE DEF classes
  <2>3. /\ DOMAIN run' = Runner /\ DOMAIN run'[p] = DOMAIN run[p]
        /\ run'[p].phase = "judged" /\ run'[p].classes = classes
        /\ run'[p].tree = run[p].tree /\ run'[p].steps = run[p].steps
        /\ \A q \in Runner \ {p} : run'[q] = run[q]
    BY <1>4, <2>1 DEF Tidy, Holds, Idle
  <2>4. Holds(run'[p], p \in crossed, DOMAIN db)
    BY <2>1, <2>2, <2>3 DEF Holds
  <2>5. Holds(run'[p], p \in crossed', DOMAIN db)
    BY <1>4, <2>4
  <2> QED
    BY <1>1, <1>4, <2>3, <2>5, OthersHold
<1> QED
  BY <1>2, <1>3, <1>4

(* What is recorded stays a record once a plan has applied.                *)
LEMMA WrittenIsRecord ==
    ASSUME IsRecord(record), NEW t \in DOMAIN Trees, NEW steps, NEW there,
           IsPlan(steps, DOMAIN Trees[t].declared, there)
    PROVE  IsRecord(Over(Written(Trees[t], steps), record))
<1> DEFINE n       == Len(steps)
           touched == {steps[i].target : i \in 1 .. n}
           renamed == {j \in 1 .. n : steps[j].do = "renameCollection"}
           vacated == {steps[i].from : i \in renamed}
           written == Written(Trees[t], steps)
<1>1. n \in Nat /\ DOMAIN steps = 1 .. n
  BY PlanLength
<1>2. /\ DOMAIN written = touched \cup vacated
      /\ \A c \in DOMAIN written : written[c] = None \/ IsDeclaration(written[c])
  <2>1. written = [c \in touched \cup vacated |->
                      IF c \in DOMAIN Trees[t].declared THEN Trees[t].declared[c] ELSE None]
    BY <1>1 DEF Written
  <2> HIDE DEF touched, vacated, written
  <2> QED
    BY <2>1, TreesAssumption
<1> HIDE DEF n, written
<1>3. IsFiniteSet(1 .. n)
  BY <1>1, FS_Interval
<1>4. IsFiniteSet(touched)
  <2> DEFINE S == 1 .. n
             g == [i \in S |-> steps[i].target]
  <2>1. g = [i \in S |-> g[i]] /\ touched = {g[i] : i \in S}
    OBVIOUS
  <2> HIDE DEF g, touched
  <2> QED
    BY <1>3, <2>1, FiniteImage
<1>5. IsFiniteSet(vacated)
  <2> DEFINE g == [i \in renamed |-> steps[i].from]
  <2>1. g = [i \in renamed |-> g[i]] /\ vacated = {g[i] : i \in renamed}
    OBVIOUS
  <2>2. IsFiniteSet(renamed)
    BY <1>3, FS_Subset
  <2> HIDE DEF g, vacated, renamed
  <2> QED
    BY <2>1, <2>2, FiniteImage
<1> HIDE DEF touched, vacated
<1>6. IsFiniteSet((touched \cup vacated) \cup DOMAIN record)
  BY <1>4, <1>5, FS_Union DEF IsRecord
<1>7. /\ DOMAIN Over(written, record) = DOMAIN written \cup DOMAIN record
      /\ \A c \in DOMAIN Over(written, record) :
            Over(written, record)[c] = IF c \in DOMAIN written THEN written[c] ELSE record[c]
  BY DEF Over
<1>8. IsRecord(Over(written, record))
  BY <1>2, <1>6, <1>7 DEF IsRecord
<1> QED
  BY <1>8 DEF written

(* What it records of a collection says whether its table is there; of one *)
(* it does not record, it leaves what the record says and the table.       *)
LEMMA WrittenKnows ==
    ASSUME KnowsTheTables, NEW t \in DOMAIN Trees, NEW steps, NEW there,
           IsPlan(steps, DOMAIN Trees[t].declared, there),
           NEW e, Leaves(steps, Len(steps), DOMAIN Trees[t].declared, db, e),
           NEW c \in DOMAIN Over(Written(Trees[t], steps), record), c \notin astray,
           there = DOMAIN db \/ c \notin DOMAIN Written(Trees[t], steps)
    PROVE  Over(Written(Trees[t], steps), record)[c] = None <=> c \notin DOMAIN e
<1> DEFINE n        == Len(steps)
           declared == Trees[t].declared
           touched  == {steps[i].target : i \in 1 .. n}
           vacated  == {steps[i].from : i \in {j \in 1 .. n : steps[j].do = "renameCollection"}}
           written  == Written(Trees[t], steps)
<1>1. DOMAIN steps = 1 .. n /\ \A i \in 1 .. n : IsStep(steps[i], DOMAIN declared, there)
  BY PlanLength
<1>2. /\ DOMAIN written = touched \cup vacated
      /\ \A x \in DOMAIN written : written[x] = IF x \in DOMAIN declared THEN declared[x] ELSE None
  <2>1. written = [x \in touched \cup vacated |->
                      IF x \in DOMAIN Trees[t].declared THEN Trees[t].declared[x] ELSE None]
    BY <1>1 DEF Written
  <2> HIDE DEF touched, vacated, written
  <2> QED
    BY <2>1
<1>3. \A x \in DOMAIN declared : declared[x] # None
  BY TreesAssumption
<1>4. DOMAIN written \cup DOMAIN record = DOMAIN Over(written, record)
      /\ Over(written, record)[c] = IF c \in DOMAIN written THEN written[c] ELSE record[c]
  BY DEF Over
<1> HIDE DEF n, declared, written
<1>5. ASSUME c \in touched \cup vacated PROVE c \in DOMAIN declared <=> c \in DOMAIN e
  <2> USE <1>5
  <2>0. there = DOMAIN db
    BY <1>2 DEF written
  <2>1. ASSUME NEW i \in 1 .. n, steps[i].target = c PROVE c \in DOMAIN declared <=> c \in DOMAIN e
    BY <1>1, <2>0, <2>1 DEF IsStep, Leaves, Takes, n, declared
  <2>2. ASSUME NEW i \in 1 .. n, steps[i].do = "renameCollection", steps[i].from = c
        PROVE  c \in DOMAIN declared <=> c \in DOMAIN e
    <3>1. c \notin DOMAIN declared
      BY <1>1, <2>2 DEF IsStep
    <3>2. Takes(steps[i], c)
      BY <2>2 DEF Takes
    <3> QED
      BY <3>1, <3>2 DEF Leaves, n
  <2> QED
    BY <1>5, <2>1, <2>2
<1>6. ASSUME c \notin touched \cup vacated PROVE c \in DOMAIN db <=> c \in DOMAIN e
  <2>1. \A i \in 1 .. n : steps[i].target # c /\ ~Takes(steps[i], c)
    BY <1>6 DEF Takes
  <2> QED
    BY <2>1 DEF Leaves, n
<1> QED
  BY <1>2, <1>3, <1>4, <1>5, <1>6 DEF KnowsTheTables, written

(* What an applied plan leaves, and whoever judged it.                     *)
LEMMA ApplyTidy ==
    ASSUME Tidy, NEW p \in Runner, Apply(p)
    PROVE  /\ Tidy'
           /\ db' = db \/ ((\A i \in DOMAIN run[p].steps : run[p].steps[i].do \in Adding) => Keeps(db, db'))
<1> DEFINE steps    == run[p].steps
           t        == run[p].tree
           declared == Trees[t].declared
           after    == Applied(db, steps, declared)
           there    == Ground(t, p \in crossed, DOMAIN db)
<1>1. run[p].phase = "judged" /\ tree' = tree
  BY DEF Apply
<1>2. t \in DOMAIN Trees /\ IsPlan(steps, DOMAIN declared, there)
  BY <1>1 DEF Tidy, Holds
<1>3. \/ /\ End(p, "done") \/ End(p, "failed")
         /\ Undone(p) /\ db' = db /\ record' = record /\ astray' = astray
      \/ /\ End(p, "done") /\ db' \in after /\ record' = Over(Written(Trees[t], steps), record)
         /\ crossed' = Crossed(p) /\ astray' = astray \cup Strays(p)
  BY DEF Apply
<1>4. CASE /\ End(p, "done") \/ End(p, "failed")
           /\ Undone(p) /\ db' = db /\ record' = record /\ astray' = astray
  BY <1>1, <1>4, EndTidy
<1>5. CASE /\ End(p, "done") /\ db' \in after /\ record' = Over(Written(Trees[t], steps), record)
           /\ crossed' = Crossed(p) /\ astray' = astray \cup Strays(p)
  <2> HIDE DEF declared, after, there
  <2>1. \A c \in DOMAIN declared : IsDeclaration(declared[c])
    BY <1>2, TreesAssumption DEF declared
  <2>2. AreTables(db)
    BY DEF Tidy
  <2> HIDE DEF steps, t
  <2>3. /\ AreTables(db') /\ Leaves(steps, Len(steps), DOMAIN declared, db, db')
        /\ ((\A i \in DOMAIN steps : steps[i].do \in Adding) => Keeps(db, db'))
    BY <1>2, <1>5, <2>1, <2>2, PlanLeaves DEF after
  <2>4. IsRecord(record')
    BY <1>2, <1>5, WrittenIsRecord DEF Tidy, declared
  <2>5. KnowsTheTables'
    <3> DEFINE now == Over(Written(Trees[t], steps), record)
    <3>1. ASSUME NEW c \in DOMAIN now, c \notin astray' PROVE now[c] = None <=> c \notin DOMAIN db'
      <4>1. c \notin astray
        BY <1>5, <3>1
      <4>2. there = DOMAIN db \/ c \notin DOMAIN Written(Trees[t], steps)
        <5>1. p \in crossed => DOMAIN Written(Trees[t], steps) \subseteq Strays(p)
          BY DEF Strays, t, steps
        <5>2. p \notin crossed => there = DOMAIN db
          BY DEF Ground, there
        <5> QED
          BY <1>5, <3>1, <5>1, <5>2
      <4>3. KnowsTheTables
        BY DEF Tidy
      <4>4. Leaves(steps, Len(steps), DOMAIN Trees[t].declared, db, db')
            /\ IsPlan(steps, DOMAIN Trees[t].declared, there)
        BY <1>2, <2>3 DEF declared
      <4> QED
        BY <1>2, <3>1, <4>1, <4>2, <4>3, <4>4, WrittenKnows
    <3>2. record' = now
      BY <1>5
    <3> HIDE DEF now
    <3> QED
      BY <3>1, <3>2 DEF KnowsTheTables
  <2>6. DOMAIN run' = Runner /\ \A q \in Runner \ {p} : run'[q] = run[q]
    BY <1>5, EndHolds
  <2>7. ASSUME NEW q \in Runner PROVE Holds(run'[q], q \in crossed', DOMAIN db')
    <3>1. CASE q = p
      BY <1>5, <3>1, EndHolds
    <3>2. CASE q # p
      <4>1. run'[q] = run[q] /\ Holds(run[q], q \in crossed, DOMAIN db)
        BY <2>6, <3>2 DEF Tidy
      <4>2. ASSUME q \notin crossed'
            PROVE  /\ q \notin crossed
                   /\ run[q].phase \in {"read", "judged"} =>
                         DOMAIN Trees[run[q].tree].declared \cap DOMAIN db \subseteq DOMAIN db'
        <5>1. q \notin crossed /\ (UnderWay(q) => run[q].tree = t)
          BY <1>5, <3>2, <4>2 DEF Crossed, t
        <5>2. DOMAIN declared \cap DOMAIN db \subseteq DOMAIN db'
          BY <2>3 DEF Leaves
        <5> QED
          BY <5>1, <5>2 DEF UnderWay, declared
      <4>3. Holds(run[q], q \in crossed', DOMAIN db')
        BY <4>1, <4>2, HoldsOn
      <4> QED
        BY <4>1, <4>3
    <3> QED
      BY <3>1, <3>2
  <2>8. Tidy'
    BY <1>1, <2>3, <2>4, <2>5, <2>6, <2>7 DEF Tidy, AreTables
  <2> QED
    BY <2>3, <2>8 DEF steps
<1> QED
  BY <1>3, <1>4, <1>5

LEMMA RefuseTidy ==
    ASSUME Tidy, NEW p \in Runner, Refuse(p)
    PROVE  Tidy'
BY EndTidy DEF Refuse

LEMMA RestartTidy ==
    ASSUME Tidy, NEW p \in Runner, Restart(p)
    PROVE  Tidy'
<1>1. run' = [run EXCEPT ![p] = Idle] /\ db' = db /\ record' = record /\ tree' = tree
      /\ crossed' = crossed /\ astray' = astray
  BY DEF Restart, history
<1>2. DOMAIN run' = Runner /\ run'[p] = Idle /\ \A q \in Runner \ {p} : run'[q] = run[q]
  BY <1>1 DEF Tidy
<1> QED
  BY <1>1, <1>2, IdleHolds, OthersHold

LEMMA WriteTidy ==
    ASSUME Tidy, NEW c \in DOMAIN db, Write(c)
    PROVE  Tidy'
<1>1. record' = record /\ tree' = tree /\ run' = run /\ crossed' = crossed /\ astray' = astray
  BY DEF Write
<1>2. IsTable(db[c])
  BY DEF Tidy, AreTables
<1>3. PICK row \in Rows(db[c]) :
         db' = [db EXCEPT ![c].rows = {r \in db[c].rows : r[db[c].key] # row[db[c].key]} \cup {row}]
  BY DEF Write
<1> DEFINE kept == {r \in db[c].rows : r[db[c].key] # row[db[c].key]} \cup {row}
<1>4. DOMAIN row = DOMAIN db[c].fields
  BY DEF Rows
<1>5. \A r \in kept : DOMAIN r \subseteq DOMAIN db[c].fields
  BY <1>2, <1>4 DEF IsTable
<1>6. db' = [db EXCEPT ![c].rows = kept]
  BY <1>3
<1> HIDE DEF kept
<1>7. /\ Changes(db, db', c) /\ DOMAIN db'[c] = DOMAIN db[c] /\ db'[c].fields = db[c].fields
      /\ db'[c].constraints = db[c].constraints /\ db'[c].rows = kept
  BY <1>2, <1>6 DEF Changes, IsTable
<1>8. IsTable(db'[c])
  BY <1>2, <1>5, <1>7 DEF IsTable
<1>9. AreTables(db')
  BY <1>7, <1>8, ChangeKeepsTables DEF Tidy
<1>10. DOMAIN db' = DOMAIN db
  BY <1>6
<1> QED
  BY <1>1, <1>7, <1>9, <1>10 DEF Tidy, AreTables, KnowsTheTables

LEMMA DeployTidy ==
    ASSUME Tidy, Deploy
    PROVE  Tidy'
<1>1. /\ run' = [p \in Runner |-> IF UnderWay(p) THEN run[p] ELSE Idle]
      /\ db' = db /\ record' = record /\ tree' \in DOMAIN Trees /\ crossed' = crossed /\ astray' = astray
  BY DEF Deploy, history
<1>2. DOMAIN run' = Runner /\ \A q \in Runner : Holds(run'[q], q \in crossed, DOMAIN db)
  BY <1>1, IdleHolds DEF Tidy
<1> QED
  BY <1>1, <1>2 DEF Tidy, KnowsTheTables

LEMMA NextTidy == Tidy /\ [Next]_vars => Tidy'
<1> SUFFICES ASSUME Tidy, [Next]_vars PROVE Tidy'
  OBVIOUS
<1>1. ASSUME NEW p \in Runner, Start(p) PROVE Tidy'
  BY <1>1, ReadTidy, JudgeTidy, ApplyTidy, RefuseTidy, RestartTidy DEF Start
<1>2. ASSUME NEW c \in DOMAIN db, Write(c) PROVE Tidy'
  BY <1>2, WriteTidy
<1>3. CASE Deploy
  BY <1>3, DeployTidy
<1>4. CASE UNCHANGED vars
  BY <1>4 DEF vars, history, Tidy, KnowsTheTables
<1> QED
  BY <1>1, <1>2, <1>3, <1>4 DEF Next

(* The database stays one, the record a record of declarations, and what a *)
(* run holds a plan for the tree it read, whoever starts, migrates, writes *)
(* and deploys in between (ensure.ts, migrate.ts, apply.ts).               *)
THEOREM StaysTidy == Spec => []Tidy
<1> QED
  BY InitTidy, NextTidy, PTL DEF Spec

(* A collection is recorded exactly where its table is: one made or        *)
(* renamed to is there, one dropped or renamed away is gone and recorded   *)
(* so (written, apply.ts:45), whoever ran in between and of whatever tree, *)
(* but for those a run wrote to that a plan of another tree had crossed.   *)
THEOREM RecordKnowsTables == Spec => []KnowsTheTables
<1>1. Tidy => KnowsTheTables
  BY DEF Tidy
<1> QED
  BY <1>1, StaysTidy, PTL

(* A process that applies its plan as it starts takes no table away, and   *)
(* of no row a value: every key has what it had before, whatever others    *)
(* wrote or applied since it read and counted (ensure.ts, apply.ts).       *)
StartingKeepsAll == [][\A p \in Process : Applies(p) => KeepsAll]_vars

LEMMA StartKeeps ==
    ASSUME Tidy, [Next]_vars, NEW p \in Process, Applies(p)
    PROVE  KeepsAll
<1>1. run[p].phase = "judged" /\ run'[p].phase = "done"
  BY DEF Applies
<1>2. p \in Runner /\ p # Operator
  BY ApartAssumption DEF Runner
<1>3. ASSUME NEW q \in Runner, NEW phase, phase \notin {"read", "judged"}, End(q, phase)
      PROVE  q = p /\ phase = "done"
  <2>1. run'[q].phase = phase /\ \A x \in Runner \ {q} : run'[x] = run[x]
    BY <1>3, EndHolds
  <2> QED
    BY <1>1, <1>2, <2>1
<1>4. Apply(p)
  <2>1. ASSUME NEW q \in Runner, Start(q) PROVE Apply(p)
    <3>1. run'[p] # run[p]
      BY <1>1
    <3>2. CASE Read(q)
      <4>1. ~End(q, "refused")
        BY <1>3
      <4>2. run[q].phase = "idle" /\ \E r : run' = [run EXCEPT ![q] = r]
        BY <3>2, <4>1 DEF Read
      <4> QED
        BY <1>1, <1>2, <4>2 DEF Tidy
    <3>3. CASE Judge(q)
      <4>1. ~End(q, "failed")
        BY <1>3
      <4>2. run[q].phase = "read" /\ \A x \in Runner \ {q} : run'[x] = run[x]
        <5>1. \E allow, classes :
                 run' = [run EXCEPT ![q].phase = "judged", ![q].classes = classes, ![q].allow = allow]
          BY <3>3, <4>1 DEF Judge
        <5> QED
          BY <3>3, <5>1 DEF Judge, Tidy
      <4> QED
        BY <1>1, <1>2, <3>1, <4>2
    <3>4. CASE Apply(q)
      <4>1. End(q, "done") \/ End(q, "failed")
        BY <3>4 DEF Apply
      <4> QED
        BY <1>3, <3>4, <4>1
    <3>5. CASE Refuse(q)
      BY <1>3, <3>5 DEF Refuse
    <3>6. CASE Restart(q)
      <4>1. run' = [run EXCEPT ![q] = Idle]
        BY <3>6 DEF Restart
      <4> QED
        BY <1>1, <1>2, <3>1, <4>1, IdleHolds DEF Tidy
    <3> QED
      BY <2>1, <3>2, <3>3, <3>4, <3>5, <3>6 DEF Start
  <2>2. ASSUME NEW c \in DOMAIN db, Write(c) PROVE FALSE
    BY <1>1, <2>2 DEF Write
  <2>3. ASSUME Deploy PROVE FALSE
    BY <1>1, <1>2, <2>3, IdleHolds DEF Deploy
  <2>4. ASSUME UNCHANGED vars PROVE FALSE
    BY <1>1, <2>4 DEF vars
  <2> QED
    BY <2>1, <2>2, <2>3, <2>4 DEF Next
<1>5. \A i \in DOMAIN run[p].steps : run[p].steps[i].do \in Adding
  <2>1. \A i \in DOMAIN run[p].steps : run[p].classes[i] = "additive"
    BY <1>2, <1>4 DEF Apply, Applicable, MayApply
  <2>2. Holds(run[p], p \in crossed, DOMAIN db)
    BY <1>2 DEF Tidy
  <2> QED
    BY <1>1, <2>1, <2>2 DEF Holds
<1>6. db' = db \/ Keeps(db, db')
  BY <1>2, <1>4, <1>5, ApplyTidy
<1>7. Keeps(db, db)
  BY DEF Keeps
<1>8. Keeps(db, db')
  BY <1>6, <1>7
<1> QED
  BY <1>8, ApartAssumption DEF Keeps, KeepsAll

(* A starting process keeps everything there is, for any trees and stores  *)
(* and any number of processes and of writes.                              *)
THEOREM StartsKeepAll == Spec => StartingKeepsAll
<1>1. Tidy /\ [Next]_vars => [\A p \in Process : Applies(p) => KeepsAll]_vars
  BY StartKeeps
<1> QED
  BY <1>1, InitTidy, NextTidy, PTL DEF Spec, StartingKeepsAll
=============================================================================
