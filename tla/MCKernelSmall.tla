---------------------------- MODULE MCKernelSmall ----------------------------
EXTENDS MCKernel

(* Every judged graph of the first four nodes with one switch and at most  *)
(* one caught node, in which every node is declared after what it waits    *)
(* for; the last two were answered in an earlier run.                      *)

After(n) == (n + 1) .. 4

Reads == {r \in [1 .. 4 -> SUBSET (1 .. 3)] : \A n \in 1 .. 4 : r[n] \subseteq 1 .. (n - 1)}

OneSwitch(s) ==
    {[Shape({s}, reads, s :> rules, catch, {4}) EXCEPT !.seeded = {5, 6}] :
        reads \in Reads, rules \in (SUBSET After(s)) \ {{}},
        catch \in {NoCatch} \cup {Catching(s, x :> to) : x \in 1 .. (s - 1), to \in After(s)}}

Small == {g \in UNION {OneSwitch(s) : s \in 1 .. 4} : Judged(g)}

SmallAndShapes == Small \cup Shapes \cup Starving
=============================================================================
