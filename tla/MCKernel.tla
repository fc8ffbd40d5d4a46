------------------------------- MODULE MCKernel -------------------------------
(* Graphs for the model checker: how one is written, and shapes in which   *)
(* two switches meet.  MCKernelSmall has every judged graph of a size.     *)
EXTENDS Kernel, TLC

Nothing == [n \in Node |-> {}]
NoCatch == [n \in Node |-> [x \in Node |-> None]]
Catching(s, handed) == s :> (handed @@ [x \in Node |-> None])

Shape(switches, reads, rules, catch, output) ==
    [switches |-> switches, reads |-> reads @@ Nothing, rules |-> rules @@ Nothing,
     catch |-> catch @@ NoCatch, unsupplied |-> {}, seeded |-> {}, output |-> output]

-----------------------------------------------------------------------------
(* Shapes of six nodes in which two switches meet.                         *)

(* 2 chooses 4 or 5 once 1 answered; 4 is a switch that holds 3's fault.   *)
Gated == Shape({2, 4}, 2 :> {1} @@ 4 :> {3}, 2 :> {4, 5} @@ 4 :> {6},
               Catching(4, 3 :> 6), {5, 6})

(* 3 chooses 4 or 5 whatever came of 1 and 2, and each fault has its own   *)
(* way out.                                                                *)
TwoFaults == Shape({3}, 3 :> {1, 2} @@ 4 :> {1, 2}, 3 :> {4},
                   Catching(3, 1 :> 5 @@ 2 :> 6), {4, 5, 6})

(* 2 chooses 3 or 4; 3 is a switch again, choosing 5 or 6.                 *)
Nested == Shape({2, 3}, 2 :> {1} @@ 3 :> {1} @@ 6 :> {1}, 2 :> {3, 4} @@ 3 :> {5, 6}, NoCatch,
                {4, 5, 6})

(* Two switches side by side, each holding the fault of one node.          *)
Beside == Shape({3, 4}, 3 :> {1} @@ 4 :> {2}, 3 :> {5} @@ 4 :> {6},
                Catching(3, 1 :> 5) @@ Catching(4, 2 :> 6), {})

(* 2 chooses 3 or 4 once 1 answered; 5 joins the branch of 3 with 6, which *)
(* runs whatever 2 chose.                                                  *)
Joined == Shape({2}, 2 :> {1} @@ 5 :> {3, 6}, 2 :> {3, 4}, NoCatch, {4, 5})

(* 1 was answered in an earlier run, and 5 reads a root this run was not   *)
(* given.                                                                  *)
Replayed == [Gated EXCEPT !.seeded = {1}]
Unfed    == [Nested EXCEPT !.unsupplied = {5, 6}]

Shapes == {Gated, TwoFaults, Nested, Beside, Joined, Replayed, Unfed}

-----------------------------------------------------------------------------
(* Two graphs the judge lets through, for the documented claims that fail. *)

(* As Gated, with 7 reading what the gate reads, declared after it and read*)
(* on both branches.                                                       *)
Racing == {Shape({2, 4}, 2 :> {1} @@ 4 :> {3} @@ 5 :> {7} @@ 6 :> {7} @@ 7 :> {1}, 2 :> {4, 5} @@ 4 :> {6},
                 Catching(4, 3 :> 6), {5, 6})}

(* As TwoFaults, and where the first fault goes reads the second node.     *)
Starving == {Shape({3}, 3 :> {1, 2} @@ 4 :> {1, 2} @@ 5 :> {2}, 3 :> {4},
                   Catching(3, 1 :> 5 @@ 2 :> 6), {4, 5, 6})}
=============================================================================
