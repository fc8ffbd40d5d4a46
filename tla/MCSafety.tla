------------------------------- MODULE MCSafety --------------------------------
(***************************************************************************)
(* Two parts that share nothing and of which nothing has to happen in the  *)
(* end, by kind: the migrations of a connection, over the sample trees,    *)
(* and the loop that keeps a schedule, over the sample calendar.           *)
(***************************************************************************)
EXTENDS MCMigration, Calendar

VARIABLE kind       \* never written

bothVars == <<kind, vars, tickVars>>

BothInit ==
    \/ kind = "migration" /\ Init /\ LoopInit
       /\ timezone = (CHOOSE zone \in Zones : TRUE)
       /\ triggers = At("daily", Absent) /\ remembered = NoTicks
    \/ kind = "loop" /\ LoopInit /\ Init /\ db = <<>> /\ tree = "bare"

BothNext ==
    \/ kind = "migration" /\ Next /\ UNCHANGED <<kind, tickVars>>
    \/ kind = "loop" /\ LoopNext /\ UNCHANGED <<kind, vars>>

BothSpec == BothInit /\ [][BothNext]_bothVars
=============================================================================
