--------------------------------- MODULE Turns ---------------------------------
(***************************************************************************)
(* The turns the writers of one process take on one SQLite file            *)
(* (plugin-storage-sqlite/src: turns.ts), by those that take them          *)
(* (handles.ts): a transaction holds its turn on a handle of its own until *)
(* it ends or the tree's teardown ends it, a statement on the shared       *)
(* handle and a migration for as long as they run.                         *)
(*                                                                         *)
(* Turns are numbered as they are asked for.  A turn is one promise, its   *)
(* own, chained to the turn before it; a writer that waited too long gives *)
(* up, and still hands its turn on once it comes.                          *)
(***************************************************************************)
EXTENDS Naturals

CONSTANT MaxTurns       \* bound

ASSUME TurnsAssumption == MaxTurns \in Nat

Turn == 1 .. MaxTurns
NoTurn == 0

VARIABLES
    asked,      \* how many turns were asked for
    before,     \* the turn each waits for, NoTurn where the file had none
    last,       \* the last turn the file knows of, NoTurn where it knows none
    turn,       \* of each: "unasked", "waiting", "gone" (gave up, not handed on yet),
                \* "working", "held" (a transaction between begin and end), "ending", "over"
    settled,    \* the turns whose chained promise has resolved: those before it over too
    torn        \* whether the tree was torn down

turnsVars == <<asked, before, last, turn, settled, torn>>

TurnStages == {"unasked", "waiting", "gone", "working", "held", "ending", "over"}

TurnsTypeOK ==
    /\ asked \in 0 .. MaxTurns
    /\ before \in [Turn -> 0 .. MaxTurns]
    /\ last \in 0 .. MaxTurns
    /\ turn \in [Turn -> TurnStages]
    /\ settled \subseteq Turn
    /\ torn \in BOOLEAN

TurnsInit ==
    /\ asked = 0 /\ last = NoTurn /\ settled = {} /\ torn = FALSE
    /\ before = [n \in Turn |-> NoTurn]
    /\ turn = [n \in Turn |-> "unasked"]

(* The turn comes: the one it is chained to has resolved.                  *)
Reached(n) == before[n] = NoTurn \/ before[n] \in settled

(* A mutant: the file forgets whoever asked since.                         *)
ForgetsAny(n) == TRUE

(* Handing a turn on releases its own promise, and the file forgets it     *)
(* where no other was asked for since.                                     *)
Forgets(n) == last = n

HandOn(n) ==
    /\ turn' = [turn EXCEPT ![n] = "over"]
    /\ last' = IF Forgets(n) THEN NoTurn ELSE last
    /\ UNCHANGED <<asked, before, settled>>

-----------------------------------------------------------------------------
(* turnOn: chained to the last turn the file knows of.                     *)
Ask ==
    /\ asked < MaxTurns
    /\ asked' = asked + 1
    /\ before' = [before EXCEPT ![asked + 1] = last]
    /\ last' = asked + 1
    /\ turn' = [turn EXCEPT ![asked + 1] = "waiting"]
    /\ UNCHANGED <<settled, torn>>

(* A chained promise resolves.                                             *)
Resolve(n) ==
    /\ turn[n] = "over" /\ n \notin settled /\ Reached(n)
    /\ settled' = settled \cup {n}
    /\ UNCHANGED <<asked, before, last, turn, torn>>

(* A writer whose turn it is goes on to the file.                          *)
Enter(n) ==
    /\ turn[n] = "waiting" /\ Reached(n)
    /\ turn' = [turn EXCEPT ![n] = "working"]
    /\ UNCHANGED <<asked, before, last, settled, torn>>

(* `busyTimeoutMs` is over and its turn has not come.                      *)
GiveUp(n) ==
    /\ turn[n] = "waiting" /\ ~Reached(n)
    /\ turn' = [turn EXCEPT ![n] = "gone"]
    /\ UNCHANGED <<asked, before, last, settled, torn>>

(* A mutant: a turn given up is never handed on.                           *)
PassesOnNever(n)  == FALSE

(* A turn given up is handed on when it comes.                             *)
MayPassOn(n) == Reached(n)

PassOn(n) ==
    /\ turn[n] = "gone" /\ MayPassOn(n)
    /\ HandOn(n)
    /\ UNCHANGED torn

(* A statement or a migration is through, or a `begin immediate` failed.   *)
Release(n) ==
    /\ turn[n] = "working"
    /\ HandOn(n)
    /\ UNCHANGED torn

(* A transaction has begun, and keeps its turn.                            *)
Begin(n) ==
    /\ turn[n] = "working"
    /\ turn' = [turn EXCEPT ![n] = "held"]
    /\ UNCHANGED <<asked, before, last, settled, torn>>

(* It is committed or rolled back; a second ending finds it gone.          *)
End(n) ==
    /\ turn[n] = "held"
    /\ turn' = [turn EXCEPT ![n] = "ending"]
    /\ UNCHANGED <<asked, before, last, settled, torn>>

(* Its handle is closed, whether the word went through or not.             *)
Ended(n) ==
    /\ turn[n] = "ending"
    /\ HandOn(n)
    /\ UNCHANGED torn

(* The tree is torn down: every transaction still held is rolled back.     *)
Close ==
    /\ ~torn /\ torn' = TRUE
    /\ turn' = [n \in Turn |-> IF turn[n] = "held" THEN "ending" ELSE turn[n]]
    /\ UNCHANGED <<asked, before, last, settled>>

TurnMoves(n) == Resolve(n) \/ Enter(n) \/ PassOn(n) \/ Release(n) \/ Ended(n)
TurnsNext == Ask \/ Close \/ \E n \in Turn : TurnMoves(n) \/ GiveUp(n) \/ Begin(n) \/ End(n)

(* Promises resolve, statements and handles come to an end, and whoever    *)
(* opened a transaction ends it.                                           *)
TurnsSpec ==
    /\ TurnsInit /\ [][TurnsNext]_turnsVars
    /\ \A n \in Turn : WF_turnsVars(TurnMoves(n)) /\ WF_turnsVars(End(n))

-----------------------------------------------------------------------------
AtTheFile(n) == turn[n] \in {"working", "held", "ending"}

(* One writer of the process is at the file (turns.ts:2-7).                *)
OneAtTheFile == \A m, n \in Turn : AtTheFile(m) /\ AtTheFile(n) => m = n

(* Turns come in the order they were asked for: who is at the file waits   *)
(* for nobody before it.                                                   *)
InTurn == \A m, n \in Turn : m < n /\ AtTheFile(n) => turn[m] = "over"

(* Nobody waits for one that gave up: every turn asked for is over in the  *)
(* end (turns.ts:34-35).                                                   *)
NoneStranded == \A n \in Turn : turn[n] = "waiting" ~> turn[n] = "over"
=============================================================================
