------------------------------ MODULE Attempts ------------------------------
(***************************************************************************)
(* One call that says `retry` or `timeoutMs`: the wrapper the compiler puts*)
(* round a handler, packages/compiler/src/attempts.ts.                     *)
(*                                                                         *)
(* The wrapper awaits the handler, a timer racing it, or the wait before   *)
(* the next try.  A timeout does not stop the handler: it flies on, and may*)
(* still attach a nested run or settle while a later try is under way.     *)
(***************************************************************************)
EXTENDS Naturals, Sequences

CONSTANTS
    Policies,   \* what a site may say; the checker holds backoffMs to the timer (G027)
    MaxTimes,   \* the most tries after the first any of them says
    TimerMax    \* TIMER_MAX_MS: the longest wait a Node timer keeps

Policy == [times : 0 .. MaxTimes, backoff : Nat, when : BOOLEAN, bounded : BOOLEAN]

Try == 1 .. (MaxTimes + 1)

VARIABLES
    policy,     \* what this call's site says; never written
    stage,      \* what the wrapper awaits: a "try", a "wait", or nothing: "over"
    tries,      \* how many tries have begun
    flight,     \* each try's handler: "none", "flying" or "settled"
    sub,        \* tries a nested run was attached to while they were open
    ending,     \* how the latest try ended; read while waiting
    hung,       \* the try whose nested run hangs on the node, 0 when none does
    attempts,   \* report.attempts: how each try that did not stand ended, and the wait after
    stands,     \* the try that stands and how it ended
    aborted     \* the run's signal has fired

vars == <<policy, stage, tries, flight, sub, ending, hung, attempts, stands, aborted>>

Endings == {"answer", "retried", "fault", "timeout", "refusal"}   \* "retried": `when` holds of it

(* What each variable holds.                                               *)
TypeOK ==
    /\ policy \in Policy
    /\ stage \in {"try", "wait", "over"}
    /\ tries \in Try
    /\ flight \in [Try -> {"none", "flying", "settled"}]
    /\ sub \in SUBSET Try
    /\ ending \in Endings \cup {"none"}
    /\ hung \in Try \cup {0}
    /\ attempts \in Seq([ending : Endings, waited : Nat])
    /\ stands \in [try : Try \cup {0}, ending : Endings \cup {"none"}]
    /\ aborted \in BOOLEAN

-----------------------------------------------------------------------------
Init ==
    /\ policy \in Policies
    /\ stage = "try"
    /\ tries = 1
    /\ flight = [t \in Try |-> IF t = 1 THEN "flying" ELSE "none"]
    /\ sub = {}
    /\ ending = "none"
    /\ hung = 0
    /\ attempts = <<>>
    /\ stands = [try |-> 0, ending |-> "none"]
    /\ aborted = FALSE

(* A timer set past TimerMax fires after 1 ms (Node's own).                *)
Timer(ms) == IF ms > TimerMax THEN 1 ELSE ms

WaitBefore(attempt) ==
    LET ms == policy.backoff * 2 ^ attempt
    IN  Timer(IF ms < TimerMax THEN ms ELSE TimerMax)

(* A refusal is the graph deciding, so it stands; an answer is tried again *)
(* only where `when` accepts it.                                           *)
Retried(e) == e \in {"fault", "timeout"} \/ (e = "retried" /\ policy.when)

(* mutant: a run that was cancelled is not noticed                         *)
GoesOnRegardless(e) == tries <= policy.times /\ Retried(e)

GoesOn(e) == tries <= policy.times /\ ~aborted /\ Retried(e)

(* The latest try stands: its nested run, if it attached one, hangs on the *)
(* node and its ending is the node's.                                      *)
Stand(e, fl) ==
    /\ stage' = "over"
    /\ stands' = [try |-> tries, ending |-> e]
    /\ hung' = IF tries \in sub THEN tries ELSE hung
    /\ flight' = fl
    /\ UNCHANGED <<tries, attempts, ending>>

TryAgain(e, fl) ==
    /\ stage' = "try"
    /\ attempts' = Append(attempts, [ending |-> e, waited |-> WaitBefore(tries - 1)])
    /\ tries' = tries + 1
    /\ flight' = [fl EXCEPT ![tries + 1] = "flying"]
    /\ UNCHANGED <<hung, stands, ending>>

(* mutant: the try is recorded before its wait                             *)
WaitRecorded(e, fl) ==
    /\ stage' = "wait"
    /\ ending' = e
    /\ flight' = fl
    /\ attempts' = Append(attempts, [ending |-> e, waited |-> 0])
    /\ UNCHANGED <<tries, hung, stands>>

Wait(e, fl) ==
    /\ stage' = "wait"
    /\ ending' = e
    /\ flight' = fl
    /\ UNCHANGED <<tries, attempts, hung, stands>>

(* The race of the latest try is decided; with no backoff nothing is waited*)
EndTry(e, fl) ==
    \/ ~GoesOn(e) /\ Stand(e, fl)
    \/ GoesOn(e) /\ WaitBefore(tries - 1) = 0 /\ TryAgain(e, fl)
    \/ GoesOn(e) /\ WaitBefore(tries - 1) > 0 /\ Wait(e, fl)

(* The handler of the try under way settles.                               *)
SettleTry(e) ==
    /\ stage = "try"
    /\ e \in Endings \ {"timeout"}
    /\ EndTry(e, [flight EXCEPT ![tries] = "settled"])
    /\ UNCHANGED <<policy, sub, aborted>>

(* Its timer strikes first: the handler is told and flies on.              *)
Timeout ==
    /\ stage = "try"
    /\ policy.bounded
    /\ EndTry("timeout", flight)
    /\ UNCHANGED <<policy, sub, aborted>>

(* A handler whose try is over settles: nobody is listening.               *)
SettleLate(t) ==
    /\ flight[t] = "flying"
    /\ t < tries \/ stage # "try"
    /\ flight' = [flight EXCEPT ![t] = "settled"]
    /\ UNCHANGED <<policy, stage, tries, sub, ending, hung, attempts, stands, aborted>>

Open(t) == t = tries /\ stage = "try"

(* A handler attaches the run it nested: kept while its try is open, else  *)
(* dropped.                                                                *)
Attach(t) ==
    /\ flight[t] = "flying"
    /\ sub' = IF Open(t) THEN sub \cup {t} ELSE sub
    /\ UNCHANGED <<policy, stage, tries, flight, ending, hung, attempts, stands, aborted>>

WaitOver ==
    /\ stage = "wait"
    /\ TryAgain(ending, flight)
    /\ UNCHANGED <<policy, sub, aborted>>

(* The run's signal fires.  It cuts a wait short, and what was tried       *)
(* stands; a try under way is only told.                                   *)
Abort ==
    /\ ~aborted
    /\ aborted' = TRUE
    /\ \/ stage = "wait" /\ Stand(ending, flight)
       \/ stage # "wait" /\ UNCHANGED <<stage, tries, flight, ending, hung, attempts, stands>>
    /\ UNCHANGED <<policy, sub>>

Over == stage = "over" /\ UNCHANGED vars

Wrapper == Timeout \/ WaitOver
Next == Wrapper \/ Abort \/ Over \/ (\E e \in Endings : SettleTry(e))
        \/ \E t \in Try : SettleLate(t) \/ Attach(t)

(* The wrapper's own timers fire; nothing obliges a handler to settle.     *)
Spec == Init /\ [][Next]_vars /\ WF_vars(Wrapper)

-----------------------------------------------------------------------------
(* No more tries than the document says, and the report tells them all: one*)
(* attempt for each try that did not stand, none of which was a refusal or *)
(* an answer nothing asked to try again -- also where the run's cancelling *)
(* cut a wait short (attempts.ts:91-93) -- with the wait after it, none    *)
(* shorter than the one before, whatever the doubling reaches (109-111).   *)
TriesAreTold ==
    /\ tries <= policy.times + 1
    /\ Len(attempts) = tries - 1
    /\ \A k \in DOMAIN attempts : Retried(attempts[k].ending) /\ attempts[k].ending # "refusal"
    /\ \A k \in DOMAIN attempts : \A j \in 1 .. k : attempts[j].waited <= attempts[k].waited
=============================================================================
