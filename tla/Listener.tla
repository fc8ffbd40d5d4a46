------------------------------- MODULE Listener --------------------------------
(***************************************************************************)
(* The listening session the consumers of one connection share             *)
(* (plugin-storage-postgres/src/listener.ts): opened by the first that     *)
(* listens, opened again a pause after it is lost, closed with the last or *)
(* by the plugin's teardown.  A notification is heard by the sessions open *)
(* when it is sent, and lost with them.                                    *)
(*                                                                         *)
(* One Listening, from its first consumer until it is closed; one that     *)
(* listens later gets another.                                             *)
(***************************************************************************)
EXTENDS Naturals

CONSTANTS Consumer, MaxSessions, MaxLosses      \* the last two are bounds

Session == 1 .. MaxSessions
None    == 0

VARIABLES
    consumer,   \* each: "new", "joining" (its session is opening), "on" or "off"
    joins,      \* the session each joining one awaits
    session,    \* each: "unmade", "connecting", "reopening" (by the timer), "open", "ended", or what
                \* did not connect and is being ended: "refused", "unopened" (the timer's)
    client,     \* the session kept, None while there is none
    opening,    \* the session being opened or opened last, None while undefined
    pause,      \* the timer until it is opened again
    retired,    \* it was closed
    notes,      \* notifications on their way, by session and consumer
    owed,       \* the consumers whose queue changed since they last looked
    losses,     \* (bounded)
    doubled     \* history: a session was opened while another was open or opening

vars == <<consumer, joins, session, client, opening, pause, retired, notes, owed, losses, doubled>>

Wakers    == IF retired THEN {} ELSE {c \in Consumer : consumer[c] \in {"joining", "on"}}
Made      == {s \in Session : session[s] # "unmade"}
Fresh     == CHOOSE s \in Session \ Made : \A t \in Session \ Made : s <= t

Init ==
    /\ consumer = [c \in Consumer |-> "new"] /\ joins = [c \in Consumer |-> None]
    /\ session = [s \in Session |-> "unmade"]
    /\ client = None /\ opening = None /\ pause = FALSE /\ retired = FALSE
    /\ notes = {} /\ owed = {} /\ losses = 0 /\ doubled = FALSE

-----------------------------------------------------------------------------
(* open(): one more session starts to connect.                             *)
Open(how) ==
    /\ Session \ Made # {}
    /\ session' = [session EXCEPT ![Fresh] = how]
    /\ opening' = Fresh
    /\ doubled' = (doubled \/ \E s \in Made : session[s] \in {"connecting", "reopening", "open"})

(* A consumer listens, through the session opened last or opening, and     *)
(* looks at its queue once it does: at once, where the opening had come to *)
(* a session, which may have ended since.                                  *)
Add(c) ==
    /\ consumer[c] = "new" /\ ~retired
    /\ IF opening = None THEN Open("connecting") ELSE UNCHANGED <<session, opening, doubled>>
    /\ IF session'[opening'] \in {"open", "ended"}
       THEN consumer' = [consumer EXCEPT ![c] = "on"] /\ UNCHANGED joins
       ELSE /\ consumer' = [consumer EXCEPT ![c] = "joining"]
            /\ joins' = [joins EXCEPT ![c] = opening']
    /\ UNCHANGED <<client, pause, retired, notes, owed, losses>>

Awaiting(s) == {c \in Consumer : consumer[c] = "joining" /\ joins[c] = s}

(* A mutant: nobody is told that the session is back.                      *)
WakesNobody(s) == FALSE

(* Every consumer is woken when the timer's session is open, since what    *)
(* was notified while it was down was not heard.                           *)
WakesAll(s) == session[s] = "reopening"

Connected(s) ==
    /\ session[s] \in {"connecting", "reopening"}
    /\ session' = [session EXCEPT ![s] = "open"]
    /\ client' = s
    /\ consumer' = [c \in Consumer |-> IF c \in Awaiting(s) THEN "on" ELSE consumer[c]]
    /\ owed' = IF WakesAll(s) THEN {} ELSE owed \ Awaiting(s)
    /\ UNCHANGED <<joins, opening, pause, retired, notes, losses, doubled>>

(* What a close does: the session kept is ended, whatever is connecting.   *)
Close(others) ==
    /\ retired' = TRUE /\ pause' = FALSE /\ client' = None /\ opening' = None
    /\ session' = [s \in Session |-> IF s \in others \cup {client} THEN "ended" ELSE session[s]]
    /\ notes' = {n \in notes : n[1] # client}

(* A session that does not connect is ended first.  Who listens meanwhile  *)
(* has another one opened.                                                 *)
ConnectFails(s) ==
    /\ session[s] \in {"connecting", "reopening"}
    /\ losses < MaxLosses /\ losses' = losses + 1
    /\ session' = [session EXCEPT ![s] = IF @ = "connecting" THEN "refused" ELSE "unopened"]
    /\ opening' = None
    /\ UNCHANGED <<consumer, joins, client, pause, retired, notes, owed, doubled>>

(* Then those that joined it fail and stop listening, the last of them     *)
(* closes, and the timer's is tried again.                                 *)
Refused(s) ==
    /\ session[s] \in {"refused", "unopened"}
    /\ consumer' = [c \in Consumer |-> IF c \in Awaiting(s) THEN "off" ELSE consumer[c]]
    /\ owed' = owed \ Awaiting(s)
    /\ IF Awaiting(s) # {} /\ Wakers \subseteq Awaiting(s)
       THEN Close({s})
       ELSE /\ session' = [session EXCEPT ![s] = "ended"]
            /\ IF session[s] = "unopened"
               THEN pause' = TRUE /\ opening' = None
               ELSE UNCHANGED <<pause, opening>>
            /\ UNCHANGED <<client, retired, notes>>
    /\ UNCHANGED <<joins, losses, doubled>>

(* A session that was open ends; the one kept is opened again later.       *)
Lost(s) ==
    /\ session[s] = "open"
    /\ losses < MaxLosses /\ losses' = losses + 1
    /\ session' = [session EXCEPT ![s] = "ended"]
    /\ notes' = {n \in notes : n[1] # s}
    /\ IF client = s
       THEN client' = None /\ opening' = None /\ pause' = TRUE
       ELSE UNCHANGED <<client, opening, pause>>
    /\ UNCHANGED <<consumer, joins, retired, owed, doubled>>

Again ==
    /\ pause /\ pause' = FALSE
    /\ IF Wakers = {} THEN UNCHANGED <<session, opening, doubled>> ELSE Open("reopening")
    /\ UNCHANGED <<consumer, joins, client, retired, notes, owed, losses>>

-----------------------------------------------------------------------------
(* A queue changes: every open session is told.                            *)
Publish(c) ==
    /\ consumer[c] = "on" /\ c \notin owed
    /\ owed' = owed \cup {c}
    /\ notes' = notes \cup {<<s, c>> : s \in {t \in Session : session[t] = "open"}}
    /\ UNCHANGED <<consumer, joins, session, client, opening, pause, retired, losses, doubled>>

(* A notification arrives, and wakes the consumer that listens for it.     *)
Note(n) ==
    /\ n \in notes /\ notes' = notes \ {n}
    /\ owed' = IF retired THEN owed ELSE owed \ {n[2]}
    /\ UNCHANGED <<consumer, joins, session, client, opening, pause, retired, losses, doubled>>

(* A consumer stops; the last one closes.                                  *)
Unlisten(c) ==
    /\ consumer[c] = "on"
    /\ consumer' = [consumer EXCEPT ![c] = "off"]
    /\ owed' = owed \ {c}
    /\ IF Wakers \subseteq {c}
       THEN Close({})
       ELSE UNCHANGED <<session, client, opening, pause, retired, notes>>
    /\ UNCHANGED <<joins, losses, doubled>>

(* The teardown of the tree that made it forgets its consumers.            *)
TearDown ==
    /\ ~retired /\ Made # {}
    /\ Close({})
    /\ UNCHANGED <<consumer, joins, owed, losses, doubled>>

Next ==
    \/ Again \/ TearDown
    \/ \E c \in Consumer : Add(c) \/ Publish(c) \/ Unlisten(c)
    \/ \E s \in Session : Connected(s) \/ ConnectFails(s) \/ Refused(s) \/ Lost(s)
    \/ \E n \in notes : Note(n)

(* A session connects or fails, the timer fires, a notification arrives.   *)
Fairness ==
    /\ WF_vars(Again) /\ \A s \in Session, c \in Consumer : WF_vars(Note(<<s, c>>))
    /\ \A s \in Session : WF_vars(Connected(s)) /\ WF_vars(Refused(s))

Spec == Init /\ [][Next]_vars /\ Fairness

-----------------------------------------------------------------------------
(* A consumer whose queue changed looks at it in the end, whatever was lost*)
(* meanwhile, unless it stops or the tree does (listener.ts:9-12).  Not so *)
(* once a consumer that joined in the pause after a loss had a session     *)
(* opened that the timer opens again: either may be kept, and a loss of    *)
(* the other is not made good.                                             *)
HeardInTheEnd == \A c \in Consumer : c \in owed ~> c \notin owed \/ retired \/ doubled

=============================================================================
