------------------------------ MODULE WorkerPool ------------------------------
(***************************************************************************)
(* What packages/webhooks/src/dispatcher.ts promises its callers: any      *)
(* number of deliveries may be asked for, at most MaxConcurrent of them are *)
(* in flight at a time, and each is carried out once and ends.             *)
(***************************************************************************)
EXTENDS Naturals, FiniteSets

CONSTANTS
    Task,           \* the deliveries that may be asked for
    MaxConcurrent   \* how many may be in flight

VARIABLES
    waiting,   \* deliveries that were asked for and have not begun
    running,   \* deliveries in flight
    ended      \* deliveries that are over

poolVars == <<waiting, running, ended>>

Init == waiting = {} /\ running = {} /\ ended = {}

\* Some of the deliveries asked for together begin at once, the others wait.
Submit ==
    \E begun, held \in SUBSET (Task \ (waiting \union running \union ended)) :
        /\ begun \intersect held = {}
        /\ running' = running \union begun
        /\ waiting' = waiting \union held
        /\ ended' = ended

Begin(t) ==
    /\ t \in waiting
    /\ waiting' = waiting \ {t}
    /\ running' = running \union {t}
    /\ ended' = ended

\* A delivery ends and may give its place to one that waits.
End(t) ==
    /\ t \in running
    /\ ended' = ended \union {t}
    /\ \/ waiting' = waiting /\ running' = running \ {t}
       \/ \E next \in waiting :
            /\ waiting' = waiting \ {next}
            /\ running' = (running \ {t}) \union {next}

Next ==
    /\ Submit \/ \E t \in Task : Begin(t) \/ End(t)
    /\ Cardinality(running') <= MaxConcurrent

Spec == Init /\ [][Next]_poolVars

\* Whatever was asked for comes to an end.
AllEnd == \A t \in Task : t \in waiting \union running ~> t \in ended
=============================================================================
