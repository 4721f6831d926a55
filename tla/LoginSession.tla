----------------------------- MODULE LoginSession -----------------------------
(***************************************************************************)
(* What the authentication routes promise of the sessions of a user: each is *)
(* opened by a login, may go on for as long as it is refreshed, and once it *)
(* is over it stays over.                                                  *)
(***************************************************************************)
CONSTANT Login      \* the logins, each the begin of one session

VARIABLE open, over \* sessions that go on, and those that have ended

sessionVars == <<open, over>>

Init == open = {} /\ over = {}

Open(s) ==
    /\ s \notin open \union over
    /\ open' = open \union {s}
    /\ over' = over

\* A logout, or a refresh that is refused or fails, may end several at once.
Close(gone) ==
    /\ gone \subseteq open
    /\ open' = open \ gone
    /\ over' = over \union gone

Next == (\E s \in Login : Open(s)) \/ (\E gone \in SUBSET open : Close(gone))

Spec == Init /\ [][Next]_sessionVars
=============================================================================
