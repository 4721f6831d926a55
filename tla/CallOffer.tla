------------------------------ MODULE CallOffer ------------------------------
(***************************************************************************)
(* What the call transfer routes promise the agents of a team: a call that *)
(* is offered to them is taken by at most one, who keeps it, and an offer   *)
(* that was closed is not taken any more.                                  *)
(***************************************************************************)
CONSTANTS
    Offer,    \* the offers that may be made
    Taker,    \* the agents who may take one
    None      \* nobody

VARIABLES
    phase,    \* phase of every offer
    taker     \* who took it

offerVars == <<phase, taker>>

Init ==
    /\ phase = [o \in Offer |-> "none"]
    /\ taker = [o \in Offer |-> None]

Make(o) ==
    /\ phase[o] = "none"
    /\ phase' = [phase EXCEPT ![o] = "waiting"]
    /\ UNCHANGED taker

Take(o, a) ==
    /\ phase[o] = "waiting"
    /\ phase' = [phase EXCEPT ![o] = "connected"]
    /\ taker' = [taker EXCEPT ![o] = a]

Close(o) ==
    /\ phase[o] # "none"
    /\ phase' = [phase EXCEPT ![o] = "completed"]
    /\ UNCHANGED taker

Next == \E o \in Offer : Make(o) \/ Close(o) \/ \E a \in Taker : Take(o, a)

Spec == Init /\ [][Next]_offerVars
=============================================================================
