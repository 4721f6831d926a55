---------------------------- MODULE MessageLife ----------------------------
(* What a sender is promised of one outgoing message at a time: it is     *)
(* pending until WhatsApp has answered; what is shown as sent was taken,  *)
(* what is shown as failed was refused, reported as failed or hit by an   *)
(* error, and stays failed.                                               *)
CONSTANT Message

VARIABLES status, taken, blamed

Init ==
    /\ status = [m \in Message |-> "none"]
    /\ taken = {}
    /\ blamed = {}

Create(m) ==
    /\ status[m] = "none"
    /\ status' = [status EXCEPT ![m] = "pending"]
    /\ UNCHANGED <<taken, blamed>>

\* WhatsApp takes a pending message, once.
Take(m) ==
    /\ status[m] = "pending" /\ m \notin taken
    /\ taken' = taken \union {m}
    /\ UNCHANGED status

\* A refusal, a report of a failure, or an error.
Blame == blamed \subseteq blamed'

Sent(m) ==
    /\ status[m] = "pending" /\ m \in taken
    /\ status' = [status EXCEPT ![m] = "sent"]
    /\ UNCHANGED taken

Fail(m) ==
    /\ status[m] \in {"pending", "sent"} /\ m \in blamed'
    /\ status' = [status EXCEPT ![m] = "failed"]
    /\ UNCHANGED taken

Next ==
    /\ Blame
    /\ \/ \E m \in Message : Create(m) \/ Take(m) \/ Sent(m) \/ Fail(m)
       \/ UNCHANGED <<status, taken>>

Spec == Init /\ [][Next]_<<status, taken, blamed>>
=============================================================================
