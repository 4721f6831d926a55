----------------------------- MODULE Conversation -----------------------------
(***************************************************************************)
(* Outgoing template messages, beside the inbox of module Inbox: the route *)
(* that stores a message and sends it in the background, the sender, and   *)
(* the reports of WhatsApp on what became of it, which come by the same    *)
(* callbacks as the customer's messages.                                   *)
(*                                                                         *)
(* The route is the only caller of MessageSender: it sends asynchronously  *)
(* and never asks to mark the customer's messages read.  Left out: how a   *)
(* request to WhatsApp is built, the last-message fields of the contact,   *)
(* and broadcastFn, which nobody sets.  The rows of a campaign are the     *)
(* business of module Campaign.                                            *)
(***************************************************************************)
EXTENDS Inbox

CONSTANT Message    \* outgoing messages that may be sent

VARIABLES
    message,   \* rows of Message: status, and whether the wamid is stored
    job,       \* what the background job of a message does next
    taken,     \* messages WhatsApp has accepted
    blamed     \* observed: messages refused, reported failed or hit by an error

outVars == <<message, job, taken, blamed>>
vars == <<acked, contacts, isRead, inbox, request, failures, raced, skipped, outVars>>

\* What a report says: "progress" is one of sent, delivered and read.
Event == {"progress", "failed"}
Report == Message \X Event

ASSUME ReportAssumption == None \notin Report

MessageType == [status: {"none", "pending", "sent", "failed"}, wamid: BOOLEAN]
JobPcs == {"none", "send", "store", "fail", "over", "lost"}

Init ==
    /\ InboxInit
    /\ message = [m \in Message |-> [status |-> "none", wamid |-> FALSE]]
    /\ job = [m \in Message |-> "none"]
    /\ taken = {}
    /\ blamed = {}

SetStatus(m, status) == message' = [message EXCEPT ![m].status = status]
JobTo(m, pc) == job' = [job EXCEPT ![m] = pc]

-----------------------------------------------------------------------------
(* POST /messages/template.                                                *)

RequestTemplate(q) ==
    /\ At(q, "idle")
    /\ Become(q, [NoRequest EXCEPT !.pc = "find"])
    /\ UNCHANGED <<tables, failures, raced, skipped, outVars>>

\* The row is created, the job is left to setImmediate, the caller answered.
CreatePending(q, m) ==
    /\ At(q, "send")
    /\ message[m].status = "none"
    /\ SetStatus(m, "pending")
    /\ JobTo(m, "send")
    /\ Respond(q)
    /\ UNCHANGED <<tables, failures, raced, skipped, taken, blamed>>

-----------------------------------------------------------------------------
(* MessageSender: the background job.                                      *)

Accept(m) ==
    /\ job[m] = "send"
    /\ taken' = taken \union {m}
    /\ JobTo(m, "store")
    /\ UNCHANGED <<inboxVars, message, blamed>>

Refuse(m) ==
    /\ job[m] = "send"
    /\ JobTo(m, "fail")
    /\ blamed' = blamed \union {m}
    /\ UNCHANGED <<inboxVars, message, taken>>

StoreSent(m) ==
    /\ job[m] = "store"
    /\ message' = [message EXCEPT ![m] = [status |-> "sent", wamid |-> TRUE]]
    /\ JobTo(m, "over")
    /\ UNCHANGED <<inboxVars, taken, blamed>>

\* Mutant of StoreFailed: the catch block only logs.
StoreFailedNothing(m) ==
    /\ job[m] = "fail"
    /\ JobTo(m, "over")
    /\ UNCHANGED <<inboxVars, message, taken, blamed>>

StoreFailed(m) ==
    /\ job[m] = "fail"
    /\ SetStatus(m, "failed")
    /\ JobTo(m, "over")
    /\ UNCHANGED <<inboxVars, taken, blamed>>

\* The answer of WhatsApp, or of the database, is lost: the request may have
\* been carried out.  The catch block stores 'failed' either way, and what it
\* throws itself nobody catches.
JobFails(m) ==
    /\ job[m] \in {"send", "store", "fail"}
    /\ failures < MaxFailures
    /\ failures' = failures + 1
    /\ blamed' = blamed \union {m}
    /\ JobTo(m, IF job[m] = "fail" THEN "lost" ELSE "fail")
    /\ CASE job[m] = "send" -> taken' \in {taken, taken \union {m}} /\ UNCHANGED message
         [] job[m] = "store" ->
              /\ message' \in {message, [message EXCEPT ![m] = [status |-> "sent", wamid |-> TRUE]]}
              /\ UNCHANGED taken
         [] job[m] = "fail" ->
              /\ message' \in {message, [message EXCEPT ![m].status = "failed"]}
              /\ UNCHANGED taken
    /\ UNCHANGED <<tables, request, raced, skipped>>

\* The web server stops: its requests and its background jobs are gone.
Crash ==
    /\ failures < MaxFailures
    /\ failures' = failures + 1
    /\ raced' = raced \union UNION {HalfStored(q) : q \in Request}
    /\ request' = [q \in Request |-> NoRequest]
    /\ job' = [m \in Message |-> IF job[m] \in {"send", "store", "fail"} THEN "lost" ELSE job[m]]
    /\ UNCHANGED <<tables, skipped, message, taken, blamed>>

-----------------------------------------------------------------------------
(* handleStatusUpdate on the row of a message.                             *)

\* WhatsApp reports on what it has taken, in any order and again.
DeliverReport(q, batch, m, event) ==
    /\ m \in taken
    /\ Deliver(q, batch, <<m, event>>)
    /\ blamed' = IF event = "failed" THEN blamed \union {m} ELSE blamed
    /\ UNCHANGED <<message, job, taken>>

\* A report whose wamid is not stored yet finds no row and is dropped.
ReportUnmatched(q) ==
    /\ At(q, "status")
    /\ ~message[request[q].report[1]].wamid
    /\ To(q, "answer")
    /\ UNCHANGED <<tables, failures, raced, skipped, outVars>>

\* Mutant of ReportFailed: what was reported is stored, of any event.
ReportAny(q) ==
    /\ At(q, "status")
    /\ LET m == request[q].report[1] IN
       /\ message[m].wamid
       /\ SetStatus(m, "failed")
    /\ To(q, "answer")
    /\ UNCHANGED <<tables, failures, raced, skipped, job, taken, blamed>>

ReportFailed(q) ==
    /\ At(q, "status")
    /\ LET m == request[q].report[1] IN
       /\ message[m].wamid /\ request[q].report[2] = "failed"
       /\ SetStatus(m, "failed")
    /\ To(q, "answer")
    /\ UNCHANGED <<tables, failures, raced, skipped, job, taken, blamed>>

\* Message has no column sentAt, deliveredAt or readAt, so that the update of
\* any progress is refused by the database client: the callback fails with all
\* that it brought, every time it is delivered.
ReportThrows(q) ==
    /\ At(q, "status")
    /\ message[request[q].report[1]].wamid /\ request[q].report[2] # "failed"
    /\ Respond(q)
    /\ UNCHANGED <<tables, failures, raced, skipped, outVars>>

-----------------------------------------------------------------------------
JobStep(m) == Accept(m) \/ Refuse(m) \/ StoreSent(m) \/ StoreFailed(m)

Next ==
    \/ InboxNext /\ UNCHANGED outVars
    \/ \E q \in Request :
          \/ RequestTemplate(q)
          \/ \E m \in Message : CreatePending(q, m)
          \/ \E batch \in SUBSET Inbound, m \in Message, event \in Event :
                DeliverReport(q, batch, m, event)
          \/ ReportUnmatched(q) \/ ReportFailed(q) \/ ReportThrows(q)
    \/ \E m \in Message : JobStep(m) \/ JobFails(m)
    \/ Crash

Spec == Init /\ [][Next]_vars
-----------------------------------------------------------------------------
TypeOK ==
    /\ InboxTypes(Report)
    /\ message \in [Message -> MessageType]
    /\ job \in [Message -> JobPcs]
    /\ taken \subseteq Message
    /\ blamed \subseteq Message

Life == INSTANCE MessageLife
            WITH status <- [m \in Message |-> message[m].status]

\* The sender, its error paths and the callbacks keep what MessageLife
\* promises: nothing is shown as sent that WhatsApp did not take or that is
\* known to have failed.
LifeSpec == Life!Spec

\* A message that is pending has a job that will send or fail it, unless the
\* server stopped or the last update failed: nothing takes it up again then.
PendingHasJob == \A m \in Message : message[m].status = "pending" =>
    job[m] \in {"send", "store", "fail"} \/ (job[m] = "lost" /\ failures > 0)
=============================================================================
