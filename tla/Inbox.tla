-------------------------------- MODULE Inbox --------------------------------
(***************************************************************************)
(* What customers write, and who has read it: the WhatsApp callback that   *)
(* stores the messages of one phone number, and the routes that show a     *)
(* conversation and mark it read.                                          *)
(*                                                                         *)
(* WhatsApp delivers a message, once it is written, until a callback with  *)
(* it is answered 200, also while another callback with it is still being  *)
(* handled.  A callback carries the messages of one change and at most one *)
(* report.  A step is one database call of one request; a call may fail,   *)
(* and a request that fails answers 500.  Rows of one message in one       *)
(* contact are not told apart: a message that is stored again is unread    *)
(* again.  Left out: texts, media, times, and the hub, to which a fresh    *)
(* Hub without clients broadcasts.                                         *)
(***************************************************************************)
EXTENDS Naturals, FiniteSets

CONSTANTS
    Inbound,      \* messages the customer may write
    Unknown,      \* those of type 'unknown', which are not stored
    Contact,      \* contacts that may be created for his number
    Request,      \* requests handled at a time
    MaxFailures,  \* bound on failing calls
    None

ASSUME InboxAssumption ==
    /\ Unknown \subseteq Inbound
    /\ IsFiniteSet(Contact) /\ IsFiniteSet(Request)
    /\ MaxFailures \in Nat
    /\ None \notin Contact \union Inbound

VARIABLES
    acked,      \* messages that WhatsApp will not deliver (again)
    contacts,   \* contacts with the number
    isRead,     \* Contact.isRead
    inbox,      \* rows of Message: none, unread ('received') or read
    request,    \* progress of every request
    failures,   \* calls that failed so far
    raced,      \* observed: unread messages whose flag was lost (see Store)
    skipped     \* observed: messages that were answered, not handled (see Skip)

inboxVars == <<acked, contacts, isRead, inbox, request, failures, raced, skipped>>
tables == <<acked, contacts, isRead, inbox>>

Pcs == {"idle", "find", "create", "store", "flag", "answer", "status", "mark", "unflag",
        "send"}
\* A callback keeps the messages it brought (`batch`), those still to handle
\* (`todo`) and the one at hand (`current`); what it reports of outgoing
\* messages is the business of module Conversation.
RequestType(Report) ==
    [pc: Pcs, batch: SUBSET Inbound, todo: SUBSET Inbound, current: Inbound \union {None},
     contact: Contact \union {None}, report: Report \union {None}]
NoRequest == [pc |-> "idle", batch |-> {}, todo |-> {}, current |-> None, contact |-> None,
              report |-> None]

InboxInit ==
    /\ acked = {}
    /\ contacts = {}
    /\ isRead = [c \in Contact |-> TRUE]
    /\ inbox = [c \in Contact |-> [i \in Inbound |-> "none"]]
    /\ request = [q \in Request |-> NoRequest]
    /\ failures = 0
    /\ raced = {} /\ skipped = {}

At(q, pc) == request[q].pc = pc
Become(q, r) == request' = [request EXCEPT ![q] = r]
To(q, pc) == request' = [request EXCEPT ![q].pc = pc]
Respond(q) == Become(q, NoRequest)
Unread(c) == {i \in Inbound : inbox[c][i] = "unread"}

-----------------------------------------------------------------------------
(* POST /webhooks/whatsapp, the messages of a callback.                    *)

\* Where a callback goes when a message has been dealt with: on to the next
\* one, then to the report it also brought, then to its answer.
Proceed(q, r, done) ==
    LET todo == r.todo \ {done} IN
    Become(q, [r EXCEPT !.todo = todo, !.current = None, !.contact = None,
        !.pc = CASE todo # {} -> "find"
                 [] todo = {} /\ r.report # None -> "status"
                 [] OTHER -> "answer"])

\* A message has a row in a contact.
Kept(i) == \E c \in contacts : inbox[c][i] # "none"

\* A change without a phone number, or of one that no account has, is passed
\* over: nothing of it is handled, and the callback is answered 200.
Skip(batch) ==
    /\ batch \intersect acked = {}
    /\ acked' = acked \union batch
    /\ skipped' = skipped \union {i \in batch \ Unknown : ~Kept(i)}
    /\ UNCHANGED <<contacts, isRead, inbox, request, failures, raced>>

\* A callback with the messages and the report of a change, of a number whose
\* account is found.
Deliver(q, batch, report) ==
    /\ At(q, "idle")
    /\ batch \intersect acked = {}
    /\ batch # {} \/ report # None
    /\ Proceed(q, [NoRequest EXCEPT !.batch = batch, !.todo = batch, !.report = report], None)
    /\ UNCHANGED <<tables, failures, raced, skipped>>

\* Mutant of FindContact: it asks for the contact with a condition that the
\* ones created by other requests do not meet.
FindOwnContact(q, i) ==
    /\ At(q, "find")
    /\ i \in request[q].todo \/ (i = None /\ request[q].todo = {})
    /\ Become(q, [request[q] EXCEPT !.current = i, !.pc = "create"])
    /\ UNCHANGED <<tables, failures, raced, skipped>>

\* The contact with the number, any of them if there are several; of a
\* callback (to store message i) or of a template message (i is None).
FindContact(q, i) ==
    /\ At(q, "find")
    /\ i \in request[q].todo \/ (i = None /\ request[q].todo = {})
    /\ \/ \E c \in contacts :
             Become(q, [request[q] EXCEPT !.current = i, !.contact = c,
                            !.pc = IF i = None THEN "send" ELSE "store"])
       \/ /\ contacts = {}
          /\ Become(q, [request[q] EXCEPT !.current = i, !.pc = "create"])
    /\ UNCHANGED <<tables, failures, raced, skipped>>

CreateContact(q, c) ==
    /\ At(q, "create")
    /\ c \notin contacts
    /\ contacts' = contacts \union {c}
    /\ Become(q, [request[q] EXCEPT !.contact = c,
                      !.pc = IF request[q].current = None THEN "send" ELSE "store"])
    /\ UNCHANGED <<acked, isRead, inbox, failures, raced, skipped>>

\* Mutant of Store: the return for an unknown type comes after the create.
StoreUnknown(q) ==
    /\ At(q, "store")
    /\ LET r == request[q]  c == r.contact  i == r.current IN
       /\ inbox' = [inbox EXCEPT ![c][i] = "unread"]
       /\ IF i \in Unknown THEN Proceed(q, r, i) ELSE To(q, "flag")
    /\ UNCHANGED <<acked, contacts, isRead, failures, raced, skipped>>

\* A message that is stored while a reader of its contact is between his two
\* writes is in neither: he did not mark it, and he will clear its flag.
Store(q) ==
    /\ At(q, "store")
    /\ LET r == request[q]  c == r.contact  i == r.current IN
       IF i \in Unknown
       THEN /\ Proceed(q, r, i)
            /\ UNCHANGED <<inbox, raced>>
       ELSE /\ inbox' = [inbox EXCEPT ![c][i] = "unread"]
            /\ raced' = IF \E p \in Request : At(p, "unflag") /\ request[p].contact = c
                        THEN raced \union {<<c, i>>} ELSE raced
            /\ To(q, "flag")
    /\ UNCHANGED <<acked, contacts, isRead, failures, skipped>>

Flag(q) ==
    /\ At(q, "flag")
    /\ isRead' = [isRead EXCEPT ![request[q].contact] = FALSE]
    /\ Proceed(q, request[q], request[q].current)
    /\ UNCHANGED <<acked, contacts, inbox, failures, raced, skipped>>

Answer(q) ==
    /\ At(q, "answer")
    /\ acked' = acked \union request[q].batch
    /\ Respond(q)
    /\ UNCHANGED <<contacts, isRead, inbox, failures, raced, skipped>>

-----------------------------------------------------------------------------
(* GET /contacts/[id]/messages and POST /contacts/[id]/read.               *)

Open(q, c) ==
    /\ At(q, "idle")
    /\ c \in contacts
    /\ Become(q, [NoRequest EXCEPT !.pc = "mark", !.contact = c])
    /\ UNCHANGED <<tables, failures, raced, skipped>>

\* Every message of the contact, shown on the page or not.
MarkRead(q) ==
    /\ At(q, "mark")
    /\ LET c == request[q].contact IN
       /\ inbox' = [inbox EXCEPT ![c] =
              [i \in Inbound |-> IF @[i] = "unread" THEN "read" ELSE @[i]]]
       /\ raced' = {x \in raced : x[1] # c}
    /\ To(q, "unflag")
    /\ UNCHANGED <<acked, contacts, isRead, failures, skipped>>

ClearFlag(q) ==
    /\ At(q, "unflag")
    /\ isRead' = [isRead EXCEPT ![request[q].contact] = TRUE]
    /\ Respond(q)
    /\ UNCHANGED <<acked, contacts, inbox, failures, raced, skipped>>

-----------------------------------------------------------------------------
\* Messages that request q has stored and not flagged.
HalfStored(q) ==
    IF At(q, "flag") THEN {<<request[q].contact, request[q].current>>} ELSE {}

\* Mutant of RequestFails: the callback catches the error and answers 200.
RequestFailsQuietly(q) ==
    /\ ~At(q, "idle")
    /\ failures < MaxFailures
    /\ failures' = failures + 1
    /\ raced' = raced \union HalfStored(q)
    /\ acked' = acked \union request[q].batch
    /\ Respond(q)
    /\ UNCHANGED <<contacts, isRead, inbox, skipped>>

\* A call of a request fails; a callback is answered with 500, and all that it
\* brought remains due, the messages it had stored included.
RequestFails(q) ==
    /\ ~At(q, "idle")
    /\ failures < MaxFailures
    /\ failures' = failures + 1
    /\ raced' = raced \union HalfStored(q)
    /\ Respond(q)
    /\ UNCHANGED <<tables, skipped>>

InboxNext ==
    \/ \E batch \in SUBSET Inbound : Skip(batch)
    \/ \E q \in Request :
          \/ \E batch \in SUBSET Inbound : Deliver(q, batch, None)
          \/ \E i \in Inbound \union {None} : FindContact(q, i)
          \/ \E c \in Contact : CreateContact(q, c) \/ Open(q, c)
          \/ Store(q) \/ Flag(q) \/ Answer(q)
          \/ MarkRead(q) \/ ClearFlag(q)
          \/ RequestFails(q)
-----------------------------------------------------------------------------
InboxTypes(Report) ==
    /\ acked \subseteq Inbound
    /\ contacts \subseteq Contact
    /\ isRead \in [Contact -> BOOLEAN]
    /\ inbox \in [Contact -> [Inbound -> {"none", "unread", "read"}]]
    /\ request \in [Request -> RequestType(Report)]
    /\ failures \in 0 .. MaxFailures
    /\ raced \subseteq Contact \X Inbound
    /\ skipped \subseteq Inbound

\* A message that WhatsApp will not deliver again is stored, unless it came for
\* a number without an account: whatever fails before, while or after it is
\* handled, a callback for an account says 200 only after the rows of all its
\* messages are written.
AckedIsStored ==
    \A i \in acked \ Unknown : i \in skipped \/ Kept(i)

\* A contact with an unread message is shown as unread, unless the handler is
\* about to flag it, failed there, or stored the message between the two
\* writes of a reader.
UnreadIsFlagged ==
    \A c \in Contact : \A i \in Unread(c) :
        \/ ~isRead[c]
        \/ <<c, i>> \in raced
        \/ \E q \in Request : <<c, i>> \in HalfStored(q)

\* The contact is looked for and created in two calls: a number may get
\* several contacts, but no more than requests are handled at a time.
ContactsBounded == Cardinality(contacts) <= Cardinality(Request)
=============================================================================
