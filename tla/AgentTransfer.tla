---------------------------- MODULE AgentTransfer ----------------------------
(***************************************************************************)
(* Chats handed from the bot to agents: the routes that create, pick,      *)
(* assign and resume a transfer, the agent's availability, and the agent a *)
(* contact is assigned to.                                                 *)
(*                                                                         *)
(* A step is one database call of one request; between two calls of a      *)
(* request any other may run, and a call may fail, which ends the request. *)
(* Left out: the team of a transfer, so that a pick may find any           *)
(* unassigned one, and the rows that are only written (audit, availability *)
(* log, notes).  Chatbot sessions are cancelled by a create, but nothing   *)
(* in the repository makes one.                                            *)
(***************************************************************************)
EXTENDS Naturals, FiniteSets

CONSTANTS
    Agent,        \* users of the organization
    FullAccess,   \* those with the role owner or admin
    Contact,
    Transfer,     \* rows of AgentTransfer that may be created
    Request,      \* requests handled at a time
    MaxFailures,  \* bound on database calls that fail
    None          \* no agent, no contact, no row

ASSUME TransferAssumption ==
    /\ FullAccess \subseteq Agent
    /\ IsFiniteSet(Request) /\ IsFiniteSet(Transfer)
    /\ MaxFailures \in Nat
    /\ None \notin Agent \union Contact \union Transfer

VARIABLES
    available,   \* User.isAvailable
    transfer,    \* rows of AgentTransfer
    assigned,    \* Contact.assignedUserId
    request,     \* progress of every request
    failures,    \* database calls that failed so far
    cut,         \* observed: agents whose last going away failed half way
    overlapped   \* observed: contacts for which two creates overlapped

vars == <<available, transfer, assigned, request, failures, cut, overlapped>>
rows == <<available, transfer, assigned>>
observed == <<failures, cut, overlapped>>

TransferStatus == {"none", "active", "resumed"}
Pcs == {"idle", "check", "insert", "take", "stick", "write", "clear",
        "resume", "list", "release"}

\* `vouched` is observed: whoever wrote the agent had seen him available, and
\* he has not gone away between that look and the write.
TransferType == [status: TransferStatus, contact: Contact \union {None},
                 agent: Agent \union {None}, vouched: BOOLEAN]
\* A request keeps the transfer, its contact and the agent it will write
\* (`target`), what it read of the contact (it had no agent, or the one of the
\* transfer), and, of an agent who goes away, the transfers still to release.
RequestType == [pc: Pcs, agent: Agent \union {None}, transfer: Transfer \union {None},
                contact: Contact \union {None}, target: Agent \union {None},
                read: {"nothing", "free", "holder"}, todo: SUBSET Transfer,
                vouched: BOOLEAN]

NoTransfer == [status |-> "none", contact |-> None, agent |-> None, vouched |-> FALSE]
NoRequest == [pc |-> "idle", agent |-> None, transfer |-> None, contact |-> None,
              target |-> None, read |-> "nothing", todo |-> {}, vouched |-> FALSE]

Init ==
    /\ available = [a \in Agent |-> TRUE]
    /\ transfer = [t \in Transfer |-> NoTransfer]
    /\ assigned = [c \in Contact |-> None]
    /\ request = [q \in Request |-> NoRequest]
    /\ failures = 0
    /\ cut = {}
    /\ overlapped = {}

Active(t) == transfer[t].status = "active"
HeldBy(a) == {t \in Transfer : Active(t) /\ transfer[t].agent = a}
ActiveOf(c) == {t \in Transfer : Active(t) /\ transfer[t].contact = c}

At(q, pc) == request[q].pc = pc
Idle(q) == At(q, "idle")
Become(q, r) == request' = [request EXCEPT ![q] = r]
To(q, pc) == request' = [request EXCEPT ![q].pc = pc]
Respond(q) == Become(q, NoRequest)

\* What the update of a transfer's agent leaves in the row.
SetAgent(t, a, vouched) ==
    transfer' = [transfer EXCEPT ![t] = [@ EXCEPT !.agent = a, !.vouched = vouched]]

-----------------------------------------------------------------------------
(* POST /transfers.                                                        *)

\* A request between the look for an active transfer and the create of one.
Creating(p, c) == request[p].pc \in {"check", "insert"} /\ request[p].transfer = None
                  /\ request[p].contact = c
NoteOverlap(c) ==
    overlapped' = IF \E p \in Request : Creating(p, c) THEN overlapped \union {c} ELSE overlapped

\* Mutant of FindNoActive: the existing transfer is not looked for.
FindNoActiveUnchecked(q, c, target) ==
    /\ Idle(q)
    /\ NoteOverlap(c)
    /\ Become(q, [NoRequest EXCEPT
           !.pc = IF target = None THEN "insert" ELSE "check",
           !.contact = c, !.target = target])
    /\ UNCHANGED <<rows, failures, cut>>

\* A contact with an active transfer is refused (409), and the agent named, if
\* any, is looked at next.
FindNoActive(q, c, target) ==
    /\ Idle(q)
    /\ NoteOverlap(c)
    /\ ActiveOf(c) = {}
    /\ Become(q, [NoRequest EXCEPT
           !.pc = IF target = None THEN "insert" ELSE "check",
           !.contact = c, !.target = target])
    /\ UNCHANGED <<rows, failures, cut>>

\* Of a create or an assignment: the agent it names has to be available.
CheckTarget(q) ==
    /\ At(q, "check")
    /\ \/ /\ available[request[q].target]
          /\ Become(q, [request[q] EXCEPT !.vouched = TRUE,
                 !.pc = IF request[q].transfer = None THEN "insert" ELSE "write"])
       \/ /\ ~available[request[q].target]
          /\ Respond(q)
    /\ UNCHANGED <<rows, observed>>

Insert(q, t) ==
    /\ At(q, "insert")
    /\ transfer[t].status = "none"
    /\ transfer' = [transfer EXCEPT ![t] =
           [status |-> "active", contact |-> request[q].contact,
            agent |-> request[q].target, vouched |-> request[q].vouched]]
    /\ Respond(q)
    /\ UNCHANGED <<available, assigned, observed>>

-----------------------------------------------------------------------------
(* POST /transfers/pick and POST /transfers/[id]/assign.                   *)

\* What a request that will write agent a keeps of the transfer and of the
\* contact read with it.
Reads(t, a) ==
    LET c == transfer[t].contact IN
    [NoRequest EXCEPT !.transfer = t, !.contact = c, !.target = a,
        !.read = CASE a # None /\ assigned[c] = None -> "free"
                   [] a = None /\ assigned[c] # None /\ assigned[c] = transfer[t].agent -> "holder"
                   [] OTHER -> "nothing"]

\* A pick does not ask whether the caller is available.
FindUnassigned(q, a, t) ==
    /\ Idle(q)
    /\ Active(t) /\ transfer[t].agent = None
    /\ Become(q, [Reads(t, a) EXCEPT !.pc = "take"])
    /\ UNCHANGED <<rows, observed>>

\* The update is by id: whoever holds the transfer by now loses it.
Take(q) ==
    /\ At(q, "take")
    /\ SetAgent(request[q].transfer, request[q].target, FALSE)
    /\ IF request[q].read = "free" THEN To(q, "stick") ELSE Respond(q)
    /\ UNCHANGED <<available, assigned, observed>>

\* Without full access an agent may only take the transfer himself or put it
\* back; a body without agentId takes it, and then nobody looks whether he is
\* available.
ReadTransfer(q, a, t, target, named) ==
    /\ Idle(q)
    /\ Active(t)
    /\ a \in FullAccess \/ target \in {a, None}
    /\ named \/ target = None \/ (a \notin FullAccess /\ target = a)
    /\ Become(q, [Reads(t, target) EXCEPT
           !.pc = IF named /\ target # None THEN "check" ELSE "write"])
    /\ UNCHANGED <<rows, observed>>

WriteAgent(q) ==
    /\ At(q, "write")
    /\ LET r == request[q] IN
       /\ SetAgent(r.transfer, r.target, r.vouched)
       /\ CASE r.read = "free" -> To(q, "stick")
            [] r.read = "holder" -> To(q, "clear")
            [] OTHER -> Respond(q)
    /\ UNCHANGED <<available, assigned, observed>>

\* A contact that had no agent when it was read gets this one, if the settings
\* say that it keeps its agent.
Stick(q) ==
    /\ At(q, "stick")
    /\ assigned' \in {assigned, [assigned EXCEPT ![request[q].contact] = request[q].target]}
    /\ Respond(q)
    /\ UNCHANGED <<available, transfer, observed>>

Clear(q) ==
    /\ At(q, "clear")
    /\ assigned' = [assigned EXCEPT ![request[q].contact] = None]
    /\ Respond(q)
    /\ UNCHANGED <<available, transfer, observed>>

-----------------------------------------------------------------------------
(* POST /transfers/[id]/resume, and the routes that assign a contact.      *)

FindActive(q, t) ==
    /\ Idle(q)
    /\ Active(t)
    /\ Become(q, [NoRequest EXCEPT !.pc = "resume", !.transfer = t])
    /\ UNCHANGED <<rows, observed>>

Resume(q) ==
    /\ At(q, "resume")
    /\ transfer' = [transfer EXCEPT ![request[q].transfer].status = "resumed"]
    /\ Respond(q)
    /\ UNCHANGED <<available, assigned, observed>>

AssignContact(c, a) ==
    /\ assigned' = [assigned EXCEPT ![c] = a]
    /\ UNCHANGED <<available, transfer, request, observed>>

-----------------------------------------------------------------------------
(* PUT /users/me/availability.                                             *)

\* Whoever looked at the agent before he went away no longer vouches for him.
Unvouched(a) ==
    [p \in Request |-> IF request[p].target = a THEN [request[p] EXCEPT !.vouched = FALSE]
                                                ELSE request[p]]

ComeBack(q, a) ==
    /\ Idle(q)
    /\ available' = [available EXCEPT ![a] = TRUE]
    /\ UNCHANGED <<transfer, assigned, request, observed>>

GoAway(q, a) ==
    /\ Idle(q)
    /\ available' = [available EXCEPT ![a] = FALSE]
    /\ request' = [Unvouched(a) EXCEPT ![q] = [NoRequest EXCEPT !.pc = "list", !.agent = a]]
    /\ UNCHANGED <<transfer, assigned, observed>>

ListHeld(q) ==
    /\ At(q, "list")
    /\ Become(q, [request[q] EXCEPT !.pc = "release", !.todo = HeldBy(request[q].agent)])
    /\ cut' = cut \ {request[q].agent}
    /\ UNCHANGED <<rows, failures, overlapped>>

\* Back to the queue, one by one and by id, whoever holds it by now.
Release(q, t) ==
    /\ At(q, "release")
    /\ t \in request[q].todo
    /\ SetAgent(t, None, FALSE)
    /\ request' = [request EXCEPT ![q].todo = @ \ {t}]
    /\ UNCHANGED <<available, assigned, observed>>

\* Mutant of Released: the answer does not wait for the updates.
ReleasedEarly(q) ==
    /\ At(q, "release")
    /\ Respond(q)
    /\ UNCHANGED <<rows, observed>>

Released(q) ==
    /\ At(q, "release")
    /\ request[q].todo = {}
    /\ Respond(q)
    /\ UNCHANGED <<rows, observed>>

-----------------------------------------------------------------------------
\* A database call fails and the request with it; what it wrote stays.
RequestFails(q) ==
    /\ ~Idle(q)
    /\ failures < MaxFailures
    /\ failures' = failures + 1
    /\ cut' = IF request[q].pc \in {"list", "release"} THEN cut \union {request[q].agent} ELSE cut
    /\ Respond(q)
    /\ UNCHANGED <<rows, overlapped>>

Next ==
    \/ \E q \in Request :
          \/ \E c \in Contact, target \in Agent \union {None} : FindNoActive(q, c, target)
          \/ CheckTarget(q)
          \/ \E t \in Transfer : Insert(q, t)
          \/ \E a \in Agent, t \in Transfer : FindUnassigned(q, a, t)
          \/ Take(q)
          \/ \E a \in Agent, t \in Transfer, target \in Agent \union {None}, named \in BOOLEAN :
                ReadTransfer(q, a, t, target, named)
          \/ WriteAgent(q) \/ Stick(q) \/ Clear(q)
          \/ \E t \in Transfer : FindActive(q, t)
          \/ Resume(q)
          \/ \E a \in Agent : ComeBack(q, a) \/ GoAway(q, a)
          \/ ListHeld(q)
          \/ \E t \in Transfer : Release(q, t)
          \/ Released(q)
          \/ RequestFails(q)
    \/ \E c \in Contact, a \in Agent \union {None} : AssignContact(c, a)

Spec == Init /\ [][Next]_vars
-----------------------------------------------------------------------------
TypeOK ==
    /\ available \in [Agent -> BOOLEAN]
    /\ transfer \in [Transfer -> TransferType]
    /\ assigned \in [Contact -> Agent \union {None}]
    /\ request \in [Request -> RequestType]
    /\ failures \in 0 .. MaxFailures
    /\ cut \subseteq Agent
    /\ overlapped \subseteq Contact

\* An agent who went away keeps no chat that was given to him in good faith:
\* his going away still has it to release, or it failed half way. (What a pick
\* of his own, or a writer who looked before he left, gives him stays.)
AwayHoldsOnlyUnseen ==
    \A a \in Agent \ cut : ~available[a] =>
        \A t \in HeldBy(a) : transfer[t].vouched =>
            \E q \in Request : /\ request[q].agent = a
                               /\ At(q, "list") \/ (At(q, "release") /\ t \in request[q].todo)

\* The 409 and the create are two calls: a contact has two active transfers
\* only if two creates for it overlapped.
SecondActiveOnlyByOverlap ==
    \A c \in Contact \ overlapped : Cardinality(ActiveOf(c)) <= 1
=============================================================================
