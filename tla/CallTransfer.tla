----------------------------- MODULE CallTransfer -----------------------------
(***************************************************************************)
(* One voice call: the events WhatsApp reports of it                       *)
(* (api/webhooks/whatsapp/call) and the routes that offer it to the agents *)
(* of a team (api/call-transfers, its connect and hangup).                 *)
(*                                                                         *)
(* A step is one database call of one request; between two calls of a      *)
(* request any other may run, and a call may fail, which ends its request  *)
(* (the 500 of the catch block).  Of a row of CallLog the status and the   *)
(* agent are kept, nothing reads the rest to decide.                       *)
(***************************************************************************)
EXTENDS Naturals, FiniteSets

CONSTANTS
    Agent,         \* agents who may ask for the call
    Member,        \* those of the team it is offered to
    Transfer,      \* rows of CallTransfer that may be created
    Log,           \* rows of CallLog that may be created for the call
    Request,       \* requests handled at a time
    MaxFailures,   \* bound on database calls that fail
    None           \* no agent, no row

ASSUME CallAssumption ==
    /\ Member \subseteq Agent
    /\ IsFiniteSet(Request) /\ IsFiniteSet(Log)
    /\ MaxFailures \in Nat
    /\ None \notin Agent \union Transfer \union Log

VARIABLES
    callLog,     \* rows of CallLog with the call's whatsappCallId
    transfer,    \* rows of CallTransfer
    request,     \* progress of every request
    failures     \* database calls that failed so far

vars == <<callLog, transfer, request, failures>>

Event == {"ringing", "answered", "ended", "missed"}
LogStatus == {"none", "ringing", "answered", "transferring", "completed", "missed", "failed"}
TransferStatus == {"none", "waiting", "connected", "completed"}
Pcs == {"idle", "mark", "accept", "record", "create", "handle", "end", "fail"}

LogType == [status: LogStatus, agent: Agent \union {None}]
TransferType == [status: TransferStatus, agent: Agent \union {None},
                 connectedAt: BOOLEAN, log: Log \union {None}]
\* An event carries `error` when WhatsApp reports one with it; `final` is what
\* an end decided from the row it read, `stale` that an agent was recorded on
\* that row since.
RequestType == [pc: Pcs, agent: Agent \union {None}, transfer: Transfer \union {None},
                log: Log \union {None}, event: Event, error: BOOLEAN,
                final: {"completed", "missed"}, stale: BOOLEAN]

NoRequest == [pc |-> "idle", agent |-> None, transfer |-> None, log |-> None,
              event |-> "ringing", error |-> FALSE, final |-> "completed", stale |-> FALSE]

Init ==
    /\ callLog = [l \in Log |-> [status |-> "none", agent |-> None]]
    /\ transfer = [t \in Transfer |->
                     [status |-> "none", agent |-> None, connectedAt |-> FALSE, log |-> None]]
    /\ request = [q \in Request |-> NoRequest]
    /\ failures = 0

Logged == {l \in Log : callLog[l].status # "none"}

Idle(q) == request[q].pc = "idle"
At(q, pc) == request[q].pc = pc
To(q, pc) == request' = [request EXCEPT ![q].pc = pc]
Respond(q) == request' = [request EXCEPT ![q] = NoRequest]
SetStatus(l, s) == callLog' = [callLog EXCEPT ![l].status = s]

-----------------------------------------------------------------------------
(* The routes of the agents.                                               *)

\* POST /call-transfers: an offer to the team, perhaps naming one of it.
CreateTransfer(q, t, l, target) ==
    /\ Idle(q)
    /\ l \in Logged
    /\ transfer[t].status = "none"
    /\ transfer' = [transfer EXCEPT ![t] =
           [status |-> "waiting", agent |-> target, connectedAt |-> FALSE, log |-> l]]
    /\ request' = [request EXCEPT ![q] = [NoRequest EXCEPT !.pc = "mark", !.log = l]]
    /\ UNCHANGED <<callLog, failures>>

MarkTransferring(q) ==
    /\ At(q, "mark")
    /\ SetStatus(request[q].log, "transferring")
    /\ Respond(q)
    /\ UNCHANGED <<transfer, failures>>

\* Mutant of FindWaiting: the membership is not looked up.
FindWaitingAnyone(q, t, a) ==
    /\ Idle(q)
    /\ transfer[t].status = "waiting"
    /\ request' = [request EXCEPT ![q] = [NoRequest EXCEPT
           !.pc = "accept", !.agent = a, !.transfer = t, !.log = transfer[t].log]]
    /\ UNCHANGED <<callLog, transfer, failures>>

\* POST connect reads the row and the caller's membership. An offer always has
\* a team, so the test for an offer directed to another agent alone never
\* refuses: any member may take it.
FindWaiting(q, t, a) ==
    /\ Idle(q)
    /\ transfer[t].status = "waiting"
    /\ a \in Member
    /\ request' = [request EXCEPT ![q] = [NoRequest EXCEPT
           !.pc = "accept", !.agent = a, !.transfer = t, !.log = transfer[t].log]]
    /\ UNCHANGED <<callLog, transfer, failures>>

Connected(q) ==
    transfer' = [transfer EXCEPT ![request[q].transfer].status = "connected",
                                 ![request[q].transfer].agent = request[q].agent,
                                 ![request[q].transfer].connectedAt = TRUE]

\* Mutant of Accept: an update by id, as the other routes of the api write it.
AcceptById(q) ==
    /\ At(q, "accept")
    /\ Connected(q) /\ To(q, "record")
    /\ UNCHANGED <<callLog, failures>>

\* Mutant of Accept: result.count is not looked at.
AcceptUncounted(q) ==
    /\ At(q, "accept")
    /\ IF transfer[request[q].transfer].status = "waiting"
       THEN Connected(q)
       ELSE UNCHANGED transfer
    /\ To(q, "record")
    /\ UNCHANGED <<callLog, failures>>

\* Mutant of Accept: the winner is answered before the call log is written.
AcceptUnrecorded(q) ==
    /\ At(q, "accept")
    /\ IF transfer[request[q].transfer].status = "waiting"
       THEN Connected(q)
       ELSE UNCHANGED transfer
    /\ Respond(q)
    /\ UNCHANGED <<callLog, failures>>

\* The updateMany where the row is still waiting: its count is 1 for one
\* request, the others are answered 409.
Accept(q) ==
    /\ At(q, "accept")
    /\ IF transfer[request[q].transfer].status = "waiting"
       THEN Connected(q) /\ To(q, "record")
       ELSE Respond(q) /\ UNCHANGED transfer
    /\ UNCHANGED <<callLog, failures>>

\* The winner becomes the agent of the call log.
RecordAgent(q) ==
    /\ At(q, "record")
    /\ callLog' = [callLog EXCEPT ![request[q].log].agent = request[q].agent]
    /\ request' = [r \in Request |->
           IF r = q THEN NoRequest
           ELSE IF At(r, "end") /\ request[r].log = request[q].log
           THEN [request[r] EXCEPT !.stale = TRUE]
           ELSE request[r]]
    /\ UNCHANGED <<transfer, failures>>

\* POST hangup completes the row whatever its status; the call log it then
\* writes gets disconnectedBy alone.
Hangup(t) ==
    /\ transfer[t].status # "none"
    /\ transfer' = [transfer EXCEPT ![t].status = "completed"]
    /\ UNCHANGED <<callLog, request, failures>>

-----------------------------------------------------------------------------
(* The events of the call.                                                 *)

\* Mutant of FindLog: every ringing event opens a row.
FindLogRinging(q, event, error) ==
    /\ Idle(q)
    /\ \/ \E l \in Logged :
            /\ event # "ringing"
            /\ request' = [request EXCEPT ![q] = [NoRequest EXCEPT
                !.pc = "handle", !.log = l, !.event = event, !.error = error]]
       \/ /\ Logged = {} \/ event = "ringing"
          /\ request' = [request EXCEPT ![q] = [NoRequest EXCEPT
                !.pc = "create", !.event = event, !.error = error]]
    /\ UNCHANGED <<callLog, transfer, failures>>

\* getOrCreateCallLog: some row with the call's id (no order is asked for), or
\* the decision to create one.
FindLog(q, event, error) ==
    /\ Idle(q)
    /\ \/ \E l \in Logged :
            request' = [request EXCEPT ![q] = [NoRequest EXCEPT
                !.pc = "handle", !.log = l, !.event = event, !.error = error]]
       \/ /\ Logged = {}
          /\ request' = [request EXCEPT ![q] = [NoRequest EXCEPT
                !.pc = "create", !.event = event, !.error = error]]
    /\ UNCHANGED <<callLog, transfer, failures>>

CreateLog(q) ==
    /\ At(q, "create")
    /\ \E l \in Log \ Logged :
         /\ SetStatus(l, "ringing")
         /\ request' = [request EXCEPT ![q] = [@ EXCEPT !.pc = "handle", !.log = l]]
    /\ UNCHANGED <<transfer, failures>>

\* After the switch: an error is written in an update of its own.
Handled(q) == IF request[q].error THEN To(q, "fail") ELSE Respond(q)

\* Mutant of Handle: whether the call is being transferred is all that counts.
HandleEndByStatus(q) ==
    /\ At(q, "handle")
    /\ LET l == request[q].log
           read == callLog[l]
       IN CASE request[q].event = "ringing"  -> Handled(q) /\ UNCHANGED callLog
            [] request[q].event = "answered" -> Handled(q) /\ SetStatus(l, "answered")
            [] request[q].event = "missed"   -> Handled(q) /\ SetStatus(l, "missed")
            [] request[q].event = "ended"    ->
                 /\ request' = [request EXCEPT ![q].pc = "end", ![q].stale = FALSE,
                        ![q].final = IF read.status # "transferring"
                                     THEN "missed" ELSE "completed"]
                 /\ UNCHANGED callLog
    /\ UNCHANGED <<transfer, failures>>

\* 'ringing' writes no row (whom it notifies, and the sticky agent it looks up in
\* the cache for that, are left out); 'connect' and 'in_call', 'missed' and 'unanswered'
\* write without a condition; 'ended' and 'terminate' read the row first.
Handle(q) ==
    /\ At(q, "handle")
    /\ LET l == request[q].log
           read == callLog[l]
       IN CASE request[q].event = "ringing"  -> Handled(q) /\ UNCHANGED callLog
            [] request[q].event = "answered" -> Handled(q) /\ SetStatus(l, "answered")
            [] request[q].event = "missed"   -> Handled(q) /\ SetStatus(l, "missed")
            [] request[q].event = "ended"    ->
                 /\ request' = [request EXCEPT ![q].pc = "end", ![q].stale = FALSE,
                        ![q].final = IF read.agent = None /\ read.status # "transferring"
                                     THEN "missed" ELSE "completed"]
                 /\ UNCHANGED callLog
    /\ UNCHANGED <<transfer, failures>>

WriteEnd(q) ==
    /\ At(q, "end")
    /\ SetStatus(request[q].log, request[q].final)
    /\ Handled(q)
    /\ UNCHANGED <<transfer, failures>>

\* The updateMany of an error marks every row of the call.
WriteError(q) ==
    /\ At(q, "fail")
    /\ callLog' = [l \in Log |-> IF l \in Logged THEN [callLog[l] EXCEPT !.status = "failed"]
                                 ELSE callLog[l]]
    /\ Respond(q)
    /\ UNCHANGED <<transfer, failures>>

\* A database call fails and its request answers 500.
CallFails(q) ==
    /\ ~Idle(q)
    /\ failures < MaxFailures
    /\ failures' = failures + 1
    /\ Respond(q)
    /\ UNCHANGED <<callLog, transfer>>

Next ==
    \/ \E q \in Request, t \in Transfer, l \in Log, target \in Member \union {None} :
          CreateTransfer(q, t, l, target)
    \/ \E q \in Request, t \in Transfer, a \in Agent : FindWaiting(q, t, a)
    \/ \E t \in Transfer : Hangup(t)
    \/ \E q \in Request, event \in Event, error \in BOOLEAN : FindLog(q, event, error)
    \/ \E q \in Request :
          \/ MarkTransferring(q) \/ Accept(q) \/ RecordAgent(q) \/ CreateLog(q)
          \/ Handle(q) \/ WriteEnd(q) \/ WriteError(q) \/ CallFails(q)

Spec == Init /\ [][Next]_vars

-----------------------------------------------------------------------------
(* Properties.                                                             *)

\* The rows and requests keep their types.
TypeOK ==
    /\ callLog \in [Log -> LogType]
    /\ transfer \in [Transfer -> TransferType]
    /\ request \in [Request -> RequestType]
    /\ failures \in 0 .. MaxFailures

\* Of the requests that accept one offer at once, one alone goes on to write
\* the call log, and it is the one whose agent the row names, even when the
\* caller hangs up in between.
OneWinner ==
    \A q \in Request : At(q, "record") =>
        LET t == request[q].transfer
        IN /\ transfer[t].connectedAt
           /\ transfer[t].agent = request[q].agent
           /\ transfer[t].log = request[q].log
           /\ \A r \in Request \ {q} : At(r, "record") => request[r].transfer # t

\* The agent of a call log is one who took an offer of that very call: a loser
\* of the race, or an agent who was only named in the offer, never gets there.
LogAgentTookCall ==
    \A l \in Log : callLog[l].agent # None =>
        \E t \in Transfer : /\ transfer[t].log = l
                            /\ transfer[t].connectedAt
                            /\ transfer[t].agent = callLog[l].agent

\* Unless a call failed, an offer that was taken is on its way to the call log
\* or there already.
TakenIsRecorded ==
    failures = 0 =>
        \A t \in Transfer : transfer[t].connectedAt =>
            \/ callLog[transfer[t].log].agent # None
            \/ \E q \in Request : At(q, "record") /\ request[q].transfer = t

\* Finding and creating the log are two calls, so one call may get several
\* logs, but no more than events were handled at the same time: once a log
\* exists, no further event opens one.
LogsBounded ==
    Cardinality(Logged) + Cardinality({q \in Request : At(q, "create")})
        <= Cardinality(Request)

\* A call that is in an agent's hands is set to 'missed' only by an event that
\* says so, or by an end that had read the row before the agent was recorded.
MissedOnlyIfUnseen ==
    [][\A l \in Log :
         (/\ callLog[l].agent # None
          /\ callLog[l].status # "missed"
          /\ callLog'[l].status = "missed") =>
            \E q \in Request :
                /\ request[q].log = l
                /\ \/ At(q, "handle") /\ request[q].event = "missed"
                   \/ At(q, "end") /\ request[q].stale]_vars

\* The transfers are offers that one member takes at most, whatever requests,
\* failures and hang-ups interleave.
TheOffer == INSTANCE CallOffer WITH
    Offer <- Transfer,
    Taker <- Member,
    phase <- [t \in Transfer |-> transfer[t].status],
    taker <- [t \in Transfer |-> IF transfer[t].connectedAt THEN transfer[t].agent ELSE None]

OfferSpec == TheOffer!Spec
=============================================================================
