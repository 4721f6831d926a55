------------------------- MODULE CallTransferProofs -------------------------
(* Proofs about CallTransfer, for any agents, offers, logs and requests.   *)
EXTENDS CallTransfer, FiniteSetTheorems, TLAPS

-----------------------------------------------------------------------------
(* Type correctness.                                                       *)

LEMMA FreshRequest == NoRequest \in RequestType
  BY DEF NoRequest, RequestType, Pcs, Event

LEMMA TypeInit == Init => TypeOK
  BY FreshRequest, CallAssumption
  DEF Init, TypeOK, LogType, LogStatus, TransferType, TransferStatus

\* What the short forms of the actions do to the types.
LEMMA ToType ==
  ASSUME TypeOK, NEW q \in Request, NEW pc \in Pcs, To(q, pc)
  PROVE  request' \in [Request -> RequestType]
  BY DEF TypeOK, To, RequestType

LEMMA RespondType ==
  ASSUME TypeOK, NEW q \in Request, Respond(q)
  PROVE  request' \in [Request -> RequestType]
  BY FreshRequest DEF TypeOK, Respond

LEMMA HandledType ==
  ASSUME TypeOK, NEW q \in Request, Handled(q)
  PROVE  request' \in [Request -> RequestType]
  BY ToType, RespondType DEF Handled, Pcs

LEMMA SetStatusType ==
  ASSUME TypeOK, NEW l \in Log \union {None}, NEW s \in LogStatus, SetStatus(l, s)
  PROVE  callLog' \in [Log -> LogType]
  BY DEF TypeOK, SetStatus, LogType

LEMMA TypeStep == TypeOK /\ [Next]_vars => TypeOK'
<1> SUFFICES ASSUME TypeOK, [Next]_vars PROVE TypeOK'
  OBVIOUS
<1> USE DEF TypeOK
<1>0. \A q \in Request : request[q] \in RequestType /\ request[q].log \in Log \union {None}
  BY DEF RequestType
<1>1. ASSUME NEW q \in Request, NEW t \in Transfer, NEW l \in Log,
             NEW target \in Member \union {None}, CreateTransfer(q, t, l, target)
      PROVE TypeOK'
  <2>1. [NoRequest EXCEPT !.pc = "mark", !.log = l] \in RequestType
    BY FreshRequest DEF RequestType, Pcs
  <2>2. [status |-> "waiting", agent |-> target, connectedAt |-> FALSE, log |-> l]
          \in TransferType
    BY CallAssumption DEF TransferType, TransferStatus
  <2> QED
    BY <1>1, <2>1, <2>2 DEF CreateTransfer
<1>2. ASSUME NEW q \in Request, NEW t \in Transfer, NEW a \in Agent, FindWaiting(q, t, a)
      PROVE TypeOK'
  <2>1. transfer[t].log \in Log \union {None}
    BY DEF TransferType
  <2>2. [NoRequest EXCEPT !.pc = "accept", !.agent = a, !.transfer = t,
                          !.log = transfer[t].log] \in RequestType
    BY FreshRequest, <2>1 DEF RequestType, Pcs
  <2> QED
    BY <1>2, <2>2 DEF FindWaiting
<1>3. ASSUME NEW t \in Transfer, Hangup(t) PROVE TypeOK'
  BY <1>3 DEF Hangup, TransferType, TransferStatus
<1>4. ASSUME NEW q \in Request, NEW event \in Event, NEW error \in BOOLEAN,
             FindLog(q, event, error)
      PROVE TypeOK'
  <2>1. [NoRequest EXCEPT !.pc = "create", !.event = event, !.error = error] \in RequestType
    BY FreshRequest DEF RequestType, Pcs
  <2>2. \A l \in Log : [NoRequest EXCEPT !.pc = "handle", !.log = l, !.event = event,
                                         !.error = error] \in RequestType
    BY FreshRequest DEF RequestType, Pcs
  <2> QED
    BY <1>4, <2>1, <2>2 DEF FindLog, Logged
<1>5. ASSUME NEW q \in Request, MarkTransferring(q) PROVE TypeOK'
  BY <1>0, <1>5, RespondType, SetStatusType DEF MarkTransferring, LogStatus
<1>6. ASSUME NEW q \in Request, Accept(q) PROVE TypeOK'
  <2>1. request[q].agent \in Agent \union {None}
    BY DEF RequestType
  <2>2. Connected(q) => transfer' \in [Transfer -> TransferType]
    <3> SUFFICES ASSUME Connected(q), NEW t \in Transfer PROVE transfer'[t] \in TransferType
      BY DEF Connected
    <3>1. transfer[t] \in TransferType
      OBVIOUS
    <3>2. [transfer[t] EXCEPT !.status = "connected", !.agent = request[q].agent,
                              !.connectedAt = TRUE] \in TransferType
      BY <2>1, <3>1 DEF TransferType, TransferStatus
    <3>3. \/ transfer'[t] = transfer[t]
          \/ transfer'[t] = [transfer[t] EXCEPT !.status = "connected",
                                                !.agent = request[q].agent,
                                                !.connectedAt = TRUE]
      BY <3>1 DEF Connected
    <3> QED
      BY <3>1, <3>2, <3>3
  <2>3. request' \in [Request -> RequestType]
    BY <1>6, ToType, RespondType DEF Accept, Pcs
  <2> QED
    BY <1>6, <2>2, <2>3 DEF Accept
<1>7. ASSUME NEW q \in Request, RecordAgent(q) PROVE TypeOK'
  <2>1. request[q].agent \in Agent \union {None}
    BY DEF RequestType
  <2>2. callLog' \in [Log -> LogType]
    BY <1>7, <2>1 DEF RecordAgent, LogType
  <2>3. request' \in [Request -> RequestType]
    BY <1>7, FreshRequest DEF RecordAgent, RequestType
  <2> QED
    BY <1>7, <2>2, <2>3 DEF RecordAgent
<1>8. ASSUME NEW q \in Request, CreateLog(q) PROVE TypeOK'
  <2>1. callLog' \in [Log -> LogType]
    BY <1>8, SetStatusType DEF CreateLog, LogStatus
  <2>2. request' \in [Request -> RequestType]
    <3>1. PICK l \in Log : request' = [request EXCEPT ![q] = [request[q] EXCEPT !.pc = "handle", !.log = l]]
      BY <1>8 DEF CreateLog
    <3>2. [request[q] EXCEPT !.pc = "handle", !.log = l] \in RequestType
      BY DEF RequestType, Pcs
    <3> QED
      BY <3>1, <3>2
  <2> QED
    BY <1>8, <2>1, <2>2 DEF CreateLog
<1>9. ASSUME NEW q \in Request, Handle(q) PROVE TypeOK'
  <2>1. callLog' \in [Log -> LogType]
    <3>1. request[q].event \in Event
      BY DEF RequestType
    <3>2. \/ UNCHANGED callLog
          \/ SetStatus(request[q].log, "answered")
          \/ SetStatus(request[q].log, "missed")
      BY <1>9, <3>1 DEF Handle, Event
    <3> QED
      BY <1>0, <3>2, SetStatusType DEF LogStatus
  <2>2. request' \in [Request -> RequestType]
    <3>1. request[q].event \in Event
      BY DEF RequestType
    <3>2. CASE request[q].event = "ended"
      BY <1>9, <3>2 DEF Handle, RequestType, Pcs
    <3>3. CASE request[q].event # "ended"
      BY <1>9, <3>1, <3>3, HandledType DEF Handle, Event
    <3> QED
      BY <3>2, <3>3
  <2> QED
    BY <1>9, <2>1, <2>2 DEF Handle
<1>10. ASSUME NEW q \in Request, WriteEnd(q) PROVE TypeOK'
  <2>1. request[q].final \in LogStatus
    BY DEF RequestType, LogStatus
  <2> QED
    BY <1>0, <1>10, <2>1, HandledType, SetStatusType DEF WriteEnd
<1>11. ASSUME NEW q \in Request, WriteError(q) PROVE TypeOK'
  <2>1. callLog' \in [Log -> LogType]
    BY <1>11 DEF WriteError, LogType, LogStatus
  <2> QED
    BY <1>11, <2>1, RespondType DEF WriteError
<1>12. ASSUME NEW q \in Request, CallFails(q) PROVE TypeOK'
  BY <1>12, RespondType, CallAssumption DEF CallFails
<1>13. CASE UNCHANGED vars
  BY <1>13 DEF vars
<1> QED
  BY <1>1, <1>2, <1>3, <1>4, <1>5, <1>6, <1>7, <1>8, <1>9, <1>10, <1>11, <1>12, <1>13 DEF Next

\* The call system stays within its types.
THEOREM CallTypes == Spec => []TypeOK
  BY TypeInit, TypeStep, PTL DEF Spec

-----------------------------------------------------------------------------
(* One agent takes an offer.                                               *)

\* An offer that was made belongs to a log; only a made offer has been taken,
\* and by a member; one that waits has not.
RowsSound ==
    \A t \in Transfer :
        /\ transfer[t].status # "none" => transfer[t].log \in Log
        /\ transfer[t].connectedAt => /\ transfer[t].status \in {"connected", "completed"}
                                      /\ transfer[t].agent \in Member

\* A request on its way to accept holds an offer that was made, and its log.
RequestsSound ==
    \A q \in Request : At(q, "accept") \/ At(q, "record") =>
        /\ request[q].transfer \in Transfer
        /\ transfer[request[q].transfer].status # "none"
        /\ request[q].log = transfer[request[q].transfer].log
        /\ request[q].agent \in Member

WinnerInv == TypeOK /\ RowsSound /\ RequestsSound /\ OneWinner

LEMMA WinnerInit == Init => WinnerInv
<1> SUFFICES ASSUME Init PROVE WinnerInv
  OBVIOUS
<1>1. \A q \in Request : request[q].pc = "idle"
  BY DEF Init, NoRequest
<1> QED
  BY <1>1, TypeInit DEF Init, WinnerInv, RowsSound, RequestsSound, OneWinner, At

\* What a step that leaves the offers alone has to show: the requests that hold
\* an offer are those that held it.
LEMMA HoldersStay ==
  ASSUME WinnerInv, TypeOK', UNCHANGED transfer,
         \A q \in Request : At(q, "accept")' \/ At(q, "record")' =>
            /\ request'[q].pc = request[q].pc
            /\ request'[q].transfer = request[q].transfer
            /\ request'[q].agent = request[q].agent
            /\ request'[q].log = request[q].log
  PROVE  WinnerInv'
<1>1. RowsSound'
  BY DEF WinnerInv, RowsSound
<1>2. RequestsSound'
  BY DEF WinnerInv, RequestsSound, At
<1>3. OneWinner'
  BY DEF WinnerInv, OneWinner, At
<1> QED
  BY <1>1, <1>2, <1>3 DEF WinnerInv

LEMMA WinnerStep == WinnerInv /\ [Next]_vars => WinnerInv'
<1> SUFFICES ASSUME WinnerInv, [Next]_vars PROVE WinnerInv'
  OBVIOUS
<1>0. TypeOK /\ TypeOK'
  BY TypeStep DEF WinnerInv
<1> USE DEF At, NoRequest, Respond, To
<1>1. ASSUME NEW q \in Request, NEW t \in Transfer, NEW l \in Log,
             NEW target \in Member \union {None}, CreateTransfer(q, t, l, target)
      PROVE WinnerInv'
  <2>1. RowsSound'
    BY <1>0, <1>1 DEF CreateTransfer, WinnerInv, TypeOK, RowsSound
  <2>2. \A r \in Request : At(r, "accept")' \/ At(r, "record")' =>
            r # q /\ request'[r] = request[r] /\ request[r].transfer # t
    BY <1>0, <1>1 DEF CreateTransfer, WinnerInv, TypeOK, RequestsSound
  <2>3. RequestsSound'
    BY <1>0, <1>1, <2>2 DEF CreateTransfer, WinnerInv, TypeOK, RequestsSound
  <2>4. OneWinner'
    BY <1>0, <1>1, <2>2 DEF CreateTransfer, WinnerInv, TypeOK, OneWinner, RequestsSound
  <2> QED
    BY <1>0, <2>1, <2>3, <2>4 DEF WinnerInv
<1>2. ASSUME NEW q \in Request, NEW t \in Transfer, NEW a \in Agent, FindWaiting(q, t, a)
      PROVE WinnerInv'
  <2>1. RowsSound'
    BY <1>2 DEF FindWaiting, WinnerInv, RowsSound
  <2>2. RequestsSound'
    BY <1>0, <1>2 DEF FindWaiting, WinnerInv, TypeOK, RequestsSound
  <2>3. OneWinner'
    BY <1>0, <1>2 DEF FindWaiting, WinnerInv, TypeOK, OneWinner
  <2> QED
    BY <1>0, <2>1, <2>2, <2>3 DEF WinnerInv
<1>3. ASSUME NEW t \in Transfer, Hangup(t) PROVE WinnerInv'
  <2>1. \A u \in Transfer : /\ transfer'[u].log = transfer[u].log
                            /\ transfer'[u].agent = transfer[u].agent
                            /\ transfer'[u].connectedAt = transfer[u].connectedAt
                            /\ transfer'[u].status \in {transfer[u].status, "completed"}
                            /\ transfer[u].status = "none" => transfer'[u].status = "none"
    BY <1>0, <1>3 DEF Hangup, TypeOK, TransferType
  <2>2. RowsSound'
    BY <1>3, <2>1 DEF Hangup, WinnerInv, RowsSound
  <2>3. RequestsSound'
    BY <1>3, <2>1 DEF Hangup, WinnerInv, RequestsSound
  <2>4. OneWinner'
    BY <1>3, <2>1 DEF Hangup, WinnerInv, OneWinner, RequestsSound
  <2> QED
    BY <1>0, <2>2, <2>3, <2>4 DEF WinnerInv
<1>4. ASSUME NEW q \in Request, NEW event \in Event, NEW error \in BOOLEAN,
             FindLog(q, event, error)
      PROVE WinnerInv'
  BY <1>0, <1>4, HoldersStay DEF FindLog, TypeOK
<1>5. ASSUME NEW q \in Request, MarkTransferring(q) PROVE WinnerInv'
  BY <1>0, <1>5, HoldersStay DEF MarkTransferring, TypeOK
<1>6. ASSUME NEW q \in Request, Accept(q) PROVE WinnerInv'
  <2> DEFINE t == request[q].transfer
  <2>1. t \in Transfer /\ request[q].agent \in Member /\ request[q].log = transfer[t].log
    BY <1>6 DEF Accept, WinnerInv, RequestsSound
  <2>2. CASE transfer[t].status = "waiting"
    <3>1. Connected(q) /\ To(q, "record")
      BY <1>6, <2>2 DEF Accept
    <3>2. /\ transfer'[t].log = transfer[t].log
          /\ transfer'[t].status = "connected"
          /\ transfer'[t].agent = request[q].agent
          /\ transfer'[t].connectedAt = TRUE
          /\ \A u \in Transfer \ {t} : transfer'[u] = transfer[u]
      BY <1>0, <2>1, <3>1 DEF Connected, TypeOK, TransferType
    <3>3. /\ request'[q].pc = "record" /\ request'[q].transfer = t
          /\ request'[q].agent = request[q].agent /\ request'[q].log = request[q].log
          /\ \A r \in Request \ {q} : request'[r] = request[r]
      BY <1>0, <3>1 DEF TypeOK, RequestType
    <3>4. transfer[t].log \in Log
      BY <2>1, <2>2 DEF WinnerInv, RowsSound
    <3>5. RowsSound'
      BY <2>1, <3>2, <3>4 DEF WinnerInv, RowsSound
    <3>6. RequestsSound'
      BY <1>6, <2>1, <3>2, <3>3 DEF WinnerInv, RequestsSound
    <3>7. \A r \in Request : At(r, "record") => request[r].transfer # t
      BY <2>1, <2>2 DEF WinnerInv, RowsSound, OneWinner
    <3>8. OneWinner'
      BY <2>1, <3>2, <3>3, <3>7 DEF WinnerInv, OneWinner, RequestsSound
    <3> QED
      BY <1>0, <3>5, <3>6, <3>8 DEF WinnerInv
  <2>3. CASE transfer[t].status # "waiting"
    BY <1>0, <1>6, <2>3, HoldersStay DEF Accept, TypeOK
  <2> QED
    BY <2>2, <2>3
<1>7. ASSUME NEW q \in Request, RecordAgent(q) PROVE WinnerInv'
  BY <1>0, <1>7, HoldersStay DEF RecordAgent, TypeOK, RequestType
<1>8. ASSUME NEW q \in Request, CreateLog(q) PROVE WinnerInv'
  <2>1. PICK l \in Log : request' = [request EXCEPT ![q] = [request[q] EXCEPT !.pc = "handle", !.log = l]]
    BY <1>8 DEF CreateLog
  <2> QED
    BY <1>0, <1>8, <2>1, HoldersStay DEF CreateLog, TypeOK, RequestType
<1>9. ASSUME NEW q \in Request, Handle(q) PROVE WinnerInv'
  <2>1. request[q].event \in Event
    BY <1>0 DEF TypeOK, RequestType
  <2>2. CASE request[q].event = "ended"
    BY <1>0, <1>9, <2>2, HoldersStay DEF Handle, TypeOK, RequestType
  <2>3. CASE request[q].event # "ended"
    <3>1. Handled(q) /\ UNCHANGED transfer
      BY <1>9, <2>1, <2>3 DEF Handle, Event
    <3> QED
      BY <1>0, <3>1, HoldersStay DEF Handled, TypeOK, RequestType
  <2> QED
    BY <2>2, <2>3
<1>10. ASSUME NEW q \in Request, WriteEnd(q) PROVE WinnerInv'
  BY <1>0, <1>10, HoldersStay DEF WriteEnd, Handled, TypeOK, RequestType
<1>11. ASSUME NEW q \in Request, WriteError(q) PROVE WinnerInv'
  BY <1>0, <1>11, HoldersStay DEF WriteError, TypeOK
<1>12. ASSUME NEW q \in Request, CallFails(q) PROVE WinnerInv'
  BY <1>0, <1>12, HoldersStay DEF CallFails, TypeOK
<1>13. CASE UNCHANGED vars
  BY <1>0, <1>13, HoldersStay DEF vars
<1> QED
  BY <1>1, <1>2, <1>3, <1>4, <1>5, <1>6, <1>7, <1>8, <1>9, <1>10, <1>11, <1>12, <1>13 DEF Next

\* However many requests accept an offer at once, one alone goes on to write
\* the call log.
THEOREM WinnerCorrect == Spec => []OneWinner
<1>1. WinnerInv => OneWinner
  BY DEF WinnerInv
<1> QED
  BY WinnerInit, WinnerStep, <1>1, PTL DEF Spec

-----------------------------------------------------------------------------
(* The transfers implement CallOffer.                                      *)

LEMMA OfferInit == Init => TheOffer!Init
  BY DEF Init, TheOffer!Init

\* A step that touches one row touches one offer.
LEMMA OfferStep == WinnerInv /\ [Next]_vars => [TheOffer!Next]_TheOffer!offerVars
<1> SUFFICES ASSUME WinnerInv, [Next]_vars PROVE [TheOffer!Next]_TheOffer!offerVars
  OBVIOUS
<1>0. transfer \in [Transfer -> TransferType]
  BY DEF WinnerInv, TypeOK
<1>1. CASE UNCHANGED transfer
  BY <1>1 DEF TheOffer!offerVars
<1>2. ASSUME NEW q \in Request, NEW t \in Transfer, NEW l \in Log,
             NEW target \in Member \union {None}, CreateTransfer(q, t, l, target)
      PROVE TheOffer!Next
  <2>1. ~transfer[t].connectedAt
    BY <1>2 DEF CreateTransfer, WinnerInv, RowsSound
  <2>2. TheOffer!Make(t)
    BY <1>0, <1>2, <2>1 DEF CreateTransfer, TheOffer!Make
  <2> QED
    BY <2>2 DEF TheOffer!Next
<1>3. ASSUME NEW t \in Transfer, Hangup(t) PROVE TheOffer!Next
  <2>1. /\ transfer'[t].status = "completed"
        /\ transfer'[t].agent = transfer[t].agent
        /\ transfer'[t].connectedAt = transfer[t].connectedAt
        /\ \A u \in Transfer \ {t} : transfer'[u] = transfer[u]
    BY <1>0, <1>3 DEF Hangup, TransferType
  <2>3. [u \in Transfer |-> IF transfer'[u].connectedAt THEN transfer'[u].agent ELSE None]
          = [u \in Transfer |-> IF transfer[u].connectedAt THEN transfer[u].agent ELSE None]
    <3> SUFFICES ASSUME NEW u \in Transfer
                 PROVE  (IF transfer'[u].connectedAt THEN transfer'[u].agent ELSE None)
                          = IF transfer[u].connectedAt THEN transfer[u].agent ELSE None
      OBVIOUS
    <3> QED
      BY <2>1, Zenon
  <2>4. [u \in Transfer |-> transfer'[u].status]
          = [[u \in Transfer |-> transfer[u].status] EXCEPT ![t] = "completed"]
    BY <2>1
  <2>2. TheOffer!Close(t)
    BY <1>3, <2>3, <2>4 DEF Hangup, TheOffer!Close
  <2> QED
    BY <2>2 DEF TheOffer!Next
<1>4. ASSUME NEW q \in Request, Accept(q), ~UNCHANGED transfer PROVE TheOffer!Next
  <2>1. PICK t \in Transfer, a \in Member : t = request[q].transfer /\ a = request[q].agent
    BY <1>4 DEF Accept, WinnerInv, RequestsSound
  <2>2. transfer[t].status = "waiting" /\ Connected(q)
    BY <1>4, <2>1 DEF Accept
  <2>3. /\ transfer'[t].status = "connected"
        /\ transfer'[t].agent = a
        /\ transfer'[t].connectedAt = TRUE
        /\ \A u \in Transfer \ {t} : transfer'[u] = transfer[u]
    BY <1>0, <2>1, <2>2 DEF Connected, TransferType
  <2>4. TheOffer!Take(t, a)
    BY <2>2, <2>3 DEF TheOffer!Take
  <2> QED
    BY <2>4 DEF TheOffer!Next
<1> QED
  BY <1>1, <1>2, <1>3, <1>4
  DEF Next, vars, FindWaiting, FindLog, MarkTransferring, RecordAgent, CreateLog, Handle,
      WriteEnd, WriteError, CallFails

\* An offered call is taken by one member of the team at most, who keeps it,
\* and never after it was hung up.
THEOREM CallImplementsOffer == Spec => OfferSpec
  BY WinnerInit, WinnerStep, OfferInit, OfferStep, PTL DEF Spec, OfferSpec, TheOffer!Spec

-----------------------------------------------------------------------------
(* The agent of the call log.                                              *)

LogInv == WinnerInv /\ LogAgentTookCall /\ TakenIsRecorded

LEMMA LogInit == Init => LogInv
  BY WinnerInit DEF Init, LogInv, LogAgentTookCall, TakenIsRecorded

\* SetStatus leaves the agents.
LEMMA SetStatusLeavesAgent ==
  ASSUME TypeOK, NEW k, NEW s, SetStatus(k, s), NEW l \in Log
  PROVE  callLog'[l].agent = callLog[l].agent
  BY DEF TypeOK, LogType, SetStatus

\* The calls that write the status of a log leave its agent.
LEMMA StatusLeavesAgent ==
  ASSUME TypeOK, NEW q \in Request, NEW l \in Log
  PROVE  (CreateLog(q) \/ Handle(q) \/ MarkTransferring(q) \/ WriteEnd(q) \/ WriteError(q))
            => callLog'[l].agent = callLog[l].agent
<1> USE DEF TypeOK, LogType, SetStatus
<1>1. ASSUME Handle(q) PROVE callLog'[l].agent = callLog[l].agent
  <2>1. request[q].event \in Event
    BY DEF RequestType
  <2>2. \/ UNCHANGED callLog
        \/ \E s \in {"answered", "missed"} : SetStatus(request[q].log, s)
    BY <1>1, <2>1 DEF Handle, Event
  <2> HIDE DEF TypeOK, SetStatus
  <2> QED
    BY <2>2, SetStatusLeavesAgent
<1>2. ASSUME CreateLog(q) PROVE callLog'[l].agent = callLog[l].agent
  BY <1>2 DEF CreateLog
<1>3. ASSUME MarkTransferring(q) \/ WriteEnd(q) \/ WriteError(q)
      PROVE callLog'[l].agent = callLog[l].agent
  BY <1>3 DEF MarkTransferring, WriteEnd, WriteError
<1> QED
  BY <1>1, <1>2, <1>3

\* Only RecordAgent gives a log an agent, and no step takes it away.
LEMMA AgentKept ==
  ASSUME TypeOK, [Next]_vars, NEW l \in Log
  PROVE  \/ callLog'[l].agent = callLog[l].agent
         \/ \E q \in Request : RecordAgent(q)
<1>1. CASE UNCHANGED vars
  BY <1>1 DEF vars
<1>2. CASE Next
  BY <1>2, StatusLeavesAgent
  DEF Next, CreateTransfer, FindWaiting, Hangup, FindLog, Accept, CallFails
<1> QED
  BY <1>1, <1>2

\* A taken offer stays taken, by the same agent and for the same log.
LEMMA TakenStays ==
  ASSUME WinnerInv, [Next]_vars, NEW t \in Transfer, transfer[t].connectedAt
  PROVE  /\ transfer'[t].connectedAt
         /\ transfer'[t].agent = transfer[t].agent
         /\ transfer'[t].log = transfer[t].log
<1>0. transfer \in [Transfer -> TransferType] /\ transfer[t].status \in {"connected", "completed"}
  BY DEF WinnerInv, TypeOK, RowsSound
<1>1. ASSUME NEW q \in Request, NEW u \in Transfer, NEW l \in Log,
             NEW target \in Member \union {None}, CreateTransfer(q, u, l, target)
      PROVE transfer'[t] = transfer[t]
  BY <1>0, <1>1 DEF CreateTransfer
<1>2. ASSUME NEW u \in Transfer, Hangup(u)
      PROVE /\ transfer'[t].connectedAt
            /\ transfer'[t].agent = transfer[t].agent
            /\ transfer'[t].log = transfer[t].log
  BY <1>0, <1>2 DEF Hangup, TransferType
<1>3. ASSUME NEW q \in Request, Accept(q) PROVE transfer'[t] = transfer[t]
  BY <1>0, <1>3 DEF Accept, Connected
<1> QED
  BY <1>1, <1>2, <1>3
  DEF Next, vars, FindWaiting, FindLog, MarkTransferring, RecordAgent, CreateLog, Handle,
      WriteEnd, WriteError, CallFails

\* The count of failures only grows.
LEMMA FailuresGrow ==
  ASSUME TypeOK, [Next]_vars
  PROVE  failures' \in {failures, failures + 1}
<1>1. ASSUME UNCHANGED failures PROVE failures' \in {failures, failures + 1}
  BY <1>1
<1>2. CASE UNCHANGED vars
  BY <1>1, <1>2 DEF vars
<1>3. CASE Next
  BY <1>1, <1>3
  DEF Next, CreateTransfer, FindWaiting, Hangup, FindLog, Accept, CallFails,
      MarkTransferring, RecordAgent, CreateLog, Handle, WriteEnd, WriteError
<1> QED
  BY <1>2, <1>3

\* A request that is to record an agent stays so until it does, or fails.
LEMMA RecorderStays ==
  ASSUME TypeOK, [Next]_vars, NEW q \in Request, At(q, "record")
  PROVE  \/ request'[q].pc = "record" /\ request'[q].transfer = request[q].transfer
         \/ RecordAgent(q)
         \/ CallFails(q)
<1> USE DEF TypeOK, At, To, Respond
<1> DEFINE Stays == request'[q].pc = "record" /\ request'[q].transfer = request[q].transfer
<1>2. ASSUME NEW r \in Request, RecordAgent(r), r # q PROVE Stays
  BY <1>2 DEF RecordAgent, RequestType
<1>3. ASSUME NEW r \in Request, NEW t \in Transfer, NEW l \in Log,
             NEW target \in Member \union {None}, CreateTransfer(r, t, l, target)
      PROVE Stays
  BY <1>3 DEF CreateTransfer, Idle
<1>4. ASSUME NEW r \in Request, NEW t \in Transfer, NEW a \in Agent, FindWaiting(r, t, a)
      PROVE Stays
  BY <1>4 DEF FindWaiting, Idle
<1>5. ASSUME NEW r \in Request, NEW event \in Event, NEW error \in BOOLEAN,
             FindLog(r, event, error)
      PROVE Stays
  BY <1>5 DEF FindLog, Idle
<1>6. ASSUME NEW t \in Transfer, Hangup(t) PROVE Stays
  BY <1>6 DEF Hangup
<1>7. ASSUME NEW r \in Request, Handle(r) PROVE Stays
  <2>1. r # q /\ request[r].event \in Event
    BY <1>7 DEF Handle, RequestType
  <2> QED
    BY <1>7, <2>1 DEF Handle, Handled, Event
<1>8. ASSUME NEW r \in Request,
             MarkTransferring(r) \/ Accept(r) \/ CreateLog(r) \/ WriteEnd(r) \/ WriteError(r)
      PROVE Stays
  BY <1>8 DEF MarkTransferring, Accept, CreateLog, WriteEnd, WriteError, Handled
<1>9. ASSUME NEW r \in Request, CallFails(r), r # q PROVE Stays
  BY <1>9 DEF CallFails
<1>10. CASE UNCHANGED vars
  BY <1>10 DEF vars
<1> QED
  BY <1>2, <1>3, <1>4, <1>5, <1>6, <1>7, <1>8, <1>9, <1>10 DEF Next

LEMMA LogStep == LogInv /\ [Next]_vars => LogInv'
<1> SUFFICES ASSUME LogInv, [Next]_vars PROVE LogInv'
  OBVIOUS
<1>0. WinnerInv /\ WinnerInv' /\ TypeOK /\ TypeOK'
  BY WinnerStep DEF LogInv, WinnerInv
<1>1. LogAgentTookCall'
  <2> SUFFICES ASSUME NEW l \in Log, callLog'[l].agent # None
               PROVE \E t \in Transfer : /\ transfer'[t].log = l
                                         /\ transfer'[t].connectedAt
                                         /\ transfer'[t].agent = callLog'[l].agent
    BY DEF LogAgentTookCall
  <2>1. CASE callLog'[l].agent = callLog[l].agent
    BY <1>0, <2>1, TakenStays DEF LogInv, LogAgentTookCall
  <2>2. CASE callLog'[l].agent # callLog[l].agent
    <3>1. PICK q \in Request : RecordAgent(q)
      BY <1>0, <2>2, AgentKept
    <3>2. request[q].log = l /\ callLog'[l].agent = request[q].agent
      BY <1>0, <2>2, <3>1 DEF RecordAgent, TypeOK, LogType
    <3>3. At(q, "record") /\ request[q].transfer \in Transfer
      BY <1>0, <3>1 DEF RecordAgent, WinnerInv, RequestsSound
    <3>4. UNCHANGED transfer
      BY <3>1 DEF RecordAgent
    <3> QED
      BY <1>0, <3>2, <3>3, <3>4 DEF WinnerInv, OneWinner
  <2> QED
    BY <2>1, <2>2
<1>2. TakenIsRecorded'
  <2> SUFFICES ASSUME failures' = 0, NEW t \in Transfer, transfer'[t].connectedAt,
                      callLog'[transfer'[t].log].agent = None
               PROVE \E q \in Request : At(q, "record")' /\ request'[q].transfer = t
    BY DEF TakenIsRecorded
  <2>1. failures = 0 /\ failures' = failures
    BY <1>0, FailuresGrow, CallAssumption DEF TypeOK
  <2>2. transfer'[t].log \in Log
    BY <1>0 DEF WinnerInv, RowsSound
  <2>3. CASE transfer[t].connectedAt
    <3>1. transfer'[t].log = transfer[t].log
      BY <1>0, <2>3, TakenStays
    <3>2. callLog[transfer[t].log].agent = None
      <4>1. CASE callLog'[transfer[t].log].agent = callLog[transfer[t].log].agent
        BY <3>1, <4>1
      <4>2. CASE callLog'[transfer[t].log].agent # callLog[transfer[t].log].agent
        <5>1. PICK r \in Request : RecordAgent(r)
          BY <1>0, <2>2, <3>1, <4>2, AgentKept
        <5>2. request[r].agent \in Member /\ request[r].agent # None
          BY <1>0, <5>1, CallAssumption DEF RecordAgent, WinnerInv, RequestsSound
        <5> QED
          BY <1>0, <2>2, <3>1, <4>2, <5>1, <5>2 DEF RecordAgent, TypeOK, LogType
      <4> QED
        BY <4>1, <4>2
    <3>3. PICK q \in Request : At(q, "record") /\ request[q].transfer = t
      BY <2>1, <2>3, <3>2 DEF LogInv, TakenIsRecorded
    <3>4. request[q].log = transfer[t].log
      BY <1>0, <3>3 DEF WinnerInv, RequestsSound
    <3>5. ~RecordAgent(q)
      <4>1. request[q].agent # None
        BY <1>0, <3>3, CallAssumption DEF WinnerInv, RequestsSound
      <4> QED
        BY <1>0, <2>2, <3>1, <3>4, <4>1 DEF RecordAgent, TypeOK, LogType
    <3>6. ~CallFails(q)
      BY <2>1 DEF CallFails
    <3>7. request'[q].pc = "record" /\ request'[q].transfer = t
      BY <1>0, <3>3, <3>5, <3>6, RecorderStays
    <3> QED
      BY <3>7 DEF At
  <2>4. CASE ~transfer[t].connectedAt
    <3>1. PICK q \in Request : Accept(q) /\ Connected(q) /\ To(q, "record")
      <4>1. ASSUME NEW q \in Request, NEW u \in Transfer, NEW l \in Log,
                   NEW target \in Member \union {None}, CreateTransfer(q, u, l, target)
            PROVE FALSE
        BY <1>0, <2>4, <4>1 DEF CreateTransfer, TypeOK, TransferType
      <4>2. ASSUME NEW u \in Transfer, Hangup(u) PROVE FALSE
        BY <1>0, <2>4, <4>2 DEF Hangup, TypeOK, TransferType
      <4>3. ~UNCHANGED transfer
        BY <2>4
      <4> QED
        BY <4>1, <4>2, <4>3
        DEF Next, vars, FindWaiting, FindLog, Accept, CallFails, MarkTransferring,
            RecordAgent, CreateLog, Handle, WriteEnd, WriteError
    <3>2. request[q].transfer = t
      BY <1>0, <2>4, <3>1 DEF Connected, TypeOK, TransferType
    <3>3. request'[q].pc = "record" /\ request'[q].transfer = request[q].transfer
      BY <1>0, <3>1 DEF To, TypeOK, RequestType
    <3> QED
      BY <3>2, <3>3 DEF At
  <2> QED
    BY <2>3, <2>4
<1> QED
  BY <1>0, <1>1, <1>2 DEF LogInv

\* The agent of a call log took an offer of that call.
THEOREM LogAgentCorrect == Spec => []LogAgentTookCall
<1>1. LogInv => LogAgentTookCall
  BY DEF LogInv
<1> QED
  BY LogInit, LogStep, <1>1, PTL DEF Spec

\* Unless a call failed, a taken offer reaches the call log.
THEOREM RecordedCorrect == Spec => []TakenIsRecorded
<1>1. LogInv => TakenIsRecorded
  BY DEF LogInv
<1> QED
  BY LogInit, LogStep, <1>1, PTL DEF Spec

-----------------------------------------------------------------------------
(* Calls that end as missed.                                               *)

\* A request that is to write a log holds one that exists, and an end that
\* decided "missed" read a row without an agent: if the row has one
\* now, it was recorded since.
EndsSound ==
    \A q \in Request :
        /\ At(q, "mark") \/ At(q, "handle") \/ At(q, "end") => request[q].log \in Logged
        /\ (/\ At(q, "end") /\ request[q].final = "missed"
            /\ callLog[request[q].log].agent # None) => request[q].stale

EndInv == TypeOK /\ EndsSound

LEMMA EndInit == Init => EndInv
<1> SUFFICES ASSUME Init PROVE EndInv
  OBVIOUS
<1>1. \A q \in Request : request[q].pc = "idle"
  BY DEF Init, NoRequest
<1> QED
  BY <1>1, TypeInit DEF EndInv, EndsSound, At

\* No step takes a log away.
LEMMA LoggedGrows ==
  ASSUME TypeOK, [Next]_vars
  PROVE  Logged \subseteq Logged'
<1> SUFFICES ASSUME NEW l \in Log, callLog[l].status # "none" PROVE callLog'[l].status # "none"
  BY DEF Logged
<1> USE DEF TypeOK, LogType, SetStatus
<1>1. ASSUME NEW q \in Request, Handle(q) PROVE callLog'[l].status # "none"
  <2>1. request[q].event \in Event
    BY DEF RequestType
  <2> QED
    BY <1>1, <2>1 DEF Handle, Event
<1>2. ASSUME NEW q \in Request, WriteEnd(q) PROVE callLog'[l].status # "none"
  BY <1>2 DEF WriteEnd, RequestType
<1>3. ASSUME NEW q \in Request, MarkTransferring(q) \/ RecordAgent(q) \/ WriteError(q)
      PROVE callLog'[l].status # "none"
  BY <1>3 DEF MarkTransferring, RecordAgent, WriteError
<1>4. CASE UNCHANGED callLog
  BY <1>4
<1>5. ASSUME NEW q \in Request, CreateLog(q) PROVE callLog'[l].status # "none"
  BY <1>5 DEF CreateLog
<1> QED
  BY <1>1, <1>2, <1>3, <1>4, <1>5
  DEF Next, vars, CreateTransfer, FindWaiting, Hangup, FindLog, Accept, CallFails

LEMMA EndStep == EndInv /\ [Next]_vars => EndInv'
<1> SUFFICES ASSUME EndInv, [Next]_vars PROVE EndInv'
  OBVIOUS
<1>0. TypeOK /\ TypeOK'
  BY TypeStep DEF EndInv
<1>00. Logged \subseteq Logged' /\ Logged \subseteq Log
  BY <1>0, LoggedGrows DEF Logged
<1> SUFFICES ASSUME NEW q \in Request
             PROVE  /\ At(q, "mark")' \/ At(q, "handle")' \/ At(q, "end")' =>
                                  request'[q].log \in Logged'
                    /\ (/\ At(q, "end")' /\ request'[q].final = "missed"
                        /\ callLog'[request'[q].log].agent # None) => request'[q].stale
  BY <1>0 DEF EndInv, EndsSound
<1> DEFINE Sound == /\ At(q, "mark")' \/ At(q, "handle")' \/ At(q, "end")' =>
                                  request'[q].log \in Logged'
                    /\ (/\ At(q, "end")' /\ request'[q].final = "missed"
                        /\ callLog'[request'[q].log].agent # None) => request'[q].stale
<1> USE DEF At, To, Respond, NoRequest
\* A request that is left alone, while no agent is recorded, stays sound.
<1>1. ASSUME request'[q] = request[q], \A l \in Log : callLog'[l].agent = callLog[l].agent
      PROVE  Sound
  BY <1>00, <1>1 DEF EndInv, EndsSound
<1>2. ASSUME request'[q].pc \notin {"mark", "handle", "end"} PROVE Sound
  BY <1>2
<1>3. ASSUME NEW r \in Request, RecordAgent(r) PROVE Sound
  <2>1. CASE r = q
    BY <1>0, <1>3, <2>1 DEF RecordAgent, TypeOK
  <2>2. CASE r # q
    <3>1. /\ request'[q].pc = request[q].pc /\ request'[q].log = request[q].log
          /\ request'[q].final = request[q].final
          /\ request[q].stale => request'[q].stale
      BY <1>0, <1>3, <2>2 DEF RecordAgent, TypeOK, RequestType
    <3>2. CASE request[q].pc = "end" /\ request[q].log = request[r].log
      <4>1. request'[q].stale
        BY <1>0, <1>3, <2>2, <3>2 DEF RecordAgent, TypeOK, RequestType
      <4> QED
        BY <1>00, <3>1, <4>1 DEF EndInv, EndsSound
    <3>3. CASE ~(request[q].pc = "end" /\ request[q].log = request[r].log)
      <4>1. request[q].log \in Log /\ request[q].pc = "end" =>
              callLog'[request[q].log] = callLog[request[q].log]
        BY <1>0, <1>3, <3>3 DEF RecordAgent, TypeOK
      <4> QED
        BY <1>00, <3>1, <4>1 DEF EndInv, EndsSound
    <3> QED
      BY <3>2, <3>3
  <2> QED
    BY <2>1, <2>2
<1>4. ASSUME NEW r \in Request, Handle(r) PROVE Sound
  <2>1. request[r].event \in Event /\ request[r].pc = "handle"
    BY <1>0, <1>4 DEF TypeOK, RequestType, Handle
  <2>2. \A l \in Log : callLog'[l].agent = callLog[l].agent
    BY <1>0, <1>4, StatusLeavesAgent
  <2>3. CASE r # q
    <3>1. request'[q] = request[q]
      BY <1>0, <1>4, <2>1, <2>3 DEF Handle, Handled, TypeOK, Event
    <3> QED
      BY <1>1, <2>2, <3>1
  <2>4. CASE r = q /\ request[r].event = "ended"
    <3>1. UNCHANGED callLog
      BY <1>4, <2>4 DEF Handle
    <3>2. /\ request'[q].log = request[q].log
          /\ request'[q].final = IF /\ callLog[request[q].log].agent = None
                                    /\ callLog[request[q].log].status # "transferring"
                                 THEN "missed" ELSE "completed"
      BY <1>0, <1>4, <2>4 DEF Handle, TypeOK, RequestType
    <3> QED
      BY <1>00, <2>1, <2>4, <3>1, <3>2 DEF EndInv, EndsSound
  <2>5. CASE r = q /\ request[r].event # "ended"
    <3>1. Handled(q)
      BY <1>4, <2>1, <2>5 DEF Handle, Event
    <3>3. request'[q].pc \in {"fail", "idle"}
      BY <1>0, <3>1 DEF Handled, TypeOK, RequestType
    <3> QED
      BY <1>2, <3>3
  <2> QED
    BY <2>3, <2>4, <2>5
<1>5. ASSUME NEW r \in Request, CreateLog(r) PROVE Sound
  <2>1. PICK l \in Log :
           /\ request' = [request EXCEPT ![r] = [request[r] EXCEPT !.pc = "handle", !.log = l]]
           /\ SetStatus(l, "ringing")
    BY <1>5 DEF CreateLog
  <2>5. l \in Logged'
    BY <1>0, <2>1 DEF SetStatus, Logged, TypeOK, LogType
  <2>2. \A k \in Log : callLog'[k].agent = callLog[k].agent
    BY <1>0, <1>5, StatusLeavesAgent
  <2>3. CASE r = q
    BY <1>0, <2>1, <2>3, <2>5 DEF TypeOK, RequestType
  <2>4. CASE r # q
    BY <1>0, <1>1, <2>1, <2>2, <2>4 DEF TypeOK
  <2> QED
    BY <2>3, <2>4
<1>6. ASSUME NEW r \in Request, NEW event \in Event, NEW error \in BOOLEAN,
             FindLog(r, event, error)
      PROVE Sound
  <2>1. CASE r = q
    BY <1>0, <1>00, <1>6, <2>1 DEF FindLog, TypeOK
  <2>2. CASE r # q
    BY <1>0, <1>1, <1>6, <2>2 DEF FindLog, TypeOK
  <2> QED
    BY <2>1, <2>2
<1>7. ASSUME NEW r \in Request, NEW t \in Transfer, NEW l \in Log,
             NEW target \in Member \union {None}, CreateTransfer(r, t, l, target)
      PROVE Sound
  <2>1. CASE r = q
    BY <1>0, <1>00, <1>7, <2>1 DEF CreateTransfer, TypeOK
  <2>2. CASE r # q
    BY <1>0, <1>1, <1>7, <2>2 DEF CreateTransfer, TypeOK
  <2> QED
    BY <2>1, <2>2
<1>8. ASSUME NEW r \in Request, NEW t \in Transfer, NEW a \in Agent, FindWaiting(r, t, a)
      PROVE Sound
  BY <1>0, <1>1, <1>2, <1>8 DEF FindWaiting, TypeOK
<1>9. ASSUME NEW t \in Transfer, Hangup(t) PROVE Sound
  BY <1>1, <1>9 DEF Hangup
<1>10. ASSUME NEW r \in Request, Accept(r) \/ CallFails(r) PROVE Sound
  <2>1. UNCHANGED callLog
    BY <1>10 DEF Accept, CallFails
  <2>2. request'[q] = request[q] \/ request'[q].pc \in {"record", "idle"}
    BY <1>0, <1>10 DEF Accept, CallFails, TypeOK, RequestType
  <2> QED
    BY <1>1, <1>2, <2>1, <2>2
<1>11. ASSUME NEW r \in Request, MarkTransferring(r) \/ WriteEnd(r) \/ WriteError(r)
       PROVE Sound
  <2>1. \A l \in Log : callLog'[l].agent = callLog[l].agent
    BY <1>0, <1>11, StatusLeavesAgent
  <2>2. request'[q] = request[q] \/ request'[q].pc \in {"fail", "idle"}
    BY <1>0, <1>11 DEF MarkTransferring, WriteEnd, WriteError, Handled, TypeOK, RequestType
  <2> QED
    BY <1>1, <1>2, <2>1, <2>2
<1>12. CASE UNCHANGED vars
  BY <1>1, <1>12 DEF vars
<1> QED
  BY <1>3, <1>4, <1>5, <1>6, <1>7, <1>8, <1>9, <1>10, <1>11, <1>12 DEF Next

LEMMA MissedStep ==
  ASSUME EndInv, [Next]_vars, NEW l \in Log, callLog[l].agent # None,
         callLog[l].status # "missed", callLog'[l].status = "missed"
  PROVE  \E q \in Request :
            /\ request[q].log = l
            /\ \/ At(q, "handle") /\ request[q].event = "missed"
               \/ At(q, "end") /\ request[q].stale
<1> USE DEF EndInv, TypeOK, LogType, SetStatus
<1>1. ASSUME NEW q \in Request, Handle(q)
      PROVE  request[q].log = l /\ At(q, "handle") /\ request[q].event = "missed"
  <2>1. request[q].event \in Event
    BY DEF RequestType
  <2> QED
    BY <1>1, <2>1 DEF Handle, Event
<1>2. ASSUME NEW q \in Request, WriteEnd(q)
      PROVE  request[q].log = l /\ At(q, "end") /\ request[q].stale
  BY <1>2 DEF WriteEnd, EndsSound
<1>3. ASSUME NEW q \in Request, MarkTransferring(q) \/ CreateLog(q) PROVE FALSE
  BY <1>3 DEF MarkTransferring, CreateLog
<1>4. ASSUME NEW q \in Request, RecordAgent(q) \/ WriteError(q) PROVE FALSE
  BY <1>4 DEF RecordAgent, WriteError, Logged
<1>5. CASE UNCHANGED callLog
  BY <1>5
<1> QED
  BY <1>1, <1>2, <1>3, <1>4, <1>5
  DEF Next, vars, CreateTransfer, FindWaiting, Hangup, FindLog, Accept, CallFails

\* A call in an agent's hands becomes 'missed' only by an event that says so or
\* by an end that read the row before the agent was recorded.
THEOREM MissedCorrect == Spec => MissedOnlyIfUnseen
<1>1. EndInv /\ [Next]_vars =>
        [\A l \in Log :
           (/\ callLog[l].agent # None
            /\ callLog[l].status # "missed"
            /\ callLog'[l].status = "missed") =>
              \E q \in Request :
                  /\ request[q].log = l
                  /\ \/ At(q, "handle") /\ request[q].event = "missed"
                     \/ At(q, "end") /\ request[q].stale]_vars
  BY MissedStep
<1> QED
  BY EndInit, EndStep, <1>1, PTL DEF Spec, MissedOnlyIfUnseen

-----------------------------------------------------------------------------
(* The logs of one call.                                                   *)

Creators == {q \in Request : At(q, "create")}

\* A step opens a log for one creator, or lets requests become creators while
\* there is no log, or leaves both sets no larger.
LEMMA LogsOrCreators ==
  ASSUME EndInv, [Next]_vars
  PROVE  \/ Logged' \subseteq Logged /\ Creators' \subseteq Creators
         \/ Logged' = {}
         \/ \E q \in Creators, l \in Log :
               Logged' = Logged \union {l} /\ Creators' \subseteq Creators \ {q}
<1>0. TypeOK /\ Logged \subseteq Log
  BY DEF EndInv, Logged
<1> DEFINE NoNew == Logged' \subseteq Logged /\ Creators' \subseteq Creators
<1> USE DEF TypeOK, At, To, Respond, NoRequest, SetStatus
<1>1. ASSUME NEW q \in Request, CreateLog(q)
      PROVE  \E p \in Creators, l \in Log :
               Logged' = Logged \union {l} /\ Creators' \subseteq Creators \ {p}
  <2>1. PICK l \in Log \ Logged :
           /\ callLog' = [callLog EXCEPT ![l].status = "ringing"]
           /\ request' = [request EXCEPT ![q] = [request[q] EXCEPT !.pc = "handle", !.log = l]]
    BY <1>1 DEF CreateLog
  <2>2. Logged' = Logged \union {l}
    BY <1>0, <2>1 DEF Logged, LogType
  <2>3. q \in Creators /\ Creators' \subseteq Creators \ {q}
    BY <1>0, <1>1, <2>1 DEF CreateLog, Creators, RequestType
  <2> QED
    BY <2>2, <2>3
<1>2. ASSUME NEW q \in Request, NEW event \in Event, NEW error \in BOOLEAN,
             FindLog(q, event, error)
      PROVE  NoNew \/ Logged' = {}
  BY <1>0, <1>2 DEF FindLog, Logged, Creators
<1>3. ASSUME NEW q \in Request, NEW t \in Transfer, NEW l \in Log,
             NEW target \in Member \union {None}, CreateTransfer(q, t, l, target)
      PROVE  NoNew
  BY <1>0, <1>3 DEF CreateTransfer, Logged, Creators
<1>4. ASSUME NEW q \in Request, NEW t \in Transfer, NEW a \in Agent, FindWaiting(q, t, a)
      PROVE  NoNew
  BY <1>0, <1>4 DEF FindWaiting, Logged, Creators
<1>5. ASSUME NEW t \in Transfer, Hangup(t) PROVE NoNew
  BY <1>5 DEF Hangup, Logged, Creators
<1>6. ASSUME NEW q \in Request, Accept(q) \/ CallFails(q) PROVE NoNew
  BY <1>0, <1>6 DEF Accept, CallFails, Logged, Creators, RequestType
<1>7. ASSUME NEW k \in Logged, NEW st, SetStatus(k, st)
      PROVE  Logged' \subseteq Logged
  BY <1>0, <1>7 DEF Logged, LogType
<1>8. ASSUME NEW q \in Request, MarkTransferring(q) \/ WriteEnd(q) PROVE NoNew
  <2>1. PICK k \in Logged, st \in LogStatus : SetStatus(k, st)
    BY <1>0, <1>8 DEF MarkTransferring, WriteEnd, EndInv, EndsSound, RequestType, LogStatus
  <2>2. Creators' \subseteq Creators
    BY <1>0, <1>8 DEF MarkTransferring, WriteEnd, Handled, Creators, RequestType
  <2> QED
    BY <1>7, <2>1, <2>2
<1>9. ASSUME NEW q \in Request, Handle(q) PROVE NoNew
  <2>1. request[q].event \in Event /\ request[q].log \in Logged
    BY <1>0, <1>9 DEF Handle, EndInv, EndsSound, RequestType
  <2>2. UNCHANGED callLog \/ \E st \in {"answered", "missed"} : SetStatus(request[q].log, st)
    BY <1>9, <2>1 DEF Handle, Event
  <2>3. Logged' \subseteq Logged
    <3>1. CASE UNCHANGED callLog
      BY <3>1 DEF Logged
    <3>2. ASSUME NEW st, SetStatus(request[q].log, st) PROVE Logged' \subseteq Logged
      BY <1>0, <2>1, <3>2 DEF Logged, LogType
    <3> QED
      BY <2>2, <3>1, <3>2
  <2>4. request'[q].pc # "create" /\ \A r \in Request \ {q} : request'[r] = request[r]
    <3>1. CASE request[q].event = "ended"
      BY <1>0, <1>9, <3>1 DEF Handle, RequestType
    <3>2. CASE request[q].event # "ended"
      <4>1. Handled(q)
        BY <1>9, <2>1, <3>2 DEF Handle, Event
      <4> QED
        BY <1>0, <4>1 DEF Handled, RequestType
    <3> QED
      BY <3>1, <3>2
  <2> QED
    BY <2>3, <2>4 DEF Creators
<1>10. ASSUME NEW q \in Request, RecordAgent(q) PROVE NoNew
  <2>1. Logged' \subseteq Logged
    BY <1>0, <1>10 DEF RecordAgent, Logged, LogType
  <2>2. Creators' \subseteq Creators
    BY <1>0, <1>10 DEF RecordAgent, Creators, RequestType
  <2> QED
    BY <2>1, <2>2
<1>11. ASSUME NEW q \in Request, WriteError(q) PROVE NoNew
  <2>1. Logged' \subseteq Logged
    BY <1>0, <1>11 DEF WriteError, Logged
  <2>2. Creators' \subseteq Creators
    BY <1>0, <1>11 DEF WriteError, Creators, RequestType
  <2> QED
    BY <2>1, <2>2
<1>12. CASE UNCHANGED vars
  BY <1>12 DEF vars, Logged, Creators
<1> QED
  BY <1>1, <1>2, <1>3, <1>4, <1>5, <1>6, <1>8, <1>9, <1>10, <1>11, <1>12 DEF Next

LEMMA LogsStep == EndInv /\ LogsBounded /\ [Next]_vars => LogsBounded'
<1> SUFFICES ASSUME EndInv, LogsBounded, [Next]_vars PROVE LogsBounded'
  OBVIOUS
<1>1. /\ IsFiniteSet(Logged) /\ IsFiniteSet(Logged')
      /\ Cardinality(Logged) \in Nat /\ Cardinality(Logged') \in Nat
  BY FS_Subset, FS_CardinalityType, CallAssumption DEF Logged
<1>2. /\ IsFiniteSet(Creators) /\ IsFiniteSet(Creators')
      /\ Cardinality(Creators) \in Nat /\ Cardinality(Creators') \in Nat
      /\ Cardinality(Creators') <= Cardinality(Request) /\ Cardinality(Request) \in Nat
  BY FS_Subset, FS_CardinalityType, CallAssumption DEF Creators
<1>3. Cardinality(Logged) + Cardinality(Creators) <= Cardinality(Request)
  BY DEF LogsBounded, Creators
<1>4. Cardinality(Logged') + Cardinality(Creators') <= Cardinality(Request)
  <2>1. CASE Logged' \subseteq Logged /\ Creators' \subseteq Creators
    <3>1. /\ Cardinality(Logged') <= Cardinality(Logged)
          /\ Cardinality(Creators') <= Cardinality(Creators)
      BY <1>1, <1>2, <2>1, FS_Subset
    <3> QED
      BY <1>1, <1>2, <1>3, <3>1
  <2>2. CASE Logged' = {}
    BY <1>2, <2>2, FS_EmptySet
  <2>3. ASSUME NEW q \in Creators, NEW l \in Log,
               Logged' = Logged \union {l}, Creators' \subseteq Creators \ {q}
        PROVE  Cardinality(Logged') + Cardinality(Creators') <= Cardinality(Request)
    <3>1. Cardinality(Logged') <= Cardinality(Logged) + 1
      BY <1>1, <2>3, FS_AddElement
    <3>2. /\ IsFiniteSet(Creators \ {q})
          /\ Cardinality(Creators \ {q}) = Cardinality(Creators) - 1
      BY <1>2, FS_RemoveElement
    <3>3. Cardinality(Creators') <= Cardinality(Creators \ {q})
      BY <2>3, <3>2, FS_Subset
    <3> QED
      BY <1>1, <1>2, <1>3, <3>1, <3>2, <3>3
  <2> QED
    BY <2>1, <2>2, <2>3, LogsOrCreators
<1> QED
  BY <1>4 DEF LogsBounded, Creators

LEMMA LogsInit == Init => LogsBounded
<1> SUFFICES ASSUME Init PROVE LogsBounded
  OBVIOUS
<1>1. Logged = {} /\ {q \in Request : At(q, "create")} = {}
  BY DEF Init, Logged, NoRequest, At
<1>2. Cardinality({}) = 0 /\ Cardinality(Request) \in Nat
  BY FS_EmptySet, FS_CardinalityType, CallAssumption
<1> QED
  BY <1>1, <1>2 DEF LogsBounded

\* One call gets no more logs than requests are handled at a time.
THEOREM LogsCorrect == Spec => []LogsBounded
  BY EndInit, EndStep, LogsInit, LogsStep, PTL DEF Spec
=============================================================================
