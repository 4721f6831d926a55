-------------------------- MODULE ConversationProofs --------------------------
(***************************************************************************)
(* Proofs about Conversation and the inbox beside it, for any messages,    *)
(* contacts, requests and failures: what WhatsApp is told is stored is     *)
(* stored, what is unread is shown as unread, and the life of an outgoing  *)
(* message is the one MessageLife describes.                               *)
(***************************************************************************)
EXTENDS Conversation, FiniteSetTheorems, TLAPS

-----------------------------------------------------------------------------
(* The inductive invariant.                                                *)

\* What a request remembers: of the messages it brought it still has some to
\* handle, one of them at hand, for a contact that exists; once it reports or
\* answers there are none left.
RecordSound(r) ==
    /\ r \in RequestType(Report)
    /\ r.todo \subseteq r.batch
    /\ r.pc \in {"store", "flag"} => r.current \in r.todo
    /\ r.pc \in {"store", "flag", "mark", "unflag"} => r.contact \in contacts
    /\ r.pc = "create" => r.current \in r.todo \union {None}
    /\ r.pc = "status" => r.report \in Report
    /\ r.pc \in {"status", "answer"} => r.todo = {}

\* What it has handled is stored, and so is what it is about to flag.
Settled(r) ==
    /\ \A i \in (r.batch \ r.todo) \ Unknown : Kept(i)
    /\ r.pc = "flag" => inbox[r.contact][r.current] # "none"

RequestsSound == \A q \in Request : RecordSound(request[q]) /\ Settled(request[q])

\* Between the two writes of a reader, what is unread came after the first one.
ReadersRace == \A q \in Request : At(q, "unflag") =>
    \A i \in Unread(request[q].contact) : <<request[q].contact, i>> \in raced

\* Whoever creates the contact has found none: once there is one, the creators
\* are those who looked before.
Creators == {q \in Request : At(q, "create")}
CreatorsBounded == Cardinality(contacts) + Cardinality(Creators) <= Cardinality(Request)

InboxInv ==
    /\ RequestsSound /\ AckedIsStored /\ ReadersRace /\ UnreadIsFlagged
    /\ IsFiniteSet(contacts) /\ CreatorsBounded

\* The row of a message and what its job has still to do.
JobSound(m) ==
    /\ message[m].status = "none" => ~message[m].wamid /\ m \notin taken
    /\ message[m].wamid => message[m].status \in {"sent", "failed"}
    /\ job[m] = "send" => message[m].status = "pending" /\ ~message[m].wamid /\ m \notin taken
    /\ job[m] = "store" => message[m].status = "pending" /\ ~message[m].wamid /\ m \in taken
    /\ job[m] = "fail" => message[m].status # "none" /\ m \in blamed

JobsSound == \A m \in Message : JobSound(m)

\* A callback reports a failure only of a message that WhatsApp has blamed.
ReportsSound == \A q \in Request :
    request[q].report # None /\ request[q].report[2] = "failed"
        => request[q].report[1] \in blamed

Inv == TypeOK /\ InboxInv /\ JobsSound /\ ReportsSound /\ PendingHasJob

-----------------------------------------------------------------------------
(* Records of requests.                                                    *)

\* Of a request that has been answered nothing is kept.
LEMMA IdleSound == RecordSound(NoRequest) /\ Settled(NoRequest)
  BY DEF NoRequest, RequestType, Pcs, RecordSound, Settled

\* A callback that has dealt with a message goes on with what it has left.
LEMMA ProceedSound ==
  ASSUME NEW q \in Request, NEW r \in RequestType(Report), r.todo \subseteq r.batch,
         NEW done, Proceed(q, r, done)
  PROVE  \E s : /\ Become(q, s) /\ RecordSound(s)
                /\ s.pc \in {"find", "status", "answer"}
                /\ s.batch = r.batch /\ s.todo = r.todo \ {done} /\ s.report = r.report
<1> DEFINE todo == r.todo \ {done}
           pc == CASE todo # {} -> "find"
                   [] todo = {} /\ r.report # None -> "status"
                   [] OTHER -> "answer"
           s == [r EXCEPT !.todo = todo, !.current = None, !.contact = None, !.pc = pc]
<1>1. /\ pc \in {"find", "status", "answer"}
      /\ pc = "status" => r.report # None
      /\ pc \in {"status", "answer"} => todo = {}
  OBVIOUS
<1>2. todo \subseteq r.batch /\ todo \in SUBSET Inbound
  BY DEF RequestType
<1>p. pc \in Pcs
  BY <1>1 DEF Pcs
<1> HIDE DEF pc
<1>3. /\ s \in RequestType(Report) /\ s.pc = pc /\ s.todo = todo /\ s.batch = r.batch
      /\ s.report = r.report
  BY <1>2, <1>p DEF RequestType
<1>4. RecordSound(s)
  BY <1>1, <1>2, <1>3 DEF RecordSound, RequestType
<1>5. Become(q, s)
  BY DEF Proceed, pc
<1> QED
  BY <1>1, <1>3, <1>4, <1>5

\* A request that only goes on to another call, that has no needs of its own.
LEMMA GoSound ==
  ASSUME NEW r, RecordSound(r), Settled(r), NEW pc \in {"find", "send", "answer"},
         pc = "answer" => r.todo = {}
  PROVE  LET s == [r EXCEPT !.pc = pc] IN RecordSound(s) /\ Settled(s) /\ s.pc = pc
<1> DEFINE s == [r EXCEPT !.pc = pc]
<1>1. s \in RequestType(Report)
  BY DEF RecordSound, RequestType, Pcs
<1>2. s.pc = pc /\ s.todo = r.todo /\ s.batch = r.batch
  BY DEF RecordSound, RequestType
<1> QED
  BY <1>1, <1>2 DEF RecordSound, Settled

\* Initially there is nothing.
LEMMA InitInv == Init => Inv
<1> SUFFICES ASSUME Init PROVE Inv
  OBVIOUS
<1> USE InboxAssumption DEF Init, InboxInit
<1>1. RequestsSound /\ request \in [Request -> RequestType(Report)]
  BY IdleSound DEF RequestsSound, RecordSound
<1>2. InboxTypes(Report)
  BY <1>1 DEF InboxTypes
<1>3. TypeOK
  BY <1>2 DEF TypeOK, MessageType, JobPcs
<1>4. AckedIsStored /\ ReadersRace /\ UnreadIsFlagged
  BY DEF AckedIsStored, ReadersRace, UnreadIsFlagged, At, Unread, NoRequest
<1>5. IsFiniteSet(contacts) /\ CreatorsBounded
  <2>1. Creators = {}
    BY DEF Creators, At, NoRequest
  <2> QED
    BY <2>1, FS_EmptySet, FS_CardinalityType DEF CreatorsBounded
<1>6. JobsSound /\ ReportsSound /\ PendingHasJob
  BY DEF JobsSound, JobSound, ReportsSound, PendingHasJob, NoRequest
<1> QED
  BY <1>1, <1>3, <1>4, <1>5, <1>6 DEF Inv, InboxInv

-----------------------------------------------------------------------------
(* What a step does to the other requests.                                 *)

\* No contact and no row is deleted.
Grows ==
    /\ contacts \subseteq contacts'
    /\ \A c \in contacts, i \in Inbound : inbox[c][i] # "none" => inbox'[c][i] # "none"

\* What is stored stays stored.
LEMMA KeptGrows == ASSUME Grows, NEW i \in Inbound, Kept(i) PROVE Kept(i)'
  BY DEF Grows, Kept

\* A request that changes alone, to a sound record, leaves all of them sound.
LEMMA SoundStep ==
  ASSUME InboxTypes(Report), RequestsSound, Grows, NEW q \in Request, NEW s, Become(q, s),
         RecordSound(s)', Settled(s)'
  PROVE  RequestsSound' /\ request' \in [Request -> RequestType(Report)]
<1>1. request \in [Request -> RequestType(Report)]
  BY DEF InboxTypes
<1>2. s \in RequestType(Report)
  BY DEF RecordSound
<1>3. ASSUME NEW p \in Request, p # q
      PROVE  (RecordSound(request[p]) /\ Settled(request[p]))'
  <2>1. PICK r : r = request[p] /\ r = request'[p]
    BY <1>1, <1>3 DEF Become
  <2>2. RecordSound(r) /\ Settled(r)
    BY <2>1 DEF RequestsSound
  <2>3. RecordSound(r)'
    BY <2>2 DEF RecordSound, Grows
  <2>4. \A i \in (r.batch \ r.todo) \ Unknown : Kept(i)'
    BY <2>2, KeptGrows DEF RecordSound, Settled, RequestType
  <2>5. r.pc = "flag" => inbox'[r.contact][r.current] # "none"
    BY <2>2 DEF RecordSound, Settled, RequestType, Grows
  <2>6. Settled(r)'
    BY <2>4, <2>5 DEF Settled
  <2> QED
    BY <2>1, <2>3, <2>6 DEF RecordSound, Settled
<1>4. request'[q] = s
  BY <1>1 DEF Become
<1>5. (RecordSound(request[q]) /\ Settled(request[q]))'
  BY <1>4 DEF RecordSound, Settled
<1>6. RequestsSound'
  BY <1>3, <1>5 DEF RequestsSound
<1> QED
  BY <1>1, <1>2, <1>6 DEF Become

\* What was acknowledged is still stored, if nothing is acknowledged now.
LEMMA AckedStep ==
  InboxTypes(Report) /\ AckedIsStored /\ Grows /\ UNCHANGED <<acked, skipped>>
    => AckedIsStored'
  BY KeptGrows DEF InboxTypes, AckedIsStored

\* A step that adds neither a contact nor a creator keeps their bound.
LEMMA CreatorsStep ==
  ASSUME IsFiniteSet(contacts), CreatorsBounded, contacts' = contacts, Creators' \subseteq Creators
  PROVE  IsFiniteSet(contacts)' /\ CreatorsBounded'
<1>1. IsFiniteSet(Creators)
  BY FS_Subset, InboxAssumption DEF Creators
<1>2. IsFiniteSet(Creators') /\ Cardinality(Creators') <= Cardinality(Creators)
  BY <1>1, FS_Subset
<1>3. Cardinality(Creators) \in Nat /\ Cardinality(Creators') \in Nat
      /\ Cardinality(contacts) \in Nat /\ Cardinality(Request) \in Nat
  BY <1>1, <1>2, FS_CardinalityType, InboxAssumption
<1> QED
  BY <1>2, <1>3 DEF CreatorsBounded

\* Without a contact there may be as many creators as requests.
LEMMA FirstCreators ==
  ASSUME contacts' = {} PROVE IsFiniteSet(contacts)' /\ CreatorsBounded'
<1>1. Creators' \subseteq Request
  BY DEF Creators
<1>2. IsFiniteSet(Creators') /\ Cardinality(Creators') <= Cardinality(Request)
  BY <1>1, FS_Subset, InboxAssumption
<1>3. Cardinality(Creators') \in Nat /\ Cardinality(Request) \in Nat
  BY <1>2, FS_CardinalityType, InboxAssumption
<1> QED
  BY <1>2, <1>3, FS_EmptySet DEF CreatorsBounded

-----------------------------------------------------------------------------
(* Requests that change their own record only.                             *)

Quiet(q) ==
    /\ UNCHANGED <<tables, raced, skipped>>
    /\ ~At(q, "flag")
    /\ \E s : /\ Become(q, s) /\ RecordSound(s) /\ Settled(s)
              /\ s.pc \notin {"flag", "unflag"}
              /\ s.pc = "create" => contacts = {}

\* Looking for the contact changes the record only.
LEMMA FindQuiet ==
  ASSUME InboxTypes(Report), RequestsSound, NEW q \in Request,
         NEW i \in Inbound \union {None}, FindContact(q, i)
  PROVE  Quiet(q)
<1> DEFINE r == request[q]
<1>1. r.pc = "find" /\ RecordSound(r) /\ Settled(r) /\ UNCHANGED <<tables, raced, skipped>>
  BY DEF FindContact, At, RequestsSound
<1>2. i \in r.todo \/ (i = None /\ r.todo = {})
  BY DEF FindContact
<1>3. ASSUME NEW c \in contacts,
             Become(q, [r EXCEPT !.current = i, !.contact = c,
                            !.pc = IF i = None THEN "send" ELSE "store"])
      PROVE  Quiet(q)
  <2> DEFINE pc == IF i = None THEN "send" ELSE "store"
             s == [r EXCEPT !.current = i, !.contact = c, !.pc = pc]
  <2>0. contacts \subseteq Contact
    BY DEF InboxTypes
  <2>1. pc \in {"send", "store"} /\ (pc = "store" => i \in r.todo)
    BY <1>2
  <2> HIDE DEF pc
  <2>2. /\ s \in RequestType(Report) /\ s.pc = pc /\ s.current = i /\ s.contact = c
        /\ s.todo = r.todo /\ s.batch = r.batch
    BY <1>1, <2>0, <2>1 DEF RecordSound, RequestType, Pcs
  <2>3. RecordSound(s) /\ Settled(s)
    BY <1>1, <2>1, <2>2 DEF RecordSound, Settled
  <2> QED
    BY <1>1, <1>3, <2>1, <2>2, <2>3 DEF Quiet, At, pc
<1>4. ASSUME contacts = {}, Become(q, [r EXCEPT !.current = i, !.pc = "create"])
      PROVE  Quiet(q)
  <2> DEFINE s == [r EXCEPT !.current = i, !.pc = "create"]
  <2>1. /\ s \in RequestType(Report) /\ s.pc = "create" /\ s.current = i
        /\ s.todo = r.todo /\ s.batch = r.batch
    BY <1>1 DEF RecordSound, RequestType, Pcs
  <2>2. RecordSound(s) /\ Settled(s)
    BY <1>1, <1>2, <2>1 DEF RecordSound, Settled
  <2> QED
    BY <1>1, <1>4, <2>1, <2>2 DEF Quiet, At
<1> QED
  BY <1>3, <1>4 DEF FindContact

\* So does a callback that comes in.
LEMMA DeliverQuiet ==
  ASSUME NEW q \in Request, NEW batch \in SUBSET Inbound, NEW report \in Report \union {None},
         Deliver(q, batch, report)
  PROVE  /\ Quiet(q)
         /\ \E s : Become(q, s) /\ s.report = report
<1> DEFINE r == [NoRequest EXCEPT !.batch = batch, !.todo = batch, !.report = report]
<1>1. r \in RequestType(Report) /\ r.batch = batch /\ r.todo = batch /\ r.report = report
  BY IdleSound DEF RecordSound, RequestType, NoRequest
<1>2. PICK s : /\ Become(q, s) /\ RecordSound(s) /\ s.pc \in {"find", "status", "answer"}
               /\ s.batch = batch /\ s.todo = batch \ {None} /\ s.report = report
  <2>1. Proceed(q, r, None)
    BY DEF Deliver
  <2>2. r.todo \subseteq r.batch
    BY <1>1
  <2> HIDE DEF r
  <2> QED
    BY <1>1, <2>1, <2>2, ProceedSound
<1>3. batch \ {None} = batch
  BY InboxAssumption
<1>4. Settled(s)
  BY <1>2, <1>3 DEF Settled
<1> QED
  BY <1>2, <1>4 DEF Quiet, Deliver, At

\* And the first call of a reader or of a template message, and all that a
\* callback does about a report.
LEMMA OtherQuiet ==
  ASSUME InboxTypes(Report), RequestsSound, NEW q \in Request,
         \/ \E c \in Contact : Open(q, c)
         \/ RequestTemplate(q)
         \/ \E m \in Message : CreatePending(q, m)
         \/ ReportUnmatched(q) \/ ReportFailed(q) \/ ReportThrows(q)
  PROVE  Quiet(q)
<1>1. ASSUME NEW c \in Contact, Open(q, c) PROVE Quiet(q)
  <2> DEFINE s == [NoRequest EXCEPT !.pc = "mark", !.contact = c]
  <2>1. s \in RequestType(Report) /\ s.pc = "mark" /\ s.contact = c /\ s.todo = {} /\ s.batch = {}
    BY DEF NoRequest, RequestType, Pcs
  <2>2. RecordSound(s) /\ Settled(s)
    BY <1>1, <2>1 DEF RecordSound, Settled, Open
  <2> QED
    BY <1>1, <2>1, <2>2 DEF Quiet, Open, At
<1>2. ASSUME RequestTemplate(q) PROVE Quiet(q)
  <2>1. NoRequest.todo = {}
    BY DEF NoRequest
  <2> QED
    BY <1>2, <2>1, IdleSound, GoSound DEF Quiet, RequestTemplate, At
<1>3. ASSUME Respond(q), UNCHANGED <<tables, raced, skipped>>, ~At(q, "flag") PROVE Quiet(q)
  BY <1>3, IdleSound DEF Quiet, Respond, NoRequest
<1>4. ASSUME ReportUnmatched(q) \/ ReportFailed(q) PROVE Quiet(q)
  <2>1. To(q, "answer") /\ request[q].pc = "status" /\ UNCHANGED <<tables, raced, skipped>>
    BY <1>4 DEF ReportUnmatched, ReportFailed, At
  <2>2. PICK r : r = request[q]
    OBVIOUS
  <2>3. RecordSound(r) /\ Settled(r) /\ r.todo = {}
    BY <2>1, <2>2 DEF RequestsSound, RecordSound
  <2>4. Become(q, [r EXCEPT !.pc = "answer"])
    BY <2>1, <2>2 DEF To, Become, InboxTypes
  <2> QED
    BY <2>1, <2>3, <2>4, GoSound DEF Quiet, At
<1> QED
  BY <1>1, <1>2, <1>3, <1>4 DEF CreatePending, ReportThrows, At

\* Such a step keeps the invariant of the inbox.
LEMMA QuietInv ==
  ASSUME InboxTypes(Report), InboxInv, NEW q \in Request, Quiet(q)
  PROVE  InboxInv' /\ request' \in [Request -> RequestType(Report)]
<1>1. PICK s : /\ Become(q, s) /\ RecordSound(s) /\ Settled(s)
               /\ s.pc \notin {"flag", "unflag"}
               /\ s.pc = "create" => contacts = {}
  BY DEF Quiet
<1>2. UNCHANGED <<acked, contacts, isRead, inbox, raced, skipped>> /\ ~At(q, "flag")
  BY DEF Quiet, tables
<1>3. Grows
  BY <1>2 DEF Grows
<1>4. RecordSound(s)' /\ Settled(s)'
  BY <1>1, <1>2 DEF RecordSound, Settled, Kept
<1>5. RequestsSound' /\ request' \in [Request -> RequestType(Report)]
  BY <1>1, <1>3, <1>4, SoundStep DEF InboxInv
<1>6. request'[q] = s /\ \A p \in Request : p # q => request'[p] = request[p]
  BY <1>1 DEF Become, InboxTypes
<1>7. AckedIsStored'
  BY <1>2, <1>3, AckedStep DEF InboxInv
<1>8. ReadersRace'
  BY <1>1, <1>2, <1>6 DEF InboxInv, ReadersRace, At, Unread
<1>9. UnreadIsFlagged'
  <2>1. \A p \in Request : HalfStored(p) \subseteq HalfStored(p)'
    BY <1>2, <1>6 DEF HalfStored, At
  <2> QED
    BY <1>2, <2>1 DEF InboxInv, UnreadIsFlagged, Unread
<1>10. IsFiniteSet(contacts)' /\ CreatorsBounded'
  <2>1. CASE contacts = {}
    BY <1>2, <2>1, FirstCreators
  <2>2. CASE contacts # {}
    <3>1. Creators' \subseteq Creators
      BY <1>1, <1>6, <2>2 DEF Creators, At
    <3> QED
      BY <1>2, <3>1, CreatorsStep DEF InboxInv
  <2> QED
    BY <2>1, <2>2
<1> QED
  BY <1>5, <1>7, <1>8, <1>9, <1>10 DEF InboxInv

-----------------------------------------------------------------------------
(* Steps of requests that change what is stored.                           *)

Sure == InboxTypes(Report)' /\ InboxInv'

\* A callback is passed over: what it brought and is not stored is excused.
LEMMA SkipInv ==
  ASSUME InboxTypes(Report), InboxInv, NEW batch \in SUBSET Inbound, Skip(batch)
  PROVE  Sure
<1>1. UNCHANGED <<contacts, isRead, inbox, request, failures, raced>>
  BY DEF Skip
<1>2. /\ acked' = acked \union batch
      /\ skipped' = skipped \union {i \in batch \ Unknown : ~Kept(i)}
  BY DEF Skip
<1>3. AckedIsStored'
  BY <1>1, <1>2 DEF InboxInv, AckedIsStored, Kept
<1>4. RequestsSound' /\ ReadersRace' /\ UnreadIsFlagged' /\ IsFiniteSet(contacts)'
      /\ CreatorsBounded'
  BY <1>1 DEF InboxInv, RequestsSound, RecordSound, Settled, Kept, ReadersRace,
             UnreadIsFlagged, Unread, HalfStored, At, CreatorsBounded, Creators
<1>5. InboxTypes(Report)'
  BY <1>1, <1>2 DEF InboxTypes
<1> QED
  BY <1>3, <1>4, <1>5 DEF Sure, InboxInv

\* A contact is created: one creator less.
LEMMA CreateContactInv ==
  ASSUME InboxTypes(Report), InboxInv, NEW q \in Request, NEW c \in Contact, CreateContact(q, c)
  PROVE  Sure
<1> DEFINE r == request[q]
           pc == IF r.current = None THEN "send" ELSE "store"
           s == [r EXCEPT !.contact = c, !.pc = pc]
<1>1. RecordSound(r) /\ Settled(r) /\ r.pc = "create"
  BY DEF CreateContact, At, InboxInv, RequestsSound
<1>2. /\ c \notin contacts /\ contacts' = contacts \union {c} /\ Become(q, s)
      /\ UNCHANGED <<acked, isRead, inbox, failures, raced, skipped>>
  BY DEF CreateContact
<1>3. pc \in {"send", "store"} /\ (pc = "store" => r.current \in r.todo)
  BY <1>1 DEF RecordSound
<1> HIDE DEF pc
<1>4. /\ s \in RequestType(Report) /\ s.pc = pc /\ s.current = r.current /\ s.contact = c
      /\ s.todo = r.todo /\ s.batch = r.batch
  BY <1>1, <1>3 DEF RecordSound, RequestType, Pcs
<1>5. PICK t : t = s
  OBVIOUS
<1>6. Grows
  BY <1>2 DEF Grows
<1>7. RecordSound(t)'
  BY <1>1, <1>2, <1>3, <1>4, <1>5 DEF RecordSound
<1>8. Settled(t)'
  <2>1. \A i \in (t.batch \ t.todo) \ Unknown : Kept(i)'
    BY <1>1, <1>2, <1>4, <1>5 DEF Settled, Kept
  <2> QED
    BY <2>1, <1>3, <1>4, <1>5 DEF Settled
<1>9. Become(q, t) /\ t.pc \in {"send", "store"}
  BY <1>2, <1>3, <1>4, <1>5
<1> HIDE DEF s, r
<1>10. RequestsSound' /\ request' \in [Request -> RequestType(Report)]
  BY <1>6, <1>7, <1>8, <1>9, SoundStep DEF InboxInv
<1>11. request'[q] = t /\ \A p \in Request : p # q => request'[p] = request[p]
  BY <1>9 DEF Become, InboxTypes
<1>12. AckedIsStored'
  BY <1>2, <1>6, AckedStep DEF InboxInv
<1>13. ReadersRace'
  BY <1>2, <1>9, <1>11 DEF InboxInv, ReadersRace, At, Unread
<1>14. UnreadIsFlagged'
  <2>1. \A p \in Request : HalfStored(p) \subseteq HalfStored(p)'
    BY <1>11 DEF HalfStored, At, CreateContact
  <2> QED
    BY <1>2, <2>1 DEF InboxInv, UnreadIsFlagged, Unread
<1>15. IsFiniteSet(contacts)' /\ CreatorsBounded'
  <2>1. q \in Creators /\ Creators' = Creators \ {q}
    BY <1>9, <1>11 DEF Creators, At, CreateContact
  <2>2. IsFiniteSet(Creators)
    BY FS_Subset, InboxAssumption DEF Creators
  <2>3. IsFiniteSet(contacts)' /\ Cardinality(contacts') = Cardinality(contacts) + 1
    BY <1>2, FS_AddElement DEF InboxInv
  <2>4. Cardinality(Creators') = Cardinality(Creators) - 1
    BY <2>1, <2>2, FS_RemoveElement
  <2>5. Cardinality(Creators) \in Nat /\ Cardinality(contacts) \in Nat /\ Cardinality(Request) \in Nat
    BY <2>2, FS_CardinalityType, InboxAssumption DEF InboxInv
  <2> QED
    BY <2>3, <2>4, <2>5 DEF InboxInv, CreatorsBounded
<1>16. InboxTypes(Report)'
  BY <1>2, <1>10 DEF InboxTypes
<1> QED
  BY <1>10, <1>12, <1>13, <1>14, <1>15, <1>16 DEF Sure, InboxInv

\* A message is stored, or is of a type that is not.
LEMMA StoreInv ==
  ASSUME InboxTypes(Report), InboxInv, NEW q \in Request, Store(q)
  PROVE  Sure
<1>0. PICK r, c, i : r = request[q] /\ c = r.contact /\ i = r.current
  OBVIOUS
<1>1. /\ RecordSound(r) /\ Settled(r) /\ r.pc = "store" /\ r.todo \subseteq r.batch
      /\ c \in contacts /\ c \in Contact /\ i \in r.todo /\ i \in Inbound /\ r \in RequestType(Report)
  BY <1>0 DEF Store, At, InboxInv, RequestsSound, RecordSound, RequestType, InboxTypes
<1>2. UNCHANGED <<acked, contacts, isRead, failures, skipped>>
  BY DEF Store
<1>3. CASE i \in Unknown
  <2>1. Proceed(q, r, i) /\ UNCHANGED <<inbox, raced>>
    BY <1>0, <1>3 DEF Store
  <2>2. PICK s : /\ Become(q, s) /\ RecordSound(s) /\ s.pc \in {"find", "status", "answer"}
                 /\ s.batch = r.batch /\ s.todo = r.todo \ {i}
    BY <1>1, <2>1, ProceedSound
  <2>3. Settled(s)
    BY <1>1, <1>3, <2>2 DEF Settled
  <2>4. Quiet(q)
    BY <1>0, <1>1, <1>2, <2>1, <2>2, <2>3 DEF Quiet, tables, At
  <2>5. InboxInv' /\ request' \in [Request -> RequestType(Report)]
    BY <2>4, QuietInv
  <2> QED
    BY <1>2, <2>1, <2>5 DEF Sure, InboxTypes
<1>4. CASE i \notin Unknown
  <2>1. /\ inbox' = [inbox EXCEPT ![c][i] = "unread"]
        /\ raced' = IF \E p \in Request : At(p, "unflag") /\ request[p].contact = c
                    THEN raced \union {<<c, i>>} ELSE raced
        /\ To(q, "flag")
    BY <1>0, <1>4 DEF Store
  <2>2. PICK s : s = [r EXCEPT !.pc = "flag"]
    OBVIOUS
  <2>3. /\ s \in RequestType(Report) /\ s.pc = "flag" /\ s.current = i /\ s.contact = c
        /\ s.todo = r.todo /\ s.batch = r.batch
    BY <1>0, <1>1, <2>2 DEF RequestType, Pcs
  <2>4. Become(q, s)
    BY <1>0, <2>1, <2>2 DEF To, Become, InboxTypes
  <2>5. inbox' \in [Contact -> [Inbound -> {"none", "unread", "read"}]]
    BY <1>1, <2>1 DEF InboxTypes
  <2>6. /\ inbox'[c][i] = "unread"
        /\ \A d \in Contact, j \in Inbound : d # c \/ j # i => inbox'[d][j] = inbox[d][j]
    BY <1>1, <2>1 DEF InboxTypes
  <2>7. Grows
    BY <1>2, <2>6 DEF Grows, InboxTypes
  <2>8. RecordSound(s)'
    BY <1>1, <1>2, <2>3 DEF RecordSound
  <2>9. Settled(s)'
    <3>1. \A j \in (s.batch \ s.todo) \ Unknown : Kept(j)'
      BY <1>1, <2>3, <2>7, KeptGrows DEF Settled, RequestType
    <3> QED
      BY <2>3, <2>6, <3>1 DEF Settled
  <2>10. RequestsSound' /\ request' \in [Request -> RequestType(Report)]
    BY <2>4, <2>7, <2>8, <2>9, SoundStep DEF InboxInv
  <2>11. request'[q] = s /\ \A p \in Request : p # q => request'[p] = request[p]
    BY <2>4 DEF Become, InboxTypes
  <2>12. AckedIsStored'
    BY <1>2, <2>7, AckedStep DEF InboxInv
  <2>13. raced \subseteq raced'
    BY <2>1
  <2>14. ReadersRace'
    <3> SUFFICES ASSUME NEW p \in Request, At(p, "unflag")', NEW j \in Inbound,
                        inbox'[request'[p].contact][j] = "unread"
                 PROVE  <<request'[p].contact, j>> \in raced'
      BY DEF ReadersRace, Unread
    <3>1. p # q /\ request'[p] = request[p] /\ At(p, "unflag")
      BY <2>3, <2>11 DEF At
    <3>2. request[p].contact \in Contact
      BY <3>1 DEF At, InboxInv, RequestsSound, RecordSound, InboxTypes
    <3>3. CASE request[p].contact = c /\ j = i
      BY <2>1, <3>1, <3>3
    <3>4. CASE ~(request[p].contact = c /\ j = i)
      BY <2>6, <2>13, <3>1, <3>2, <3>4 DEF InboxInv, ReadersRace, Unread
    <3> QED
      BY <3>3, <3>4
  <2>15. UnreadIsFlagged'
    <3>1. HalfStored(q)' = {<<c, i>>}
      BY <2>3, <2>11 DEF HalfStored, At
    <3>2. HalfStored(q) = {}
      BY <1>0, <1>1 DEF HalfStored, At
    <3>3. \A p \in Request : HalfStored(p) \subseteq HalfStored(p)'
      BY <2>11, <3>2 DEF HalfStored, At
    <3> SUFFICES ASSUME NEW d \in Contact, NEW j \in Inbound, inbox'[d][j] = "unread",
                        isRead'[d], <<d, j>> \notin raced'
                 PROVE  \E p \in Request : <<d, j>> \in HalfStored(p)'
      BY DEF UnreadIsFlagged, Unread
    <3>4. CASE d = c /\ j = i
      BY <3>1, <3>4
    <3>5. CASE ~(d = c /\ j = i)
      BY <1>2, <2>6, <2>13, <3>3, <3>5 DEF InboxInv, UnreadIsFlagged, Unread
    <3> QED
      BY <3>4, <3>5
  <2>16. IsFiniteSet(contacts)' /\ CreatorsBounded'
    <3>1. Creators' \subseteq Creators
      BY <2>3, <2>11 DEF Creators, At
    <3> QED
      BY <1>2, <3>1, CreatorsStep DEF InboxInv
  <2>17. raced' \subseteq Contact \X Inbound
    BY <1>1, <2>1 DEF InboxTypes
  <2> QED
    BY <1>2, <2>5, <2>10, <2>12, <2>14, <2>15, <2>16, <2>17 DEF Sure, InboxInv, InboxTypes
<1> QED
  BY <1>3, <1>4

\* A stored message is flagged, and the callback goes on.
LEMMA FlagInv ==
  ASSUME InboxTypes(Report), InboxInv, NEW q \in Request, Flag(q)
  PROVE  Sure
<1>0. PICK r, c, i : r = request[q] /\ c = r.contact /\ i = r.current
  OBVIOUS
<1>1. /\ RecordSound(r) /\ Settled(r) /\ r.pc = "flag" /\ r.todo \subseteq r.batch
      /\ c \in contacts /\ c \in Contact /\ i \in r.todo /\ i \in Inbound /\ r \in RequestType(Report)
  BY <1>0 DEF Flag, At, InboxInv, RequestsSound, RecordSound, RequestType, InboxTypes
<1>2. /\ UNCHANGED <<acked, contacts, inbox, failures, raced, skipped>>
      /\ isRead' = [isRead EXCEPT ![c] = FALSE] /\ Proceed(q, r, i)
  BY <1>0 DEF Flag
<1>3. PICK s : /\ Become(q, s) /\ RecordSound(s) /\ s.pc \in {"find", "status", "answer"}
               /\ s.batch = r.batch /\ s.todo = r.todo \ {i}
  BY <1>1, <1>2, ProceedSound
<1>4. Grows
  BY <1>2 DEF Grows
<1>5. RecordSound(s)' /\ Settled(s)'
  <2>1. Kept(i)
    BY <1>0, <1>1 DEF Settled, Kept
  <2>2. Settled(s)
    BY <1>1, <1>3, <2>1 DEF Settled
  <2> QED
    BY <1>2, <1>3, <2>2 DEF RecordSound, Settled, Kept
<1>6. RequestsSound' /\ request' \in [Request -> RequestType(Report)]
  BY <1>3, <1>4, <1>5, SoundStep DEF InboxInv
<1>7. request'[q] = s /\ \A p \in Request : p # q => request'[p] = request[p]
  BY <1>3 DEF Become, InboxTypes
<1>8. AckedIsStored'
  BY <1>2, <1>4, AckedStep DEF InboxInv
<1>9. ReadersRace'
  BY <1>2, <1>3, <1>7 DEF InboxInv, ReadersRace, At, Unread
<1>10. isRead' \in [Contact -> BOOLEAN] /\ ~isRead'[c]
       /\ \A d \in Contact : d # c => isRead'[d] = isRead[d]
  BY <1>1, <1>2 DEF InboxTypes
<1>11. UnreadIsFlagged'
  <2> SUFFICES ASSUME NEW d \in Contact, NEW j \in Inbound, inbox'[d][j] = "unread",
                      isRead'[d], <<d, j>> \notin raced'
               PROVE  \E p \in Request : <<d, j>> \in HalfStored(p)'
    BY DEF UnreadIsFlagged, Unread
  <2>1. d # c
    BY <1>10
  <2>2. PICK p \in Request : <<d, j>> \in HalfStored(p)
    BY <1>2, <1>10, <2>1 DEF InboxInv, UnreadIsFlagged, Unread
  <2>3. p # q
    BY <1>0, <2>1, <2>2 DEF HalfStored
  <2> QED
    BY <1>7, <2>2, <2>3 DEF HalfStored, At
<1>12. IsFiniteSet(contacts)' /\ CreatorsBounded'
  <2>1. Creators' \subseteq Creators
    BY <1>3, <1>7 DEF Creators, At
  <2> QED
    BY <1>2, <2>1, CreatorsStep DEF InboxInv
<1> QED
  BY <1>2, <1>6, <1>8, <1>9, <1>10, <1>11, <1>12 DEF Sure, InboxInv, InboxTypes

\* What a request that ends leaves behind, if it was not about to flag.
LEMMA EndInv ==
  ASSUME InboxTypes(Report), InboxInv, NEW q \in Request, Respond(q),
         UNCHANGED <<contacts, inbox>>, raced \subseteq raced', HalfStored(q) \subseteq raced',
         raced' \subseteq Contact \X Inbound
  PROVE  /\ RequestsSound' /\ request' \in [Request -> RequestType(Report)]
         /\ ReadersRace' /\ IsFiniteSet(contacts)' /\ CreatorsBounded'
         /\ UNCHANGED isRead => UnreadIsFlagged'
<1>1. Become(q, NoRequest) /\ Grows
  BY DEF Respond, Grows
<1>2. RecordSound(NoRequest)' /\ Settled(NoRequest)' /\ NoRequest.pc = "idle"
  BY IdleSound DEF RecordSound, Settled, Kept, NoRequest
<1>3. RequestsSound' /\ request' \in [Request -> RequestType(Report)]
  BY <1>1, <1>2, SoundStep DEF InboxInv
<1>4. request'[q] = NoRequest /\ \A p \in Request : p # q => request'[p] = request[p]
  BY <1>1 DEF Become, InboxTypes
<1>5. ReadersRace'
  BY <1>2, <1>4 DEF InboxInv, ReadersRace, At, Unread
<1>6. IsFiniteSet(contacts)' /\ CreatorsBounded'
  <2>1. Creators' \subseteq Creators
    BY <1>2, <1>4 DEF Creators, At
  <2> QED
    BY <2>1, CreatorsStep DEF InboxInv
<1>7. ASSUME UNCHANGED isRead PROVE UnreadIsFlagged'
  <2> SUFFICES ASSUME NEW d \in Contact, NEW j \in Inbound, inbox'[d][j] = "unread",
                      isRead'[d], <<d, j>> \notin raced'
               PROVE  \E p \in Request : <<d, j>> \in HalfStored(p)'
    BY DEF UnreadIsFlagged, Unread
  <2>1. PICK p \in Request : <<d, j>> \in HalfStored(p)
    BY <1>7 DEF InboxInv, UnreadIsFlagged, Unread
  <2>2. p # q
    BY <2>1
  <2> QED
    BY <1>4, <2>1, <2>2 DEF HalfStored, At
<1> QED
  BY <1>3, <1>5, <1>6, <1>7

\* A callback is answered: all that it brought is stored.
LEMMA AnswerInv ==
  ASSUME InboxTypes(Report), InboxInv, NEW q \in Request, Answer(q)
  PROVE  Sure
<1>0. PICK batch : batch = request[q].batch
  OBVIOUS
<1>1. \A i \in batch \ Unknown : Kept(i)
  BY <1>0 DEF Answer, At, InboxInv, RequestsSound, RecordSound, Settled
<1>2. /\ acked' = acked \union batch
      /\ Respond(q) /\ UNCHANGED <<contacts, isRead, inbox, failures, raced, skipped>>
  BY <1>0 DEF Answer
<1>3. HalfStored(q) = {}
  BY DEF HalfStored, Answer, At
<1>4. /\ RequestsSound' /\ request' \in [Request -> RequestType(Report)]
      /\ ReadersRace' /\ IsFiniteSet(contacts)' /\ CreatorsBounded' /\ UnreadIsFlagged'
  BY <1>2, <1>3, EndInv DEF InboxTypes
<1>5. AckedIsStored'
  BY <1>1, <1>2 DEF InboxInv, AckedIsStored, Kept
<1>6. acked' \subseteq Inbound
  BY <1>0, <1>2 DEF InboxTypes, RequestType
<1> QED
  BY <1>2, <1>4, <1>5, <1>6 DEF Sure, InboxInv, InboxTypes

\* A call of a request fails.
LEMMA RequestFailsInv ==
  ASSUME InboxTypes(Report), InboxInv, NEW q \in Request, RequestFails(q)
  PROVE  Sure
<1>1. /\ Respond(q) /\ UNCHANGED <<acked, contacts, isRead, inbox, skipped>>
      /\ raced' = raced \union HalfStored(q)
  BY DEF RequestFails, tables
<1>2. HalfStored(q) \subseteq Contact \X Inbound
  BY DEF HalfStored, At, InboxInv, RequestsSound, RecordSound, RequestType, InboxTypes
<1>3. /\ RequestsSound' /\ request' \in [Request -> RequestType(Report)]
      /\ ReadersRace' /\ IsFiniteSet(contacts)' /\ CreatorsBounded' /\ UnreadIsFlagged'
  BY <1>1, <1>2, EndInv DEF InboxTypes
<1>4. AckedIsStored'
  BY <1>1 DEF InboxInv, AckedIsStored, Kept
<1>5. failures' \in 0 .. MaxFailures
  BY InboxAssumption DEF RequestFails, InboxTypes
<1> QED
  BY <1>1, <1>2, <1>3, <1>4, <1>5 DEF Sure, InboxInv, InboxTypes

\* A reader has marked what there was; the flag comes next.
LEMMA MarkReadInv ==
  ASSUME InboxTypes(Report), InboxInv, NEW q \in Request, MarkRead(q)
  PROVE  Sure
<1>0. PICK r, c : r = request[q] /\ c = r.contact
  OBVIOUS
<1>1. /\ RecordSound(r) /\ Settled(r) /\ r.pc = "mark" /\ c \in contacts /\ c \in Contact
      /\ r \in RequestType(Report)
  BY <1>0 DEF MarkRead, At, InboxInv, RequestsSound, RecordSound, InboxTypes
<1>2. /\ inbox' = [inbox EXCEPT ![c] =
              [i \in Inbound |-> IF inbox[c][i] = "unread" THEN "read" ELSE inbox[c][i]]]
      /\ raced' = {x \in raced : x[1] # c}
      /\ To(q, "unflag")
      /\ UNCHANGED <<acked, contacts, isRead, failures, skipped>>
  BY <1>0 DEF MarkRead
<1>3. PICK s : s = [r EXCEPT !.pc = "unflag"]
  OBVIOUS
<1>4. /\ s \in RequestType(Report) /\ s.pc = "unflag" /\ s.contact = c
      /\ s.todo = r.todo /\ s.batch = r.batch
  BY <1>0, <1>1, <1>3 DEF RequestType, Pcs
<1>5. Become(q, s)
  BY <1>0, <1>2, <1>3 DEF To, Become, InboxTypes
<1>6. /\ inbox' \in [Contact -> [Inbound -> {"none", "unread", "read"}]]
      /\ \A i \in Inbound : inbox'[c][i] # "unread"
      /\ \A i \in Inbound : inbox[c][i] # "none" => inbox'[c][i] # "none"
      /\ \A d \in Contact : d # c => inbox'[d] = inbox[d]
  BY <1>1, <1>2 DEF InboxTypes
<1>7. Grows
  BY <1>2, <1>6 DEF Grows, InboxTypes
<1>8. RecordSound(s)'
  BY <1>1, <1>2, <1>4 DEF RecordSound
<1>9. Settled(s)'
  BY <1>1, <1>4, <1>7, KeptGrows DEF Settled, RequestType
<1>10. RequestsSound' /\ request' \in [Request -> RequestType(Report)]
  BY <1>5, <1>7, <1>8, <1>9, SoundStep DEF InboxInv
<1>11. request'[q] = s /\ \A p \in Request : p # q => request'[p] = request[p]
  BY <1>5 DEF Become, InboxTypes
<1>12. AckedIsStored'
  BY <1>2, <1>7, AckedStep DEF InboxInv
<1>13. \A d, i : <<d, i>> \in raced /\ d # c => <<d, i>> \in raced'
  BY <1>2
<1>14. ReadersRace'
  <2> SUFFICES ASSUME NEW p \in Request, At(p, "unflag")', NEW j \in Inbound,
                      inbox'[request'[p].contact][j] = "unread"
               PROVE  <<request'[p].contact, j>> \in raced'
    BY DEF ReadersRace, Unread
  <2>1. request'[p].contact # c
    BY <1>6
  <2>2. p # q /\ request'[p] = request[p] /\ At(p, "unflag")
    BY <1>4, <1>11, <2>1 DEF At
  <2>3. request[p].contact \in Contact
    BY <2>2 DEF At, InboxInv, RequestsSound, RecordSound, InboxTypes
  <2> QED
    BY <1>6, <1>13, <2>1, <2>2, <2>3 DEF InboxInv, ReadersRace, Unread
<1>15. UnreadIsFlagged'
  <2>1. HalfStored(q) = {}
    BY <1>0, <1>1 DEF HalfStored, At
  <2>2. \A p \in Request : HalfStored(p) \subseteq HalfStored(p)'
    BY <1>11, <2>1 DEF HalfStored, At
  <2> SUFFICES ASSUME NEW d \in Contact, NEW j \in Inbound, inbox'[d][j] = "unread",
                      isRead'[d], <<d, j>> \notin raced'
               PROVE  \E p \in Request : <<d, j>> \in HalfStored(p)'
    BY DEF UnreadIsFlagged, Unread
  <2>3. d # c
    BY <1>6
  <2> QED
    BY <1>2, <1>6, <1>13, <2>2, <2>3 DEF InboxInv, UnreadIsFlagged, Unread
<1>16. IsFiniteSet(contacts)' /\ CreatorsBounded'
  <2>1. Creators' \subseteq Creators
    BY <1>4, <1>11 DEF Creators, At
  <2> QED
    BY <1>2, <2>1, CreatorsStep DEF InboxInv
<1>17. raced' \subseteq Contact \X Inbound
  BY <1>2 DEF InboxTypes
<1> QED
  BY <1>2, <1>6, <1>10, <1>12, <1>14, <1>15, <1>16, <1>17 DEF Sure, InboxInv, InboxTypes

\* A reader clears the flag: what is unread came after his first write.
LEMMA ClearFlagInv ==
  ASSUME InboxTypes(Report), InboxInv, NEW q \in Request, ClearFlag(q)
  PROVE  Sure
<1>0. PICK c : c = request[q].contact
  OBVIOUS
<1>1. c \in Contact /\ At(q, "unflag")
  BY <1>0 DEF ClearFlag, At, InboxInv, RequestsSound, RecordSound, InboxTypes
<1>2. /\ isRead' = [isRead EXCEPT ![c] = TRUE] /\ Respond(q)
      /\ UNCHANGED <<acked, contacts, inbox, failures, raced, skipped>>
  BY <1>0 DEF ClearFlag
<1>3. HalfStored(q) = {}
  BY <1>1 DEF HalfStored, At
<1>4. /\ RequestsSound' /\ request' \in [Request -> RequestType(Report)]
      /\ ReadersRace' /\ IsFiniteSet(contacts)' /\ CreatorsBounded'
  BY <1>2, <1>3, EndInv DEF InboxTypes
<1>5. request' = [request EXCEPT ![q] = NoRequest]
  BY <1>2 DEF Respond, Become
<1>6. isRead' \in [Contact -> BOOLEAN] /\ \A d \in Contact : d # c => isRead'[d] = isRead[d]
  BY <1>1, <1>2 DEF InboxTypes
<1>7. UnreadIsFlagged'
  <2> SUFFICES ASSUME NEW d \in Contact, NEW j \in Inbound, inbox'[d][j] = "unread",
                      isRead'[d], <<d, j>> \notin raced'
               PROVE  \E p \in Request : <<d, j>> \in HalfStored(p)'
    BY DEF UnreadIsFlagged, Unread
  <2>1. d # c
    BY <1>0, <1>1, <1>2 DEF InboxInv, ReadersRace, Unread
  <2>2. PICK p \in Request : <<d, j>> \in HalfStored(p)
    BY <1>2, <1>6, <2>1 DEF InboxInv, UnreadIsFlagged, Unread
  <2>3. p # q
    BY <1>3, <2>2
  <2> QED
    BY <1>5, <2>2, <2>3 DEF HalfStored, At, InboxTypes
<1>8. AckedIsStored'
  BY <1>2 DEF InboxInv, AckedIsStored, Kept
<1> QED
  BY <1>2, <1>4, <1>6, <1>7, <1>8 DEF Sure, InboxInv, InboxTypes

\* The server stops: what its callbacks had stored and not flagged is excused.
LEMMA CrashInv ==
  ASSUME InboxTypes(Report), InboxInv, Crash
  PROVE  Sure
<1>1. /\ request' = [p \in Request |-> NoRequest]
      /\ raced' = raced \union UNION {HalfStored(p) : p \in Request}
      /\ UNCHANGED <<acked, contacts, isRead, inbox, skipped>>
  BY DEF Crash, tables
<1>2. RecordSound(NoRequest)' /\ Settled(NoRequest)' /\ NoRequest.pc = "idle"
  BY IdleSound, <1>1 DEF RecordSound, Settled, Kept, NoRequest
<1>3. RequestsSound' /\ request' \in [Request -> RequestType(Report)]
  BY <1>1, <1>2 DEF RequestsSound, RecordSound, Settled
<1>4. ReadersRace' /\ AckedIsStored'
  BY <1>1, <1>2 DEF ReadersRace, At, InboxInv, AckedIsStored, Kept
<1>5. UnreadIsFlagged'
  BY <1>1 DEF InboxInv, UnreadIsFlagged, Unread
<1>6. IsFiniteSet(contacts)' /\ CreatorsBounded'
  <2>1. Creators' \subseteq Creators
    BY <1>1, <1>2 DEF Creators, At
  <2> QED
    BY <1>1, <2>1, CreatorsStep DEF InboxInv
<1>7. raced' \subseteq Contact \X Inbound
  <2>1. \A p \in Request : HalfStored(p) \subseteq Contact \X Inbound
    BY DEF HalfStored, At, InboxInv, RequestsSound, RecordSound, RequestType, InboxTypes
  <2> QED
    BY <1>1, <2>1 DEF InboxTypes
<1>8. failures' \in 0 .. MaxFailures
  BY InboxAssumption DEF Crash, InboxTypes
<1> QED
  BY <1>1, <1>3, <1>4, <1>5, <1>6, <1>7, <1>8 DEF Sure, InboxInv, InboxTypes

-----------------------------------------------------------------------------
(* The inbox under every step.                                             *)

\* A request that changes its own record only.
LEMMA QuietSure ==
  ASSUME InboxTypes(Report), InboxInv, NEW q \in Request, Quiet(q), UNCHANGED failures
  PROVE  Sure
<1>1. InboxInv' /\ request' \in [Request -> RequestType(Report)]
  BY QuietInv
<1>2. UNCHANGED <<acked, contacts, isRead, inbox, raced, skipped>>
  BY DEF Quiet, tables
<1> QED
  BY <1>1, <1>2 DEF Sure, InboxTypes

\* A step that leaves the inbox and the requests alone.
LEMMA AsideSure ==
  ASSUME InboxTypes(Report), InboxInv, UNCHANGED <<tables, request, raced, skipped>>,
         failures' \in 0 .. MaxFailures
  PROVE  Sure
<1>1. UNCHANGED <<acked, contacts, isRead, inbox, request, raced, skipped>>
  BY DEF tables
<1>2. InboxTypes(Report)'
  BY <1>1 DEF InboxTypes
<1>3. RequestsSound' /\ AckedIsStored' /\ ReadersRace'
  BY <1>1 DEF InboxInv, RequestsSound, RecordSound, Settled, Kept, AckedIsStored, ReadersRace,
              Unread, At
<1>4. UnreadIsFlagged' /\ IsFiniteSet(contacts)' /\ CreatorsBounded'
  BY <1>1 DEF InboxInv, UnreadIsFlagged, Unread, HalfStored, At, CreatorsBounded, Creators
<1> QED
  BY <1>2, <1>3, <1>4 DEF Sure, InboxInv

\* Every step of the system keeps the inbox in order.
LEMMA InboxStep ==
  ASSUME TypeOK, InboxInv, [Next]_vars
  PROVE  Sure
<1>t. InboxTypes(Report) /\ failures \in 0 .. MaxFailures /\ RequestsSound
  BY DEF TypeOK, InboxTypes, InboxInv
<1>1. CASE InboxNext
  <2>1. ASSUME NEW q \in Request, NEW batch \in SUBSET Inbound, Deliver(q, batch, None)
        PROVE  Sure
    BY <1>t, <2>1, DeliverQuiet, QuietSure DEF Deliver
  <2>2. ASSUME NEW q \in Request, NEW i \in Inbound \union {None}, FindContact(q, i)
        PROVE  Sure
    BY <1>t, <2>2, FindQuiet, QuietSure DEF FindContact
  <2>3. ASSUME NEW q \in Request, NEW c \in Contact, Open(q, c) PROVE Sure
    BY <1>t, <2>3, OtherQuiet, QuietSure DEF Open
  <2> QED
    BY <1>1, <1>t, <2>1, <2>2, <2>3, SkipInv, CreateContactInv, StoreInv, FlagInv,
       AnswerInv, MarkReadInv, ClearFlagInv, RequestFailsInv DEF InboxNext
<1>2. ASSUME NEW q \in Request, RequestTemplate(q) PROVE Sure
  BY <1>t, <1>2, OtherQuiet, QuietSure DEF RequestTemplate
<1>3. ASSUME NEW q \in Request, NEW m \in Message, CreatePending(q, m) PROVE Sure
  BY <1>t, <1>3, OtherQuiet, QuietSure DEF CreatePending
<1>4. ASSUME NEW q \in Request, NEW batch \in SUBSET Inbound, NEW m \in Message,
             NEW event \in Event, DeliverReport(q, batch, m, event)
      PROVE  Sure
  <2>1. Deliver(q, batch, <<m, event>>) /\ <<m, event>> \in Report
    BY <1>4 DEF DeliverReport, Report
  <2>2. UNCHANGED failures
    BY <2>1 DEF Deliver
  <2> QED
    BY <1>t, <2>1, <2>2, DeliverQuiet, QuietSure
<1>5. ASSUME NEW q \in Request, ReportUnmatched(q) \/ ReportFailed(q) \/ ReportThrows(q)
      PROVE  Sure
  <2>1. UNCHANGED failures
    BY <1>5 DEF ReportUnmatched, ReportFailed, ReportThrows
  <2> QED
    BY <1>5, <1>t, <2>1, OtherQuiet, QuietSure
<1>6. ASSUME NEW m \in Message, JobStep(m) PROVE Sure
  <2>1. UNCHANGED <<tables, request, raced, skipped, failures>>
    BY <1>6 DEF JobStep, Accept, Refuse, StoreSent, StoreFailed, inboxVars, tables
  <2> QED
    BY <1>t, <2>1, AsideSure
<1>7. ASSUME NEW m \in Message, JobFails(m) PROVE Sure
  <2>1. UNCHANGED <<tables, request, raced, skipped>> /\ failures' \in 0 .. MaxFailures
    BY <1>7, <1>t, InboxAssumption DEF JobFails
  <2> QED
    BY <1>t, <2>1, AsideSure
<1>8. CASE UNCHANGED vars
  BY <1>8, <1>t, AsideSure DEF vars, tables
<1> QED
  BY <1>t, <1>1, <1>2, <1>3, <1>4, <1>5, <1>6, <1>7, <1>8, CrashInv DEF Next

-----------------------------------------------------------------------------
(* Outgoing messages.                                                      *)

\* The rows and jobs of outgoing messages.
OutTypes ==
    /\ message \in [Message -> MessageType]
    /\ job \in [Message -> JobPcs]
    /\ taken \subseteq Message
    /\ blamed \subseteq Message

OutInv == OutTypes /\ JobsSound /\ PendingHasJob

\* A step that changes the row and the job of one message keeps the invariant
\* if it does so for that message.
LEMMA OneMessage ==
  ASSUME OutInv, NEW m \in Message, NEW row \in MessageType, NEW pc \in JobPcs,
         message' = [message EXCEPT ![m] = row], job' = [job EXCEPT ![m] = pc],
         taken' \in {taken, taken \union {m}}, blamed' \in {blamed, blamed \union {m}},
         failures \in Nat, failures' \in {failures, failures + 1},
         row.status = "none" => ~row.wamid /\ m \notin taken',
         row.wamid => row.status \in {"sent", "failed"},
         pc = "send" => row.status = "pending" /\ ~row.wamid /\ m \notin taken',
         pc = "store" => row.status = "pending" /\ ~row.wamid /\ m \in taken',
         pc = "fail" => row.status # "none" /\ m \in blamed',
         row.status = "pending" => pc \in {"send", "store", "fail"} \/ (pc = "lost" /\ failures' > 0)
  PROVE  OutInv'
<1>1. message'[m] = row /\ job'[m] = pc
      /\ \A n \in Message : n # m => message'[n] = message[n] /\ job'[n] = job[n]
  BY DEF OutInv, OutTypes
<1>2. OutTypes'
  BY DEF OutInv, OutTypes
<1>3. JobSound(m)'
  BY <1>1 DEF JobSound
<1>4. ASSUME NEW n \in Message, n # m PROVE JobSound(n)'
  <2>1. n \in taken' <=> n \in taken
    BY <1>4
  <2>2. n \in blamed => n \in blamed'
    OBVIOUS
  <2> QED
    BY <1>1, <1>4, <2>1, <2>2 DEF OutInv, JobsSound, JobSound
<1>5. PendingHasJob'
  <2> SUFFICES ASSUME NEW n \in Message, message'[n].status = "pending"
               PROVE  job'[n] \in {"send", "store", "fail"} \/ (job'[n] = "lost" /\ failures' > 0)
    BY DEF PendingHasJob
  <2>1. CASE n = m
    BY <1>1, <2>1
  <2>2. CASE n # m
    BY <1>1, <2>2 DEF OutInv, PendingHasJob
  <2> QED
    BY <2>1, <2>2
<1> QED
  BY <1>2, <1>3, <1>4, <1>5 DEF OutInv, JobsSound

\* A step that changes no row and no job, and may blame a message.
LEMMA NoMessage ==
  ASSUME OutInv, UNCHANGED <<message, job, taken>>, blamed \subseteq blamed',
         blamed' \subseteq Message, failures \in Nat, failures' \in {failures, failures + 1}
  PROVE  OutInv'
<1>1. OutTypes'
  BY DEF OutInv, OutTypes
<1>2. JobsSound'
  BY DEF OutInv, JobsSound, JobSound
<1>3. PendingHasJob'
  BY DEF OutInv, PendingHasJob
<1> QED
  BY <1>1, <1>2, <1>3 DEF OutInv

\* Every step keeps the rows and jobs of messages in order.
LEMMA OutStep ==
  ASSUME TypeOK, RequestsSound, OutInv, [Next]_vars
  PROVE  OutInv'
<1>f. failures \in Nat
  BY InboxAssumption DEF TypeOK, InboxTypes
<1>r. \A m \in Message : message[m] \in MessageType /\ job[m] \in JobPcs
  BY DEF OutInv, OutTypes
<1>s. \A m \in Message : \A status \in {"pending", "failed"} :
         /\ [message[m] EXCEPT !.status = status] \in MessageType
         /\ [message[m] EXCEPT !.status = status].status = status
         /\ [message[m] EXCEPT !.status = status].wamid = message[m].wamid
  BY <1>r DEF MessageType
<1>w. [status |-> "sent", wamid |-> TRUE] \in MessageType
  BY DEF MessageType
<1>p. {"send", "store", "fail", "over", "lost"} \subseteq JobPcs
  BY DEF JobPcs
<1>e. /\ \A m \in Message : message = [message EXCEPT ![m] = message[m]]
      /\ \A m \in Message : job = [job EXCEPT ![m] = job[m]]
  BY DEF OutInv, OutTypes
<1>x. \A m \in Message : \A status \in {"pending", "failed"} : SetStatus(m, status)
         => message' = [message EXCEPT ![m] = [message[m] EXCEPT !.status = status]]
  BY DEF SetStatus, OutInv, OutTypes
<1>1. CASE InboxNext /\ UNCHANGED outVars
  <2>1. failures' \in {failures, failures + 1}
    BY <1>1 DEF InboxNext, Skip, Deliver, FindContact, CreateContact, Open, Store, Flag,
                Answer, MarkRead, ClearFlag, RequestFails
  <2> QED
    BY <1>1, <1>f, <2>1, NoMessage DEF outVars, OutInv, OutTypes
<1>2. ASSUME NEW q \in Request, RequestTemplate(q) \/ ReportUnmatched(q) \/ ReportThrows(q)
      PROVE  OutInv'
  <2>1. UNCHANGED <<message, job, taken, blamed, failures>>
    BY <1>2 DEF RequestTemplate, ReportUnmatched, ReportThrows, outVars
  <2> QED
    BY <1>f, <2>1, NoMessage DEF OutInv, OutTypes
<1>3. ASSUME NEW q \in Request, NEW m \in Message, CreatePending(q, m) PROVE OutInv'
  <2> DEFINE row == [message[m] EXCEPT !.status = "pending"]
  <2>1. message' = [message EXCEPT ![m] = row] /\ job' = [job EXCEPT ![m] = "send"]
        /\ UNCHANGED <<taken, blamed, failures>>
    BY <1>3, <1>x DEF CreatePending, JobTo
  <2>2. ~message[m].wamid /\ m \notin taken
    BY <1>3 DEF CreatePending, OutInv, JobsSound, JobSound
  <2>3. row \in MessageType /\ row.status = "pending" /\ ~row.wamid
    BY <1>s, <2>2
  <2> HIDE DEF row
  <2> QED
    BY <1>f, <1>p, <2>1, <2>2, <2>3, OneMessage
<1>4. ASSUME NEW m \in Message, Accept(m) PROVE OutInv'
  <2>1. /\ message' = [message EXCEPT ![m] = message[m]] /\ job' = [job EXCEPT ![m] = "store"]
        /\ taken' = taken \union {m} /\ UNCHANGED <<blamed, failures>>
    BY <1>4, <1>e DEF Accept, JobTo, inboxVars
  <2>2. message[m].status = "pending" /\ ~message[m].wamid
    BY <1>4 DEF Accept, OutInv, JobsSound, JobSound
  <2> QED
    BY <1>f, <1>p, <1>r, <2>1, <2>2, OneMessage
<1>5. ASSUME NEW m \in Message, Refuse(m) PROVE OutInv'
  <2>1. /\ message' = [message EXCEPT ![m] = message[m]] /\ job' = [job EXCEPT ![m] = "fail"]
        /\ blamed' = blamed \union {m} /\ UNCHANGED <<taken, failures>>
    BY <1>5, <1>e DEF Refuse, JobTo, inboxVars
  <2>2. message[m].status = "pending" /\ ~message[m].wamid
    BY <1>5 DEF Refuse, OutInv, JobsSound, JobSound
  <2> QED
    BY <1>f, <1>p, <1>r, <2>1, <2>2, OneMessage
<1>6. ASSUME NEW m \in Message, StoreSent(m) PROVE OutInv'
  <2>1. /\ message' = [message EXCEPT ![m] = [status |-> "sent", wamid |-> TRUE]]
        /\ job' = [job EXCEPT ![m] = "over"] /\ UNCHANGED <<taken, blamed, failures>>
    BY <1>6 DEF StoreSent, JobTo, inboxVars
  <2> QED
    BY <1>f, <1>p, <1>w, <2>1, OneMessage
<1>7. ASSUME NEW m \in Message, StoreFailed(m) PROVE OutInv'
  <2> DEFINE row == [message[m] EXCEPT !.status = "failed"]
  <2>1. message' = [message EXCEPT ![m] = row] /\ job' = [job EXCEPT ![m] = "over"]
        /\ UNCHANGED <<taken, blamed, failures>>
    BY <1>7, <1>x DEF StoreFailed, JobTo, inboxVars
  <2>2. row \in MessageType /\ row.status = "failed"
    BY <1>s
  <2> HIDE DEF row
  <2> QED
    BY <1>f, <1>p, <2>1, <2>2, OneMessage
<1>8. ASSUME NEW m \in Message, JobFails(m) PROVE OutInv'
  <2>1. blamed' = blamed \union {m} /\ failures' = failures + 1
    BY <1>8 DEF JobFails
  <2>2. JobSound(m)
    BY DEF OutInv, JobsSound
  <2>3. CASE job[m] = "send"
    <3>1. /\ message' = [message EXCEPT ![m] = message[m]] /\ job' = [job EXCEPT ![m] = "fail"]
          /\ taken' \in {taken, taken \union {m}}
      BY <1>8, <1>e, <2>3 DEF JobFails, JobTo
    <3>2. message[m].status = "pending" /\ ~message[m].wamid
      BY <2>2, <2>3 DEF JobSound
    <3> QED
      BY <1>f, <1>p, <1>r, <2>1, <3>1, <3>2, OneMessage
  <2>4. CASE job[m] = "store"
    <3>1. job' = [job EXCEPT ![m] = "fail"] /\ taken' = taken
      BY <1>8, <2>4 DEF JobFails, JobTo
    <3>2. message[m].status = "pending" /\ ~message[m].wamid
      BY <2>2, <2>4 DEF JobSound
    <3>3. CASE message' = message
      <4>1. message' = [message EXCEPT ![m] = message[m]]
        BY <1>e, <3>3
      <4> QED
        BY <1>f, <1>p, <1>r, <2>1, <3>1, <3>2, <4>1, OneMessage
    <3>4. CASE message' = [message EXCEPT ![m] = [status |-> "sent", wamid |-> TRUE]]
      BY <1>f, <1>p, <1>w, <2>1, <3>1, <3>4, OneMessage
    <3> QED
      BY <1>8, <2>4, <3>3, <3>4 DEF JobFails
  <2>5. CASE job[m] = "fail"
    <3>1. job' = [job EXCEPT ![m] = "lost"] /\ taken' = taken
      BY <1>8, <2>5 DEF JobFails, JobTo
    <3>2. message[m].status # "none" /\ (message[m].wamid => message[m].status \in {"sent", "failed"})
      BY <2>2, <2>5 DEF JobSound
    <3>3. failures' > 0
      BY <1>f, <2>1
    <3>4. CASE message' = message
      <4>1. message' = [message EXCEPT ![m] = message[m]]
        BY <1>e, <3>4
      <4> QED
        BY <1>f, <1>p, <1>r, <2>1, <3>1, <3>2, <3>3, <4>1, OneMessage
    <3>5. CASE message' = [message EXCEPT ![m].status = "failed"]
      <4> DEFINE row == [message[m] EXCEPT !.status = "failed"]
      <4>1. message' = [message EXCEPT ![m] = row]
        BY <1>x, <3>5 DEF SetStatus
      <4>2. row \in MessageType /\ row.status = "failed"
        BY <1>s
      <4> HIDE DEF row
      <4> QED
        BY <1>f, <1>p, <2>1, <3>1, <4>1, <4>2, OneMessage
    <3> QED
      BY <1>8, <2>5, <3>4, <3>5 DEF JobFails
  <2> QED
    BY <1>8, <2>3, <2>4, <2>5 DEF JobFails
<1>9. ASSUME NEW q \in Request, NEW batch \in SUBSET Inbound, NEW m \in Message,
             NEW event \in Event, DeliverReport(q, batch, m, event)
      PROVE  OutInv'
  <2>1. UNCHANGED <<message, job, taken, failures>> /\ blamed \subseteq blamed'
        /\ blamed' \subseteq Message
    BY <1>9 DEF DeliverReport, Deliver, OutInv, OutTypes
  <2> QED
    BY <1>f, <2>1, NoMessage
<1>10. ASSUME NEW q \in Request, ReportFailed(q) PROVE OutInv'
  <2>0. PICK m : m = request[q].report[1]
    OBVIOUS
  <2>1. m \in Message
    BY <1>10, <2>0 DEF ReportFailed, At, RequestsSound, RecordSound, Report
  <2> DEFINE row == [message[m] EXCEPT !.status = "failed"]
  <2>2. message' = [message EXCEPT ![m] = row] /\ job' = [job EXCEPT ![m] = job[m]]
        /\ UNCHANGED <<taken, blamed, failures>> /\ message[m].wamid
    BY <1>10, <1>x, <1>e, <2>0, <2>1 DEF ReportFailed
  <2>3. row \in MessageType /\ row.status = "failed" /\ row.wamid = message[m].wamid
    BY <1>s, <2>1
  <2>4. JobSound(m)
    BY <2>1 DEF OutInv, JobsSound
  <2>5. job[m] \notin {"send", "store"} /\ (job[m] = "fail" => m \in blamed)
    BY <2>2, <2>4 DEF JobSound
  <2> HIDE DEF row
  <2> QED
    BY <1>f, <1>r, <2>1, <2>2, <2>3, <2>5, OneMessage
<1>11. CASE Crash
  <2>1. /\ job' = [m \in Message |-> IF job[m] \in {"send", "store", "fail"} THEN "lost" ELSE job[m]]
        /\ UNCHANGED <<message, taken, blamed>> /\ failures' = failures + 1
    BY <1>11 DEF Crash
  <2>2. OutTypes'
    BY <1>p, <2>1 DEF OutInv, OutTypes
  <2>3. JobsSound'
    BY <2>1 DEF OutInv, JobsSound, JobSound
  <2>4. PendingHasJob'
    BY <1>f, <2>1 DEF OutInv, PendingHasJob
  <2> QED
    BY <2>2, <2>3, <2>4 DEF OutInv
<1>12. CASE UNCHANGED vars
  BY <1>12, <1>f, NoMessage DEF vars, outVars, OutInv, OutTypes
<1> QED
  BY <1>1, <1>2, <1>3, <1>4, <1>5, <1>6, <1>7, <1>8, <1>9, <1>10, <1>11, <1>12 DEF Next, JobStep

\* No step but the acked of a report gives a request a report, and nobody is
\* forgotten who is to blame.
LEMMA ReportsStep ==
  ASSUME TypeOK, RequestsSound, ReportsSound, [Next]_vars
  PROVE  ReportsSound'
<1>t. request \in [Request -> RequestType(Report)]
  BY DEF TypeOK, InboxTypes
<1>n. NoRequest.report = None
  BY DEF NoRequest
<1>k. ASSUME \A p \in Request : request'[p].report \in {request[p].report, None},
             blamed \subseteq blamed'
      PROVE  ReportsSound'
  BY <1>k DEF ReportsSound
<1>m. ASSUME NEW q \in Request, NEW s, Become(q, s), s.report \in {request[q].report, None},
             blamed \subseteq blamed'
      PROVE  ReportsSound'
  BY <1>m, <1>t, <1>k DEF Become
<1>g. ASSUME NEW q \in Request, NEW pc, To(q, pc), blamed \subseteq blamed' PROVE ReportsSound'
  <2>1. \A p \in Request : request'[p].report = request[p].report
    BY <1>g, <1>t DEF To, RequestType
  <2> QED
    BY <1>g, <1>k, <2>1
<1>u. ASSUME UNCHANGED request, blamed \subseteq blamed' PROVE ReportsSound'
  BY <1>u DEF ReportsSound
<1>p. ASSUME NEW q \in Request, NEW done, Proceed(q, request[q], done), blamed \subseteq blamed'
      PROVE  ReportsSound'
  <2>1. PICK r : r = request[q]
    OBVIOUS
  <2>2. r \in RequestType(Report) /\ r.todo \subseteq r.batch
    BY <2>1 DEF RequestsSound, RecordSound
  <2>3. \E s : Become(q, s) /\ s.report = r.report
    BY <1>p, <2>1, <2>2, ProceedSound
  <2> QED
    BY <1>p, <1>m, <2>1, <2>3
<1>1. CASE InboxNext /\ UNCHANGED outVars
  <2>b. blamed \subseteq blamed'
    BY <1>1 DEF outVars
  <2>1. ASSUME NEW batch \in SUBSET Inbound, Skip(batch) PROVE ReportsSound'
    BY <1>u, <2>b, <2>1 DEF Skip
  <2>2. ASSUME NEW q \in Request, NEW batch \in SUBSET Inbound, Deliver(q, batch, None)
        PROVE  ReportsSound'
    BY <1>m, <2>b, <2>2, DeliverQuiet
  <2>3. ASSUME NEW q \in Request, NEW i \in Inbound \union {None}, FindContact(q, i)
        PROVE  ReportsSound'
    <3>1. PICK r : r = request[q] /\ r \in RequestType(Report)
      BY <1>t
    <3>2. CASE contacts = {} /\ Become(q, [r EXCEPT !.current = i, !.pc = "create"])
      <4>1. [r EXCEPT !.current = i, !.pc = "create"].report = r.report
        BY <3>1 DEF RequestType
      <4> QED
        BY <1>m, <2>b, <3>1, <3>2, <4>1
    <3>3. ASSUME NEW c \in contacts, NEW pc,
                 Become(q, [r EXCEPT !.current = i, !.contact = c, !.pc = pc])
          PROVE  ReportsSound'
      <4>1. [r EXCEPT !.current = i, !.contact = c, !.pc = pc].report = r.report
        BY <3>1 DEF RequestType
      <4> QED
        BY <1>m, <2>b, <3>1, <3>3, <4>1
    <3> QED
      BY <2>3, <3>1, <3>2, <3>3 DEF FindContact
  <2>4. ASSUME NEW q \in Request, NEW c \in Contact, CreateContact(q, c) PROVE ReportsSound'
    <3>1. PICK r : r = request[q] /\ r \in RequestType(Report)
      BY <1>t
    <3>2. PICK pc : Become(q, [r EXCEPT !.contact = c, !.pc = pc])
      BY <2>4, <3>1 DEF CreateContact
    <3>3. [r EXCEPT !.contact = c, !.pc = pc].report = r.report
      BY <3>1 DEF RequestType
    <3> QED
      BY <1>m, <2>b, <3>1, <3>2, <3>3
  <2>5. ASSUME NEW q \in Request, NEW c \in Contact, Open(q, c) PROVE ReportsSound'
    <3>1. [NoRequest EXCEPT !.pc = "mark", !.contact = c].report = None
      BY DEF NoRequest
    <3> QED
      BY <1>m, <2>b, <2>5, <3>1 DEF Open
  <2>6. ASSUME NEW q \in Request, Store(q) PROVE ReportsSound'
    BY <1>g, <1>p, <2>b, <2>6 DEF Store
  <2>7. ASSUME NEW q \in Request, Flag(q) PROVE ReportsSound'
    BY <1>p, <2>b, <2>7 DEF Flag
  <2>8. ASSUME NEW q \in Request, MarkRead(q) PROVE ReportsSound'
    BY <1>g, <2>b, <2>8 DEF MarkRead
  <2>9. ASSUME NEW q \in Request, Answer(q) \/ ClearFlag(q) \/ RequestFails(q) PROVE ReportsSound'
    BY <1>m, <1>n, <2>b, <2>9 DEF Answer, ClearFlag, RequestFails, Respond
  <2> QED
    BY <1>1, <2>1, <2>2, <2>3, <2>4, <2>5, <2>6, <2>7, <2>8, <2>9 DEF InboxNext
<1>2. ASSUME NEW q \in Request, RequestTemplate(q) PROVE ReportsSound'
  <2>1. \E s : Become(q, s) /\ s.report = None
    BY <1>2, <1>n DEF RequestTemplate, NoRequest
  <2> QED
    BY <1>2, <1>m, <2>1 DEF RequestTemplate, outVars
<1>3. ASSUME NEW q \in Request, NEW m \in Message, CreatePending(q, m) PROVE ReportsSound'
  BY <1>3, <1>m, <1>n DEF CreatePending, Respond
<1>4. ASSUME NEW q \in Request, NEW batch \in SUBSET Inbound, NEW m \in Message,
             NEW event \in Event, DeliverReport(q, batch, m, event)
      PROVE  ReportsSound'
  <2>1. PICK s : Become(q, s) /\ s.report = <<m, event>>
    BY <1>4, DeliverQuiet DEF DeliverReport, Report
  <2>2. request'[q] = s /\ \A p \in Request : p # q => request'[p] = request[p]
    BY <1>t, <2>1 DEF Become
  <2>3. blamed \subseteq blamed' /\ (event = "failed" => m \in blamed')
    BY <1>4 DEF DeliverReport
  <2> QED
    BY <2>1, <2>2, <2>3 DEF ReportsSound
<1>5. ASSUME NEW q \in Request, ReportUnmatched(q) \/ ReportFailed(q) PROVE ReportsSound'
  BY <1>5, <1>g DEF ReportUnmatched, ReportFailed, outVars
<1>6. ASSUME NEW q \in Request, ReportThrows(q) PROVE ReportsSound'
  BY <1>6, <1>m, <1>n DEF ReportThrows, Respond, outVars
<1>7. ASSUME NEW m \in Message, JobStep(m) \/ JobFails(m) PROVE ReportsSound'
  BY <1>7, <1>u DEF JobStep, Accept, Refuse, StoreSent, StoreFailed, JobFails, inboxVars
<1>8. CASE Crash
  BY <1>8, <1>k, <1>n DEF Crash
<1>9. CASE UNCHANGED vars
  BY <1>9, <1>u DEF vars, outVars
<1> QED
  BY <1>1, <1>2, <1>3, <1>4, <1>5, <1>6, <1>7, <1>8, <1>9 DEF Next

\* The invariant is inductive.
LEMMA InvStep == Inv /\ [Next]_vars => Inv'
<1> SUFFICES ASSUME Inv, [Next]_vars PROVE Inv'
  OBVIOUS
<1>1. TypeOK /\ InboxInv /\ RequestsSound /\ OutInv /\ ReportsSound
  BY DEF Inv, InboxInv, OutInv, OutTypes, TypeOK
<1>2. InboxTypes(Report)' /\ InboxInv'
  BY <1>1, InboxStep DEF Sure
<1>3. OutInv'
  BY <1>1, OutStep
<1>4. TypeOK'
  BY <1>2, <1>3 DEF TypeOK, OutInv, OutTypes, InboxTypes
<1> QED
  BY <1>1, <1>2, <1>3, <1>4, ReportsStep DEF Inv, OutInv

\* The invariant holds in every state.
LEMMA InvAlways == Spec => []Inv
  BY InitInv, InvStep, PTL DEF Spec

-----------------------------------------------------------------------------
(* The messages of MessageLife.                                            *)

Status == [m \in Message |-> message[m].status]

\* A step that changes the status of one message at most.
LEMMA OneStatus ==
  ASSUME OutTypes, NEW m \in Message, NEW row, message' = [message EXCEPT ![m] = row]
  PROVE  Status' = [Status EXCEPT ![m] = row.status]
  BY DEF OutTypes, Status

\* An update of the status alone.
LEMMA StatusSet ==
  ASSUME OutTypes, NEW m \in Message, NEW status, SetStatus(m, status)
  PROVE  Status' = [Status EXCEPT ![m] = status]
<1> DEFINE row == [message[m] EXCEPT !.status = status]
<1>1. row.status = status
  BY DEF OutTypes, MessageType
<1>2. message' = [message EXCEPT ![m] = row]
  BY DEF SetStatus, OutTypes
<1> HIDE DEF row
<1> QED
  BY <1>1, <1>2, OneStatus

\* A step of a message is one of its life, or changes nothing that is shown.
LEMMA LifeStep == Inv /\ [Next]_vars => [Life!Next]_<<Status, taken, blamed>>
<1> SUFFICES ASSUME Inv, [Next]_vars PROVE [Life!Next]_<<Status, taken, blamed>>
  OBVIOUS
<1>t. OutTypes /\ JobsSound
  BY DEF Inv, OutTypes, TypeOK
<1>s. \A m \in Message : Status[m] = message[m].status
  BY DEF Status
<1>u. ASSUME UNCHANGED <<message, taken>>, blamed \subseteq blamed'
      PROVE  [Life!Next]_<<Status, taken, blamed>>
  BY <1>u DEF Life!Next, Life!Blame, Status
<1>m. ASSUME NEW m \in Message, blamed \subseteq blamed',
             \/ Life!Create(m) /\ UNCHANGED blamed
             \/ Life!Take(m) \/ Life!Sent(m) \/ Life!Fail(m)
      PROVE  [Life!Next]_<<Status, taken, blamed>>
  BY <1>m DEF Life!Next, Life!Blame, Life!Create
<1>f. ASSUME NEW m \in Message, SetStatus(m, "failed"), UNCHANGED taken,
             blamed \subseteq blamed', m \in blamed', message[m].status # "none"
      PROVE  [Life!Next]_<<Status, taken, blamed>>
  <2>1. Status' = [Status EXCEPT ![m] = "failed"]
    BY <1>f, <1>t, StatusSet
  <2>2. message[m].status \in {"pending", "sent", "failed"}
    BY <1>f, <1>t DEF OutTypes, MessageType
  <2>3. CASE message[m].status \in {"pending", "sent"}
    BY <1>f, <1>m, <1>s, <2>1, <2>3 DEF Life!Fail, Status
  <2>4. CASE message[m].status = "failed"
    <3>1. Status' = Status
      BY <1>s, <2>1, <2>4 DEF Status
    <3> QED
      BY <1>f, <3>1 DEF Life!Next, Life!Blame, Status
  <2> QED
    BY <2>2, <2>3, <2>4
<1>1. CASE InboxNext /\ UNCHANGED outVars
  BY <1>1, <1>u DEF outVars
<1>2. ASSUME NEW q \in Request,
             \/ RequestTemplate(q) \/ ReportUnmatched(q) \/ ReportThrows(q)
             \/ \E batch \in SUBSET Inbound, m \in Message, event \in Event :
                   DeliverReport(q, batch, m, event)
      PROVE  [Life!Next]_<<Status, taken, blamed>>
  BY <1>2, <1>u DEF RequestTemplate, ReportUnmatched, ReportThrows, DeliverReport, outVars
<1>3. ASSUME NEW q \in Request, NEW m \in Message, CreatePending(q, m)
      PROVE  [Life!Next]_<<Status, taken, blamed>>
  <2>1. Status' = [Status EXCEPT ![m] = "pending"]
    BY <1>3, <1>t, StatusSet DEF CreatePending
  <2> QED
    BY <1>3, <1>m, <1>s, <2>1 DEF CreatePending, Life!Create, Status
<1>4. ASSUME NEW m \in Message, Accept(m) PROVE [Life!Next]_<<Status, taken, blamed>>
  <2>1. message[m].status = "pending" /\ m \notin taken
    BY <1>4, <1>t DEF Accept, JobsSound, JobSound
  <2> QED
    BY <1>4, <1>m, <1>s, <2>1 DEF Accept, Life!Take, Status
<1>5. ASSUME NEW m \in Message, Refuse(m) PROVE [Life!Next]_<<Status, taken, blamed>>
  BY <1>5, <1>u DEF Refuse
<1>6. ASSUME NEW m \in Message, job[m] = "store", blamed \subseteq blamed', UNCHANGED taken,
             message' = [message EXCEPT ![m] = [status |-> "sent", wamid |-> TRUE]]
      PROVE  [Life!Next]_<<Status, taken, blamed>>
  <2>1. message[m].status = "pending" /\ m \in taken
    BY <1>6, <1>t DEF JobsSound, JobSound
  <2>2. Status' = [Status EXCEPT ![m] = "sent"]
    BY <1>6, <1>t DEF OutTypes, Status
  <2> QED
    BY <1>6, <1>m, <1>s, <2>1, <2>2 DEF Life!Sent, Status
<1>7. ASSUME NEW m \in Message, StoreFailed(m) PROVE [Life!Next]_<<Status, taken, blamed>>
  <2>1. message[m].status # "none" /\ m \in blamed
    BY <1>7, <1>t DEF StoreFailed, JobsSound, JobSound
  <2> QED
    BY <1>7, <1>f, <2>1 DEF StoreFailed
<1>8. ASSUME NEW m \in Message, JobFails(m) PROVE [Life!Next]_<<Status, taken, blamed>>
  <2>b. blamed \subseteq blamed' /\ m \in blamed'
    BY <1>8 DEF JobFails
  <2>1. CASE job[m] = "send"
    <3>1. message[m].status = "pending" /\ m \notin taken
      BY <1>t, <2>1 DEF JobsSound, JobSound
    <3>2. message' = message /\ taken' \in {taken, taken \union {m}}
      BY <1>8, <2>1 DEF JobFails
    <3> QED
      BY <1>m, <1>s, <1>u, <2>b, <3>1, <3>2 DEF Life!Take, Status
  <2>2. CASE job[m] = "store"
    BY <1>8, <1>6, <1>u, <2>b, <2>2 DEF JobFails
  <2>3. CASE job[m] = "fail"
    <3>1. message[m].status # "none"
      BY <1>t, <2>3 DEF JobsSound, JobSound
    <3>2. UNCHANGED taken /\ (message' = message \/ SetStatus(m, "failed"))
      BY <1>8, <2>3 DEF JobFails, SetStatus
    <3> QED
      BY <1>f, <1>u, <2>b, <3>1, <3>2
  <2> QED
    BY <1>8, <2>1, <2>2, <2>3 DEF JobFails
<1>9. ASSUME NEW q \in Request, ReportFailed(q) PROVE [Life!Next]_<<Status, taken, blamed>>
  <2>0. PICK m : m = request[q].report[1]
    OBVIOUS
  <2>1. request[q].report \in Report /\ request[q].report[2] = "failed" /\ message[m].wamid
    BY <1>9, <2>0 DEF ReportFailed, At, Inv, InboxInv, RequestsSound, RecordSound
  <2>2. m \in Message
    BY <2>0, <2>1 DEF Report
  <2>3. m \in blamed
    BY <2>0, <2>1, ReportAssumption DEF Inv, ReportsSound
  <2>4. message[m].status # "none"
    BY <1>t, <2>1, <2>2 DEF JobsSound, JobSound
  <2> QED
    BY <1>9, <1>f, <2>0, <2>2, <2>3, <2>4 DEF ReportFailed
<1>10. CASE Crash \/ UNCHANGED vars
  BY <1>10, <1>u DEF Crash, vars, outVars
<1>11. ASSUME NEW m \in Message, StoreSent(m) PROVE [Life!Next]_<<Status, taken, blamed>>
  BY <1>6, <1>11 DEF StoreSent
<1> QED
  BY <1>1, <1>2, <1>3, <1>4, <1>5, <1>7, <1>8, <1>9, <1>10, <1>11 DEF Next, JobStep

-----------------------------------------------------------------------------
(* The theorems.                                                           *)

\* Rows, records and jobs have their types.
THEOREM TypesHold == Spec => []TypeOK
<1>1. Inv => TypeOK
  BY DEF Inv
<1> QED
  BY <1>1, InvAlways, PTL

\* WhatsApp is told of no message of an account that it is dealt with before it
\* is stored; one for a number without an account is dropped.
THEOREM AckedAreStored == Spec => []AckedIsStored
<1>1. Inv => AckedIsStored
  BY DEF Inv, InboxInv
<1> QED
  BY <1>1, InvAlways, PTL

\* A contact whose messages nobody has read is shown as unread, unless a failed
\* call or a reader between his two writes has it otherwise.
THEOREM UnreadAreFlagged == Spec => []UnreadIsFlagged
<1>1. Inv => UnreadIsFlagged
  BY DEF Inv, InboxInv
<1> QED
  BY <1>1, InvAlways, PTL

\* One number gets at most as many contacts as requests are handled at a time.
THEOREM FewContacts == Spec => []ContactsBounded
<1>1. Inv => ContactsBounded
  <2> SUFFICES ASSUME Inv PROVE ContactsBounded
    OBVIOUS
  <2>1. IsFiniteSet(Creators)
    BY FS_Subset, InboxAssumption DEF Creators
  <2>2. /\ Cardinality(Creators) \in Nat /\ Cardinality(contacts) \in Nat
        /\ Cardinality(Request) \in Nat
    BY <2>1, FS_CardinalityType, InboxAssumption DEF Inv, InboxInv
  <2> QED
    BY <2>2 DEF Inv, InboxInv, CreatorsBounded, ContactsBounded
<1> QED
  BY <1>1, InvAlways, PTL

\* A pending message has a job, unless a failure took it away.
THEOREM PendingHaveJobs == Spec => []PendingHasJob
<1>1. Inv => PendingHasJob
  BY DEF Inv
<1> QED
  BY <1>1, InvAlways, PTL

\* The sender, its error paths and the callbacks implement MessageLife.
THEOREM LifeImplemented == Spec => LifeSpec
<1>1. Init => Life!Init
  BY DEF Init, Life!Init
<1>2. Inv /\ [Next]_vars => [Life!Next]_<<Status, taken, blamed>>
  BY LifeStep
<1> QED
  BY <1>1, <1>2, InvAlways, PTL DEF Spec, LifeSpec, Life!Spec, Status
=============================================================================
