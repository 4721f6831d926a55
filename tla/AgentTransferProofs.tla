------------------------- MODULE AgentTransferProofs -------------------------
(***************************************************************************)
(* Proofs about AgentTransfer, for any agents, contacts, transfers,        *)
(* requests and failures: what an agent who went away may keep, and how a  *)
(* contact comes to two active transfers.                                  *)
(***************************************************************************)
EXTENDS AgentTransfer, FiniteSetTheorems, TLAPS

-----------------------------------------------------------------------------
(* The inductive invariant.                                                *)

\* What a request holds when it comes to each of its calls.
Sound(r) ==
    /\ r \in RequestType
    /\ r.pc = "check" => r.target \in Agent
    /\ r.pc = "insert" => r.transfer = None
    /\ r.pc \in {"check", "insert", "take", "write", "stick", "clear"} => r.contact \in Contact
    /\ r.pc \in {"take", "write", "resume"} => r.transfer \in Transfer
    /\ r.pc \in {"list", "release"} => r.agent \in Agent

RequestsSound == \A q \in Request : Sound(request[q])

\* An active transfer has a contact.
RowsSound == \A t \in Transfer : Active(t) => transfer[t].contact \in Contact

\* Whoever vouches for an agent has seen him available, and he still is.
VouchersTrue == \A q \in Request : request[q].vouched = TRUE =>
    request[q].target \in Agent /\ available[request[q].target] = TRUE

\* Of a contact for which no two creates overlapped: one active transfer at most,
\* and one create at most, that has found none.
OneCreate == \A c \in Contact \ overlapped :
    /\ \A t, u \in ActiveOf(c) : t = u
    /\ \A p, q \in Request : Creating(p, c) /\ Creating(q, c) => p = q
    /\ \A p \in Request : Creating(p, c) => ActiveOf(c) = {}

Inv == TypeOK /\ RequestsSound /\ RowsSound /\ VouchersTrue /\ AwayHoldsOnlyUnseen /\ OneCreate

\* Of a request that has been answered nothing is kept.
LEMMA IdleSound == Sound(NoRequest) /\ NoRequest.pc = "idle" /\ NoRequest.vouched = FALSE
  BY DEF NoRequest, RequestType, Pcs, Sound

\* Initially there are no transfers and everybody is available.
LEMMA InitInv == Init => Inv
<1> SUFFICES ASSUME Init PROVE Inv
  OBVIOUS
<1> USE TransferAssumption DEF Init
<1>1. NoTransfer \in TransferType
  BY DEF NoTransfer, TransferType, TransferStatus
<1>2. RequestsSound /\ request \in [Request -> RequestType]
  BY IdleSound DEF RequestsSound, Sound
<1>3. TypeOK
  BY <1>1, <1>2 DEF TypeOK
<1>4. RowsSound /\ VouchersTrue /\ AwayHoldsOnlyUnseen
  BY IdleSound DEF RowsSound, VouchersTrue, AwayHoldsOnlyUnseen, NoTransfer, HeldBy, Active
<1>5. OneCreate
  BY IdleSound DEF OneCreate, ActiveOf, Active, Creating, NoTransfer
<1> QED
  BY <1>2, <1>3, <1>4, <1>5 DEF Inv

-----------------------------------------------------------------------------
(* Requests.                                                               *)

\* A record that a request gets is sound, and vouches only for an agent it has
\* just seen, or had vouched for before.
Follows(q, s) ==
    /\ Sound(s)
    /\ s.vouched = TRUE => \/ s.target \in Agent /\ available[s.target] = TRUE
                           \/ request[q].vouched = TRUE /\ s.target = request[q].target

\* An answer.
LEMMA IdleFollows == ASSUME NEW q \in Request PROVE Follows(q, NoRequest)
  BY IdleSound DEF Follows

\* What a request goes on with, if it has what the next call needs.
LEMMA GoFollows ==
  ASSUME NEW q \in Request, Sound(request[q]), NEW pc \in {"stick", "clear"},
         request[q].contact \in Contact
  PROVE  Follows(q, [request[q] EXCEPT !.pc = pc])
  BY DEF Follows, Sound, RequestType, Pcs

\* What is read of a transfer.
LEMMA ReadsSound ==
  ASSUME TypeOK, RowsSound, NEW t \in Transfer, Active(t), NEW a \in Agent \union {None},
         NEW pc \in {"take", "write", "check"}, pc = "check" => a # None,
         NEW s, s = [Reads(t, a) EXCEPT !.pc = pc]
  PROVE  Sound(s) /\ s.vouched = FALSE
<1> DEFINE c == transfer[t].contact
           read == CASE a # None /\ assigned[c] = None -> "free"
                     [] a = None /\ assigned[c] # None /\ assigned[c] = transfer[t].agent -> "holder"
                     [] OTHER -> "nothing"
<1>1. c \in Contact
  BY DEF RowsSound, Active
<1>2. read \in {"nothing", "free", "holder"}
  OBVIOUS
<1>3. Reads(t, a) = [NoRequest EXCEPT !.transfer = t, !.contact = c, !.target = a, !.read = read]
  BY DEF Reads
<1> HIDE DEF read, c
<1>4. NoRequest \in RequestType /\ NoRequest.vouched = FALSE
  BY IdleSound DEF Sound
<1>5. s = [[NoRequest EXCEPT !.transfer = t, !.contact = c, !.target = a, !.read = read]
               EXCEPT !.pc = pc]
  BY <1>3
<1>6. /\ s \in RequestType /\ s.pc = pc /\ s.transfer = t /\ s.contact = c /\ s.target = a
      /\ s.vouched = FALSE
  BY <1>1, <1>2, <1>4, <1>5 DEF RequestType, Pcs
<1>7. Sound(s)
  BY <1>1, <1>6 DEF Sound
<1> QED
  BY <1>6, <1>7

\* Steps of requests other than the one that goes away.
Others(q) ==
    \/ \E c \in Contact, target \in Agent \union {None} : FindNoActive(q, c, target)
    \/ CheckTarget(q)
    \/ \E t \in Transfer : Insert(q, t)
    \/ \E a \in Agent, t \in Transfer : FindUnassigned(q, a, t)
    \/ Take(q)
    \/ \E a \in Agent, t \in Transfer, target \in Agent \union {None}, named \in BOOLEAN :
          ReadTransfer(q, a, t, target, named)
    \/ WriteAgent(q) \/ Stick(q) \/ Clear(q)
    \/ \E t \in Transfer : FindActive(q, t)
    \/ Resume(q)
    \/ ListHeld(q)
    \/ \E t \in Transfer : Release(q, t)
    \/ Released(q)
    \/ RequestFails(q)

\* Each of them gives its request a record that follows from the one it had.
LEMMA OthersMove ==
  ASSUME TypeOK, RequestsSound, RowsSound, NEW q \in Request, Others(q)
  PROVE  (\E s : Become(q, s) /\ Follows(q, s)) /\ UNCHANGED available
<1>0. PICK r : r = request[q] /\ Sound(r) /\ r \in RequestType
  BY DEF RequestsSound, Sound
<1>t. request \in [Request -> RequestType]
  BY DEF TypeOK
<1>1. ASSUME NEW c \in Contact, NEW target \in Agent \union {None}, FindNoActive(q, c, target)
      PROVE  (\E s : Become(q, s) /\ Follows(q, s)) /\ UNCHANGED available
  <2> DEFINE pc == IF target = None THEN "insert" ELSE "check"
             s == [NoRequest EXCEPT !.pc = pc, !.contact = c, !.target = target]
  <2>1. pc \in {"insert", "check"} /\ (pc = "check" => target \in Agent)
    OBVIOUS
  <2>2. Become(q, s) /\ UNCHANGED available
    BY <1>1 DEF FindNoActive, rows
  <2> HIDE DEF pc
  <2>3. NoRequest \in RequestType /\ NoRequest.vouched = FALSE /\ NoRequest.transfer = None
    BY IdleSound DEF Sound, NoRequest
  <2>4. /\ s \in RequestType /\ s.pc = pc /\ s.transfer = None /\ s.contact = c /\ s.target = target
        /\ s.vouched = FALSE
    BY <2>1, <2>3 DEF RequestType, Pcs
  <2>5. Follows(q, s)
    BY <2>1, <2>4 DEF Follows, Sound
  <2> QED
    BY <2>2, <2>5
<1>2. ASSUME CheckTarget(q)
      PROVE  (\E s : Become(q, s) /\ Follows(q, s)) /\ UNCHANGED available
  <2> DEFINE pc == IF r.transfer = None THEN "insert" ELSE "write"
             s == [r EXCEPT !.vouched = TRUE, !.pc = pc]
  <2>1. r.pc = "check" /\ UNCHANGED available
    BY <1>0, <1>2 DEF CheckTarget, At, rows
  <2>2. CASE available[r.target] /\ Become(q, s)
    <3>1. pc \in {"insert", "write"} /\ (pc = "insert" => r.transfer = None)
          /\ (pc = "write" => r.transfer # None)
      OBVIOUS
    <3> HIDE DEF pc
    <3>2. /\ s \in RequestType /\ s.pc = pc /\ s.target = r.target /\ s.contact = r.contact
          /\ s.transfer = r.transfer
      BY <1>0, <3>1 DEF RequestType, Pcs
    <3>3. Sound(s)
      BY <1>0, <2>1, <3>1, <3>2 DEF Sound, RequestType
    <3>4. r.target \in Agent
      BY <1>0, <2>1 DEF Sound
    <3>5. available[r.target] = TRUE
      BY <2>2, <3>4 DEF TypeOK
    <3> QED
      BY <2>1, <2>2, <3>2, <3>3, <3>4, <3>5 DEF Follows
  <2>3. CASE Respond(q)
    BY <2>1, <2>3, IdleFollows DEF Respond
  <2> QED
    BY <1>0, <1>2, <2>2, <2>3 DEF CheckTarget
<1>3. ASSUME NEW a \in Agent, NEW t \in Transfer, FindUnassigned(q, a, t)
      PROVE  (\E s : Become(q, s) /\ Follows(q, s)) /\ UNCHANGED available
  <2>1. PICK s : s = [Reads(t, a) EXCEPT !.pc = "take"]
    OBVIOUS
  <2>2. Become(q, s) /\ Active(t) /\ UNCHANGED available
    BY <1>3, <2>1 DEF FindUnassigned, rows
  <2>3. Sound(s) /\ s.vouched = FALSE
    BY <2>1, <2>2, ReadsSound
  <2> QED
    BY <2>2, <2>3 DEF Follows
<1>4. ASSUME NEW a \in Agent, NEW t \in Transfer, NEW target \in Agent \union {None},
             NEW named \in BOOLEAN, ReadTransfer(q, a, t, target, named)
      PROVE  (\E s : Become(q, s) /\ Follows(q, s)) /\ UNCHANGED available
  <2>1. PICK pc \in {"check", "write"} :
            /\ pc = IF named /\ target # None THEN "check" ELSE "write"
            /\ pc = "check" => target # None
    OBVIOUS
  <2>2. PICK s : s = [Reads(t, target) EXCEPT !.pc = pc]
    OBVIOUS
  <2>3. Become(q, s) /\ Active(t) /\ UNCHANGED available
    BY <1>4, <2>1, <2>2 DEF ReadTransfer, rows
  <2>4. Sound(s) /\ s.vouched = FALSE
    BY <2>1, <2>2, <2>3, ReadsSound
  <2> QED
    BY <2>3, <2>4 DEF Follows
<1>5. ASSUME Take(q) \/ WriteAgent(q)
      PROVE  (\E s : Become(q, s) /\ Follows(q, s)) /\ UNCHANGED available
  <2>1. r.contact \in Contact /\ UNCHANGED available
    BY <1>0, <1>5 DEF Take, WriteAgent, At, Sound
  <2>2. \/ Respond(q) \/ To(q, "stick") \/ To(q, "clear")
    BY <1>5 DEF Take, WriteAgent
  <2>3. \A pc : To(q, pc) => Become(q, [request[q] EXCEPT !.pc = pc])
    BY <1>t DEF To, Become
  <2> QED
    BY <1>0, <2>1, <2>2, <2>3, GoFollows, IdleFollows DEF Respond
<1>6. ASSUME (\E t \in Transfer : Insert(q, t)) \/ Stick(q) \/ Clear(q) \/ Resume(q) \/ Released(q)
             \/ RequestFails(q)
      PROVE  (\E s : Become(q, s) /\ Follows(q, s)) /\ UNCHANGED available
  BY <1>6, IdleFollows DEF Insert, Stick, Clear, Resume, Released, RequestFails, Respond, rows
<1>7. ASSUME NEW t \in Transfer, FindActive(q, t)
      PROVE  (\E s : Become(q, s) /\ Follows(q, s)) /\ UNCHANGED available
  <2> DEFINE s == [NoRequest EXCEPT !.pc = "resume", !.transfer = t]
  <2>1. NoRequest \in RequestType /\ NoRequest.vouched = FALSE
    BY IdleSound DEF Sound
  <2>2. s \in RequestType /\ s.pc = "resume" /\ s.transfer = t /\ s.vouched = FALSE
    BY <2>1 DEF RequestType, Pcs
  <2> QED
    BY <1>7, <2>2 DEF FindActive, Follows, Sound, rows
<1>8. ASSUME ListHeld(q)
      PROVE  (\E s : Become(q, s) /\ Follows(q, s)) /\ UNCHANGED available
  <2> DEFINE held == HeldBy(r.agent)
             s == [r EXCEPT !.pc = "release", !.todo = held]
  <2>1. held \in SUBSET Transfer
    BY DEF HeldBy
  <2>2. Become(q, s) /\ r.pc = "list" /\ UNCHANGED available
    BY <1>0, <1>8 DEF ListHeld, At, rows
  <2> HIDE DEF held
  <2>3. s \in RequestType /\ s.pc = "release" /\ s.agent = r.agent /\ s.vouched = r.vouched
        /\ s.target = r.target
    BY <1>0, <2>1 DEF RequestType, Pcs
  <2> QED
    BY <1>0, <2>2, <2>3 DEF Follows, Sound
<1>9. ASSUME NEW t \in Transfer, Release(q, t)
      PROVE  (\E s : Become(q, s) /\ Follows(q, s)) /\ UNCHANGED available
  <2> DEFINE s == [r EXCEPT !.todo = r.todo \ {t}]
  <2>1. Become(q, s) /\ r.pc = "release" /\ UNCHANGED available
    BY <1>0, <1>9, <1>t DEF Release, At, Become
  <2>2. s \in RequestType /\ s.pc = "release" /\ s.agent = r.agent /\ s.vouched = r.vouched
        /\ s.target = r.target
    BY <1>0, <2>1 DEF RequestType
  <2> QED
    BY <1>0, <2>1, <2>2 DEF Follows, Sound
<1> QED
  BY <1>1, <1>2, <1>3, <1>4, <1>5, <1>6, <1>7, <1>8, <1>9 DEF Others

\* Going away begins with a request of its own, and takes the word of those who
\* had vouched for the agent.
LEMMA GoAwayMoves ==
  ASSUME TypeOK, RequestsSound, NEW q \in Request, NEW a \in Agent, GoAway(q, a)
  PROVE  /\ \A p \in Request : Sound(request'[p]) /\ request'[p] \in RequestType
         /\ request' \in [Request -> RequestType]
         /\ request'[q].pc = "list" /\ request'[q].agent = a /\ request'[q].vouched = FALSE
         /\ \A p \in Request : p # q =>
               /\ request'[p].pc = request[p].pc /\ request'[p].agent = request[p].agent
               /\ request'[p].transfer = request[p].transfer
               /\ request'[p].contact = request[p].contact
               /\ request'[p].target = request[p].target
               /\ request'[p].todo = request[p].todo
               /\ request'[p].vouched = TRUE => request[p].vouched = TRUE /\ request[p].target # a
<1> DEFINE s == [NoRequest EXCEPT !.pc = "list", !.agent = a]
<1>1. /\ s \in RequestType /\ s.pc = "list" /\ s.agent = a /\ s.vouched = FALSE
  <2>1. NoRequest \in RequestType /\ NoRequest.vouched = FALSE
    BY IdleSound DEF Sound
  <2> QED
    BY <2>1 DEF RequestType, Pcs
<1>2. Sound(s)
  BY <1>1 DEF Sound
<1>3. request' = [p \in Request |-> IF p = q THEN s
                  ELSE IF request[p].target = a THEN [request[p] EXCEPT !.vouched = FALSE]
                                                ELSE request[p]]
  BY DEF GoAway, Unvouched
<1> HIDE DEF s
<1>4. request'[q] = s
  BY <1>3
<1>5. ASSUME NEW p \in Request, p # q
      PROVE  /\ Sound(request'[p]) /\ request'[p] \in RequestType
             /\ request'[p].pc = request[p].pc /\ request'[p].agent = request[p].agent
             /\ request'[p].transfer = request[p].transfer
             /\ request'[p].contact = request[p].contact
             /\ request'[p].target = request[p].target
             /\ request'[p].todo = request[p].todo
             /\ request'[p].vouched = TRUE => request[p].vouched = TRUE /\ request[p].target # a
  <2>0. PICK r : r = request[p] /\ Sound(r) /\ r \in RequestType
    BY DEF RequestsSound, Sound
  <2>1. CASE r.target = a
    <3>1. PICK u : u = [r EXCEPT !.vouched = FALSE]
      OBVIOUS
    <3>2. /\ u \in RequestType /\ u.pc = r.pc /\ u.agent = r.agent /\ u.transfer = r.transfer
          /\ u.contact = r.contact /\ u.target = r.target /\ u.todo = r.todo /\ u.vouched = FALSE
      BY <2>0, <3>1 DEF RequestType
    <3>3. Sound(u)
      BY <2>0, <3>2 DEF Sound
    <3>4. request'[p] = u
      BY <1>3, <1>5, <2>0, <2>1, <3>1
    <3> QED
      BY <2>0, <3>2, <3>3, <3>4
  <2>2. CASE r.target # a
    <3>1. request'[p] = r
      BY <1>3, <1>5, <2>0, <2>2
    <3> QED
      BY <2>0, <2>2, <3>1
  <2> QED
    BY <2>1, <2>2
<1>6. request' \in [Request -> RequestType]
  BY <1>1, <1>3, <1>4, <1>5
<1> QED
  BY <1>1, <1>2, <1>4, <1>5, <1>6

\* Requests stay sound, and vouch only for agents who are available.
LEMMA RequestsStep ==
  ASSUME TypeOK, RequestsSound, RowsSound, VouchersTrue, [Next]_vars
  PROVE  RequestsSound' /\ VouchersTrue' /\ request' \in [Request -> RequestType]
<1>t. request \in [Request -> RequestType] /\ available \in [Agent -> BOOLEAN]
  BY DEF TypeOK
<1>1. ASSUME NEW q \in Request, Others(q)
      PROVE  RequestsSound' /\ VouchersTrue' /\ request' \in [Request -> RequestType]
  <2>1. PICK s : Become(q, s) /\ Follows(q, s)
    BY <1>1, OthersMove
  <2>2. UNCHANGED available
    BY <1>1, OthersMove
  <2>3. request'[q] = s /\ \A p \in Request : p # q => request'[p] = request[p]
    BY <1>t, <2>1 DEF Become
  <2>4. RequestsSound'
    BY <2>1, <2>3 DEF RequestsSound, Follows, Sound
  <2>5. VouchersTrue'
    BY <2>1, <2>2, <2>3 DEF VouchersTrue, Follows
  <2>6. s \in RequestType
    BY <2>1 DEF Follows, Sound
  <2> QED
    BY <1>t, <2>1, <2>4, <2>5, <2>6 DEF Become
<1>2. ASSUME NEW q \in Request, NEW a \in Agent, ComeBack(q, a)
      PROVE  RequestsSound' /\ VouchersTrue' /\ request' \in [Request -> RequestType]
  <2>1. UNCHANGED request /\ \A b \in Agent : available[b] = TRUE => available'[b] = TRUE
    BY <1>2, <1>t DEF ComeBack
  <2> QED
    BY <1>t, <2>1 DEF RequestsSound, Sound, VouchersTrue
<1>3. ASSUME NEW q \in Request, NEW a \in Agent, GoAway(q, a)
      PROVE  RequestsSound' /\ VouchersTrue' /\ request' \in [Request -> RequestType]
  <2>1. \A p \in Request : Sound(request'[p])
    BY <1>3, GoAwayMoves
  <2>2. \A b \in Agent : b # a => available'[b] = available[b]
    BY <1>3, <1>t DEF GoAway
  <2>3. \A p \in Request : request'[p].vouched = TRUE =>
           p # q /\ request[p].vouched = TRUE /\ request[p].target # a
           /\ request'[p].target = request[p].target
    <3>1. request'[q].vouched # TRUE
      BY <1>3, GoAwayMoves
    <3> QED
      BY <1>3, <3>1, GoAwayMoves
  <2>4. VouchersTrue'
    BY <2>2, <2>3 DEF VouchersTrue
  <2>5. RequestsSound'
    BY <2>1 DEF RequestsSound, Sound
  <2> QED
    BY <1>3, <2>4, <2>5, GoAwayMoves
<1>4. ASSUME UNCHANGED <<request, available>>
      PROVE  RequestsSound' /\ VouchersTrue' /\ request' \in [Request -> RequestType]
  BY <1>4, <1>t DEF RequestsSound, Sound, VouchersTrue
<1>5. ASSUME NEW c \in Contact, NEW a \in Agent \union {None}, AssignContact(c, a)
      PROVE  UNCHANGED <<request, available>>
  BY <1>5 DEF AssignContact
<1> QED
  BY <1>1, <1>2, <1>3, <1>4, <1>5 DEF Next, Others, vars

-----------------------------------------------------------------------------
(* Rows.                                                                   *)

\* A row that is given to somebody, or to nobody, is the same transfer.
LEMMA Given ==
  ASSUME TypeOK, NEW t \in Transfer, NEW a \in Agent \union {None}, NEW v \in BOOLEAN,
         SetAgent(t, a, v)
  PROVE  /\ transfer' \in [Transfer -> TransferType]
         /\ transfer'[t].agent = a /\ transfer'[t].vouched = v
         /\ transfer'[t].status = transfer[t].status /\ transfer'[t].contact = transfer[t].contact
         /\ \A u \in Transfer : u # t => transfer'[u] = transfer[u]
<1>1. PICK r : r = [transfer[t] EXCEPT !.agent = a, !.vouched = v]
  OBVIOUS
<1>2. transfer[t] \in TransferType /\ transfer \in [Transfer -> TransferType]
  BY DEF TypeOK
<1>3. /\ r \in TransferType /\ r.agent = a /\ r.vouched = v /\ r.status = transfer[t].status
      /\ r.contact = transfer[t].contact
  BY <1>1, <1>2 DEF TransferType
<1>4. transfer' = [transfer EXCEPT ![t] = r]
  BY <1>1 DEF SetAgent
<1> QED
  BY <1>2, <1>3, <1>4

\* A row that is resumed is not active any more.
LEMMA Resumed ==
  ASSUME TypeOK, NEW t \in Transfer, transfer' = [transfer EXCEPT ![t].status = "resumed"]
  PROVE  /\ transfer' \in [Transfer -> TransferType]
         /\ transfer'[t].status = "resumed"
         /\ \A u \in Transfer : u # t => transfer'[u] = transfer[u]
<1>1. PICK r : r = [transfer[t] EXCEPT !.status = "resumed"]
  OBVIOUS
<1>2. transfer[t] \in TransferType /\ transfer \in [Transfer -> TransferType]
  BY DEF TypeOK
<1>3. r \in TransferType /\ r.status = "resumed"
  BY <1>1, <1>2 DEF TransferType, TransferStatus
<1>4. transfer' = [transfer EXCEPT ![t] = r]
  BY <1>1, <1>2
<1> QED
  BY <1>2, <1>3, <1>4

\* A row that is created has the contact and the agent of its request.
LEMMA Inserted ==
  ASSUME TypeOK, RequestsSound, NEW q \in Request, NEW t \in Transfer, Insert(q, t)
  PROVE  /\ transfer' \in [Transfer -> TransferType]
         /\ transfer[t].status = "none" /\ transfer'[t].status = "active"
         /\ transfer'[t].contact = request[q].contact /\ request[q].contact \in Contact
         /\ transfer'[t].agent = request[q].target
         /\ transfer'[t].vouched = request[q].vouched
         /\ \A u \in Transfer : u # t => transfer'[u] = transfer[u]
<1>1. PICK q0 : q0 = request[q] /\ Sound(q0) /\ q0.pc = "insert"
  BY DEF RequestsSound, Insert, At
<1>2. PICK r : r = [status |-> "active", contact |-> q0.contact, agent |-> q0.target,
                    vouched |-> q0.vouched]
  OBVIOUS
<1>3. r \in TransferType /\ q0.contact \in Contact
  BY <1>1, <1>2 DEF Sound, RequestType, TransferType, TransferStatus
<1>4. transfer' = [transfer EXCEPT ![t] = r] /\ transfer[t].status = "none"
  BY <1>1, <1>2 DEF Insert
<1>5. transfer \in [Transfer -> TransferType]
  BY DEF TypeOK
<1> QED
  BY <1>1, <1>2, <1>3, <1>4, <1>5

\* Every step keeps the types and the contacts of active transfers.
LEMMA TypeStep ==
  ASSUME TypeOK, RequestsSound, RowsSound, VouchersTrue, [Next]_vars
  PROVE  TypeOK' /\ RowsSound'
<1>t. /\ transfer \in [Transfer -> TransferType] /\ available \in [Agent -> BOOLEAN]
      /\ assigned \in [Contact -> Agent \union {None}] /\ failures \in 0 .. MaxFailures
      /\ cut \subseteq Agent /\ overlapped \subseteq Contact
  BY DEF TypeOK
<1>r. request' \in [Request -> RequestType]
  BY RequestsStep
<1>q. ASSUME NEW q \in Request
      PROVE  Sound(request[q]) /\ request[q] \in RequestType
  BY DEF RequestsSound, Sound
<1> DEFINE Rest == /\ available' \in [Agent -> BOOLEAN]
                   /\ assigned' \in [Contact -> Agent \union {None}]
                   /\ failures' \in 0 .. MaxFailures /\ cut' \subseteq Agent
                   /\ overlapped' \subseteq Contact
<1>u. ASSUME UNCHANGED transfer, Rest PROVE TypeOK' /\ RowsSound'
  BY <1>u, <1>t, <1>r DEF TypeOK, RowsSound, Active
<1>1. ASSUME NEW q \in Request, NEW c \in Contact, NEW target \in Agent \union {None},
             FindNoActive(q, c, target)
      PROVE  TypeOK' /\ RowsSound'
  BY <1>1, <1>t, <1>u DEF FindNoActive, NoteOverlap, rows
<1>2. ASSUME NEW q \in Request, CheckTarget(q) \/ Released(q) PROVE TypeOK' /\ RowsSound'
  BY <1>2, <1>t, <1>u DEF CheckTarget, Released, rows, observed
<1>3. ASSUME NEW q \in Request, NEW t \in Transfer, Insert(q, t) PROVE TypeOK' /\ RowsSound'
  <2>1. Rest
    BY <1>3, <1>t DEF Insert, observed
  <2> QED
    BY <1>3, <1>r, <2>1, Inserted DEF TypeOK, RowsSound, Active
<1>4. ASSUME NEW q \in Request, NEW t \in Transfer,
             \/ FindActive(q, t) \/ \E a \in Agent : FindUnassigned(q, a, t)
             \/ \E a \in Agent, target \in Agent \union {None}, named \in BOOLEAN :
                   ReadTransfer(q, a, t, target, named)
      PROVE  TypeOK' /\ RowsSound'
  BY <1>4, <1>t, <1>u DEF FindActive, FindUnassigned, ReadTransfer, rows, observed
<1>g. ASSUME NEW t \in Transfer, NEW a \in Agent \union {None}, NEW v \in BOOLEAN,
             SetAgent(t, a, v), Rest
      PROVE  TypeOK' /\ RowsSound'
  BY <1>g, <1>r, Given DEF TypeOK, RowsSound, Active
<1>5. ASSUME NEW q \in Request, Take(q) \/ WriteAgent(q) PROVE TypeOK' /\ RowsSound'
  <2>1. /\ request[q].transfer \in Transfer /\ request[q].target \in Agent \union {None}
        /\ request[q].vouched \in BOOLEAN
    BY <1>5, <1>q DEF Take, WriteAgent, At, Sound, RequestType
  <2>2. Rest
    BY <1>5, <1>t DEF Take, WriteAgent, observed
  <2> QED
    BY <1>5, <1>g, <2>1, <2>2 DEF Take, WriteAgent
<1>6. ASSUME NEW q \in Request, Stick(q) \/ Clear(q) PROVE TypeOK' /\ RowsSound'
  <2>1. request[q].contact \in Contact /\ request[q].target \in Agent \union {None}
    BY <1>6, <1>q DEF Stick, Clear, At, Sound, RequestType
  <2>2. assigned' \in [Contact -> Agent \union {None}]
    BY <1>6, <1>t, <2>1 DEF Stick, Clear
  <2> QED
    BY <1>6, <1>t, <1>u, <2>2 DEF Stick, Clear, observed
<1>7. ASSUME NEW q \in Request, Resume(q) PROVE TypeOK' /\ RowsSound'
  <2>1. PICK t \in Transfer : transfer' = [transfer EXCEPT ![t].status = "resumed"]
    BY <1>7, <1>q DEF Resume, At, Sound
  <2>2. Rest
    BY <1>7, <1>t DEF Resume, observed
  <2> QED
    BY <1>r, <2>1, <2>2, Resumed DEF TypeOK, RowsSound, Active
<1>8. ASSUME NEW q \in Request, NEW a \in Agent, ComeBack(q, a) \/ GoAway(q, a)
      PROVE  TypeOK' /\ RowsSound'
  BY <1>8, <1>t, <1>u DEF ComeBack, GoAway, observed
<1>9. ASSUME NEW q \in Request, ListHeld(q) PROVE TypeOK' /\ RowsSound'
  BY <1>9, <1>t, <1>u DEF ListHeld, rows
<1>10. ASSUME NEW q \in Request, NEW t \in Transfer, Release(q, t) PROVE TypeOK' /\ RowsSound'
  <2>1. Rest
    BY <1>10, <1>t DEF Release, observed
  <2> QED
    BY <1>10, <1>g, <2>1 DEF Release
<1>11. ASSUME NEW q \in Request, RequestFails(q) PROVE TypeOK' /\ RowsSound'
  <2>1. cut' \subseteq Agent
    BY <1>11, <1>t, <1>q DEF RequestFails, Sound
  <2>2. failures' \in 0 .. MaxFailures
    BY <1>11, <1>t, TransferAssumption DEF RequestFails
  <2> QED
    BY <1>11, <1>t, <1>u, <2>1, <2>2 DEF RequestFails, rows
<1>12. ASSUME NEW c \in Contact, NEW a \in Agent \union {None}, AssignContact(c, a)
       PROVE  TypeOK' /\ RowsSound'
  BY <1>12, <1>t, <1>u DEF AssignContact, observed
<1>13. CASE UNCHANGED vars
  BY <1>13, <1>t, <1>u DEF vars
<1> QED
  BY <1>1, <1>2, <1>3, <1>4, <1>5, <1>6, <1>7, <1>8, <1>9, <1>10, <1>11, <1>12, <1>13 DEF Next

-----------------------------------------------------------------------------
(* What an agent who went away keeps.                                      *)

\* A chat of agent a that somebody gave him who had seen him available.
Entrusted(a, t) == Active(t) /\ transfer[t].agent = a /\ transfer[t].vouched

\* A request that still has it to release.
Witness(q, a, t) ==
    /\ request[q].agent = a
    /\ At(q, "list") \/ (At(q, "release") /\ t \in request[q].todo)

\* The step of one request keeps what is said of agents who are away, if it
\* entrusts nothing to one of them and goes on releasing what it had to.
LEMMA AwayKept ==
  ASSUME AwayHoldsOnlyUnseen, NEW q \in Request, UNCHANGED available,
         \A p \in Request : p # q => request'[p] = request[p],
         \A a \in Agent, t \in Transfer : a \notin cut' /\ ~available[a] /\ Entrusted(a, t)' =>
            \/ Witness(q, a, t)'
            \/ a \notin cut /\ Entrusted(a, t) /\ (Witness(q, a, t) => Witness(q, a, t)')
  PROVE  AwayHoldsOnlyUnseen'
<1> SUFFICES ASSUME NEW a \in Agent, NEW t \in Transfer,
                    a \notin cut', ~available[a], Entrusted(a, t)'
             PROVE  \E p \in Request : Witness(p, a, t)'
  BY DEF AwayHoldsOnlyUnseen, HeldBy, Active, Entrusted, Witness, At
<1>1. CASE Witness(q, a, t)'
  BY <1>1
<1>2. CASE a \notin cut /\ Entrusted(a, t) /\ (Witness(q, a, t) => Witness(q, a, t)')
  <2>1. PICK p \in Request : Witness(p, a, t)
    BY <1>2 DEF AwayHoldsOnlyUnseen, HeldBy, Entrusted, Witness
  <2>2. CASE p = q
    BY <1>2, <2>1, <2>2
  <2>3. CASE p # q
    BY <2>1, <2>3 DEF Witness, At
  <2> QED
    BY <2>2, <2>3
<1> QED
  BY <1>1, <1>2

\* Every step keeps what is said of agents who are away.
LEMMA AwayStep ==
  ASSUME TypeOK, RequestsSound, VouchersTrue, AwayHoldsOnlyUnseen, [Next]_vars
  PROVE  AwayHoldsOnlyUnseen'
<1>t. /\ transfer \in [Transfer -> TransferType] /\ available \in [Agent -> BOOLEAN]
      /\ request \in [Request -> RequestType] /\ None \notin Agent
  BY TransferAssumption DEF TypeOK
<1>q. ASSUME NEW q \in Request
      PROVE  Sound(request[q]) /\ request[q] \in RequestType
  BY DEF RequestsSound, Sound
<1>b. ASSUME NEW q \in Request, NEW s, Become(q, s)
      PROVE  request'[q] = s /\ \A p \in Request : p # q => request'[p] = request[p]
  BY <1>b, <1>t DEF Become
\* Requests that were releasing nothing, and leave the rows as they are.
<1>u. ASSUME NEW q \in Request, NEW s, Become(q, s), UNCHANGED <<available, transfer, cut>>,
             request[q].pc \notin {"list", "release"}
      PROVE  AwayHoldsOnlyUnseen'
  <2>1. ASSUME NEW a \in Agent, NEW t \in Transfer
        PROVE  Entrusted(a, t)' = Entrusted(a, t) /\ ~Witness(q, a, t)
    BY <1>u DEF Entrusted, Active, Witness, At
  <2> QED
    BY <1>b, <1>u, <2>1, AwayKept
<1>1. ASSUME NEW q \in Request, NEW c \in Contact, NEW target \in Agent \union {None},
             FindNoActive(q, c, target)
      PROVE  AwayHoldsOnlyUnseen'
  BY <1>1, <1>u DEF FindNoActive, Idle, At, rows
<1>2. ASSUME NEW q \in Request, CheckTarget(q)
      PROVE  AwayHoldsOnlyUnseen'
  BY <1>2, <1>u DEF CheckTarget, Respond, At, rows, observed
<1>3. ASSUME NEW q \in Request, NEW t \in Transfer,
             \/ FindActive(q, t) \/ \E a \in Agent : FindUnassigned(q, a, t)
             \/ \E a \in Agent, target \in Agent \union {None}, named \in BOOLEAN :
                   ReadTransfer(q, a, t, target, named)
      PROVE  AwayHoldsOnlyUnseen'
  BY <1>3, <1>u DEF FindActive, FindUnassigned, ReadTransfer, Idle, At, rows, observed
<1>4. ASSUME NEW q \in Request, Stick(q) \/ Clear(q)
      PROVE  AwayHoldsOnlyUnseen'
  BY <1>4, <1>u DEF Stick, Clear, Respond, At, observed
\* Requests that change one row, t, which is entrusted then to nobody who is away.
<1>w. ASSUME NEW q \in Request, NEW t \in Transfer, NEW s, Become(q, s),
             UNCHANGED <<available, cut>>,
             \A u \in Transfer : u # t => transfer'[u] = transfer[u],
             \A a \in Agent : Entrusted(a, t)' => available[a],
             \A a \in Agent, u \in Transfer : u # t /\ Witness(q, a, u) => Witness(q, a, u)'
      PROVE  AwayHoldsOnlyUnseen'
  <2>1. ASSUME NEW a \in Agent, NEW u \in Transfer, ~available[a], Entrusted(a, u)'
        PROVE  Entrusted(a, u) /\ (Witness(q, a, u) => Witness(q, a, u)')
    <3>1. u # t
      BY <1>w, <2>1
    <3>2. transfer'[u] = transfer[u]
      BY <1>w, <3>1
    <3> QED
      BY <1>w, <2>1, <3>1, <3>2 DEF Entrusted, Active
  <2> QED
    BY <1>b, <1>w, <2>1, AwayKept
<1>5. ASSUME NEW q \in Request, NEW t \in Transfer, Insert(q, t)
      PROVE  AwayHoldsOnlyUnseen'
  <2>1. ASSUME NEW a \in Agent, Entrusted(a, t)' PROVE available[a]
    <3>1. request[q].vouched /\ request[q].target = a
      BY <1>5, <2>1, Inserted DEF Entrusted, Active
    <3>2. request[q].vouched = TRUE
      BY <3>1, <1>q DEF RequestType
    <3> QED
      BY <3>1, <3>2 DEF VouchersTrue
  <2>2. \A a \in Agent, u \in Transfer : ~Witness(q, a, u)
    BY <1>5 DEF Insert, Witness, At
  <2>3. Become(q, NoRequest) /\ UNCHANGED <<available, cut>>
    BY <1>5 DEF Insert, Respond, observed
  <2> QED
    BY <1>5, <1>w, <2>1, <2>2, <2>3, Inserted
<1>6. ASSUME NEW q \in Request, Take(q) \/ WriteAgent(q)
      PROVE  AwayHoldsOnlyUnseen'
  <2>1. PICK r : r = request[q] /\ Sound(r) /\ r \in RequestType /\ r.transfer \in Transfer
                 /\ r.target \in Agent \union {None} /\ r.vouched \in BOOLEAN
    BY <1>6, <1>q DEF Take, WriteAgent, At, Sound, RequestType
  <2>2. PICK v \in BOOLEAN : SetAgent(r.transfer, r.target, v) /\ (v = TRUE => r.vouched = TRUE)
    BY <1>6, <2>1 DEF Take, WriteAgent
  <2>3. transfer'[r.transfer].agent = r.target /\ transfer'[r.transfer].vouched = v
    BY <2>1, <2>2, Given
  <2>4. ASSUME NEW a \in Agent, Entrusted(a, r.transfer)' PROVE available[a]
    <3>1. r.target = a /\ r.vouched = TRUE
      BY <2>1, <2>2, <2>3, <2>4 DEF Entrusted
    <3> QED
      BY <2>1, <3>1 DEF VouchersTrue
  <2>5. \A a \in Agent, u \in Transfer : ~Witness(q, a, u)
    BY <1>6 DEF Take, WriteAgent, Witness, At
  <2>6. UNCHANGED <<available, cut>>
    BY <1>6 DEF Take, WriteAgent, observed
  <2>7. \E s : Become(q, s)
    BY <1>6 DEF Take, WriteAgent, To, Respond, Become
  <2>8. \A u \in Transfer : u # r.transfer => transfer'[u] = transfer[u]
    BY <2>1, <2>2, Given
  <2> QED
    BY <1>w, <2>1, <2>4, <2>5, <2>6, <2>7, <2>8
<1>7. ASSUME NEW q \in Request, Resume(q)
      PROVE  AwayHoldsOnlyUnseen'
  <2>1. PICK t \in Transfer : transfer' = [transfer EXCEPT ![t].status = "resumed"]
    BY <1>7, <1>q DEF Resume, At, Sound
  <2>2. ASSUME NEW a \in Agent PROVE ~Entrusted(a, t)'
    BY <2>1, Resumed DEF Entrusted, Active
  <2>3. \A a \in Agent, u \in Transfer : ~Witness(q, a, u)
    BY <1>7 DEF Resume, Witness, At
  <2>4. Become(q, NoRequest) /\ UNCHANGED <<available, cut>>
    BY <1>7 DEF Resume, Respond, observed
  <2> QED
    BY <1>w, <2>1, <2>2, <2>3, <2>4, Resumed
<1>8. ASSUME NEW q \in Request, NEW b \in Agent, ComeBack(q, b)
      PROVE  AwayHoldsOnlyUnseen'
  <2>1. \A a \in Agent : ~available'[a] => ~available[a]
    BY <1>8, <1>t DEF ComeBack
  <2> QED
    BY <1>8, <2>1 DEF ComeBack, observed, AwayHoldsOnlyUnseen, HeldBy, Active, At
<1>9. ASSUME NEW q \in Request, NEW b \in Agent, GoAway(q, b)
      PROVE  AwayHoldsOnlyUnseen'
  <2>1. \A a \in Agent : a # b => available'[a] = available[a]
    BY <1>9, <1>t DEF GoAway
  <2>2. \A t \in Transfer : Witness(q, b, t)'
    BY <1>9, GoAwayMoves DEF Witness, At
  <2>m. \A p \in Request : p # q =>
           /\ request'[p].pc = request[p].pc /\ request'[p].agent = request[p].agent
           /\ request'[p].todo = request[p].todo
    <3> SUFFICES ASSUME NEW p \in Request, p # q
                 PROVE  /\ request'[p].pc = request[p].pc /\ request'[p].agent = request[p].agent
                        /\ request'[p].todo = request[p].todo
      OBVIOUS
    <3>1. PICK r : r = [NoRequest EXCEPT !.pc = "list", !.agent = b]
      OBVIOUS
    <3>2. request' = [Unvouched(b) EXCEPT ![q] = r]
      BY <1>9, <3>1 DEF GoAway
    <3>3. request'[p] = IF request[p].target = b THEN [request[p] EXCEPT !.vouched = FALSE]
                                                 ELSE request[p]
      BY <3>2 DEF Unvouched
    <3> QED
      BY <1>q, <3>3 DEF RequestType
  <2>3. ASSUME NEW a \in Agent, NEW p \in Request, NEW t \in Transfer, Witness(p, a, t)
        PROVE  Witness(p, a, t)'
    <3>1. p # q
      BY <1>9, <2>3 DEF GoAway, Idle, Witness, At
    <3> QED
      BY <2>3, <2>m, <3>1 DEF Witness, At
  <2>4. UNCHANGED <<transfer, cut>>
    BY <1>9 DEF GoAway, observed
  <2>5. ASSUME NEW a \in Agent, NEW t \in Transfer, a \notin cut', ~available'[a], Entrusted(a, t)'
        PROVE  \E p \in Request : Witness(p, a, t)'
    <3>1. CASE a = b
      BY <2>2, <3>1
    <3>2. CASE a # b
      <4>1. a \notin cut /\ ~available[a] /\ Entrusted(a, t)
        BY <2>1, <2>4, <2>5, <3>2 DEF Entrusted, Active
      <4>2. PICK p \in Request : Witness(p, a, t)
        BY <4>1 DEF AwayHoldsOnlyUnseen, HeldBy, Entrusted, Witness
      <4> QED
        BY <2>3, <4>2
    <3> QED
      BY <3>1, <3>2
  <2> QED
    BY <2>5 DEF AwayHoldsOnlyUnseen, HeldBy, Active, Entrusted, Witness, At
<1>10. ASSUME NEW q \in Request, ListHeld(q)
       PROVE  AwayHoldsOnlyUnseen'
  <2>1. PICK r : r = request[q] /\ r \in RequestType /\ r.agent \in Agent /\ r.pc = "list"
    BY <1>10, <1>q DEF ListHeld, At, Sound
  <2>2. PICK s : s = [r EXCEPT !.pc = "release", !.todo = HeldBy(r.agent)]
    OBVIOUS
  <2>3. s.pc = "release" /\ s.agent = r.agent /\ s.todo = HeldBy(r.agent)
    BY <2>1, <2>2 DEF RequestType
  <2>4. Become(q, s) /\ UNCHANGED <<available, transfer>> /\ cut' = cut \ {r.agent}
    BY <1>10, <2>1, <2>2 DEF ListHeld, rows
  <2>5. ASSUME NEW a \in Agent, NEW t \in Transfer, a \notin cut', Entrusted(a, t)'
        PROVE  \/ Witness(q, a, t)'
               \/ a \notin cut /\ Entrusted(a, t) /\ (Witness(q, a, t) => Witness(q, a, t)')
    <3>1. Entrusted(a, t)
      BY <2>4, <2>5 DEF Entrusted, Active
    <3>2. request'[q] = s
      BY <1>b, <2>4
    <3>3. CASE a = r.agent
      <4>1. t \in s.todo
        BY <2>3, <3>1, <3>3 DEF HeldBy, Entrusted
      <4> QED
        BY <2>3, <3>2, <3>3, <4>1 DEF Witness, At
    <3>4. CASE a # r.agent
      BY <2>1, <2>4, <2>5, <3>1, <3>4 DEF Witness
    <3> QED
      BY <3>3, <3>4
  <2> QED
    BY <1>b, <2>4, <2>5, AwayKept
<1>11. ASSUME NEW q \in Request, NEW t \in Transfer, Release(q, t)
       PROVE  AwayHoldsOnlyUnseen'
  <2>1. PICK r : r = request[q] /\ r \in RequestType /\ r.pc = "release"
    BY <1>11, <1>q DEF Release, At
  <2>2. PICK s : s = [r EXCEPT !.todo = r.todo \ {t}]
    OBVIOUS
  <2>3. s.pc = "release" /\ s.agent = r.agent /\ s.todo = r.todo \ {t}
    BY <2>1, <2>2 DEF RequestType
  <2>4. Become(q, s) /\ UNCHANGED <<available, cut>> /\ SetAgent(t, None, FALSE)
    BY <1>11, <1>t, <2>1, <2>2 DEF Release, Become, observed
  <2>5. transfer'[t].agent = None /\ \A u \in Transfer : u # t => transfer'[u] = transfer[u]
    BY <2>4, Given
  <2>6. \A a \in Agent : ~Entrusted(a, t)'
    BY <1>t, <2>5 DEF Entrusted
  <2>7. ASSUME NEW a \in Agent, NEW u \in Transfer, u # t, Witness(q, a, u)
        PROVE  Witness(q, a, u)'
    <3>1. request'[q] = s
      BY <1>b, <2>4
    <3> QED
      BY <2>1, <2>3, <2>7, <3>1 DEF Witness, At
  <2> QED
    BY <1>w, <2>4, <2>5, <2>6, <2>7
<1>12. ASSUME NEW q \in Request, Released(q)
       PROVE  AwayHoldsOnlyUnseen'
  <2>1. \A a \in Agent, t \in Transfer : ~Witness(q, a, t)
    BY <1>12 DEF Released, Witness, At
  <2>2. Become(q, NoRequest) /\ UNCHANGED <<available, transfer, cut>>
    BY <1>12 DEF Released, Respond, rows, observed
  <2>3. \A a \in Agent, t \in Transfer : Entrusted(a, t)' = Entrusted(a, t)
    BY <2>2 DEF Entrusted, Active
  <2> QED
    BY <1>b, <2>1, <2>2, <2>3, AwayKept
<1>13. ASSUME NEW q \in Request, RequestFails(q)
       PROVE  AwayHoldsOnlyUnseen'
  <2>1. ASSUME NEW a \in Agent, NEW t \in Transfer, a \notin cut'
        PROVE  a \notin cut /\ ~Witness(q, a, t)
    BY <1>13, <2>1 DEF RequestFails, Witness, At
  <2>2. Become(q, NoRequest) /\ UNCHANGED <<available, transfer>>
    BY <1>13 DEF RequestFails, Respond, rows
  <2>3. \A a \in Agent, t \in Transfer : Entrusted(a, t)' = Entrusted(a, t)
    BY <2>2 DEF Entrusted, Active
  <2> QED
    BY <1>b, <2>1, <2>2, <2>3, AwayKept
<1>14. ASSUME UNCHANGED <<available, transfer, request, cut>> PROVE AwayHoldsOnlyUnseen'
  BY <1>14 DEF AwayHoldsOnlyUnseen, HeldBy, Active, At
<1>15. ASSUME NEW c \in Contact, NEW a \in Agent \union {None}, AssignContact(c, a)
       PROVE  AwayHoldsOnlyUnseen'
  BY <1>14, <1>15 DEF AssignContact, observed
<1> QED
  BY <1>1, <1>2, <1>3, <1>4, <1>5, <1>6, <1>7, <1>8, <1>9, <1>10, <1>11, <1>12, <1>13, <1>14, <1>15
     DEF Next, vars

-----------------------------------------------------------------------------
(* Creates and active transfers of a contact.                              *)

\* A step that makes no transfer active and begins no create keeps what is said
\* of them.
LEMMA OneKept ==
  ASSUME OneCreate, overlapped \subseteq overlapped',
         \A c \in Contact : \A t \in Transfer : t \in ActiveOf(c)' => t \in ActiveOf(c),
         \A c \in Contact : \A p \in Request : Creating(p, c)' => Creating(p, c)
  PROVE  OneCreate'
<1>1. \A c \in Contact : ActiveOf(c)' \subseteq Transfer
  BY DEF ActiveOf
<1>2. \A c \in Contact \ overlapped' : c \in Contact \ overlapped
  OBVIOUS
<1>3. SUFFICES ASSUME NEW c \in Contact \ overlapped'
               PROVE  /\ (\A t, u \in ActiveOf(c) : t = u)'
                      /\ (\A p, q \in Request : Creating(p, c) /\ Creating(q, c) => p = q)'
                      /\ (\A p \in Request : Creating(p, c) => ActiveOf(c) = {})'
  BY DEF OneCreate
<1>4. /\ \A t, u \in ActiveOf(c) : t = u
      /\ \A p, q \in Request : Creating(p, c) /\ Creating(q, c) => p = q
      /\ \A p \in Request : Creating(p, c) => ActiveOf(c) = {}
  BY <1>2 DEF OneCreate
<1>5. (\A t, u \in ActiveOf(c) : t = u)'
  BY <1>1, <1>4
<1>6. (\A p, q \in Request : Creating(p, c) /\ Creating(q, c) => p = q)'
  BY <1>4
<1>7. (\A p \in Request : Creating(p, c) => ActiveOf(c) = {})'
  BY <1>1, <1>4
<1> QED
  BY <1>5, <1>6, <1>7

\* Every step keeps one create at a time, and one active transfer, of a contact
\* for which no two creates overlapped.
LEMMA OneStep ==
  ASSUME TypeOK, RequestsSound, RowsSound, OneCreate, [Next]_vars
  PROVE  OneCreate'
<1>t. /\ transfer \in [Transfer -> TransferType] /\ request \in [Request -> RequestType]
      /\ None \notin Transfer
  BY TransferAssumption DEF TypeOK
<1>q. ASSUME NEW q \in Request
      PROVE  Sound(request[q]) /\ request[q] \in RequestType
  BY DEF RequestsSound, Sound
<1>b. ASSUME NEW q \in Request, NEW s, Become(q, s)
      PROVE  request'[q] = s /\ \A p \in Request : p # q => request'[p] = request[p]
  BY <1>b, <1>t DEF Become
\* A request that goes on without a create to come, while no row becomes active.
<1>u. ASSUME NEW q \in Request, NEW s, Become(q, s), UNCHANGED overlapped,
             s.pc \notin {"check", "insert"} \/ s.transfer # None,
             \A t \in Transfer : Active(t)' => Active(t) /\ transfer'[t].contact = transfer[t].contact
      PROVE  OneCreate'
  <2>1. \A c \in Contact : \A t \in Transfer : t \in ActiveOf(c)' => t \in ActiveOf(c)
    BY <1>u DEF ActiveOf
  <2>2. ASSUME NEW c \in Contact, NEW p \in Request, Creating(p, c)'
        PROVE  Creating(p, c)
    <3>1. p # q
      BY <1>b, <1>u, <2>2 DEF Creating
    <3> QED
      BY <1>b, <1>u, <2>2, <3>1 DEF Creating
  <2> QED
    BY <1>u, <2>1, <2>2, OneKept
<1>1. ASSUME NEW q \in Request, NEW c \in Contact, NEW target \in Agent \union {None},
             FindNoActive(q, c, target)
      PROVE  OneCreate'
  <2>1. PICK s : Become(q, s) /\ s = [NoRequest EXCEPT
            !.pc = IF target = None THEN "insert" ELSE "check", !.contact = c, !.target = target]
    BY <1>1 DEF FindNoActive
  <2>2. s.contact = c
    BY <2>1 DEF NoRequest
  <2>3. UNCHANGED transfer /\ ActiveOf(c) = {} /\ overlapped \subseteq overlapped'
        /\ (c \notin overlapped' => \A p \in Request : ~Creating(p, c))
    BY <1>1 DEF FindNoActive, NoteOverlap, rows
  <2>4. ASSUME NEW d \in Contact, NEW p \in Request, Creating(p, d)'
        PROVE  p = q \/ Creating(p, d)
    BY <1>b, <2>1, <2>4 DEF Creating
  <2>5. ASSUME NEW d \in Contact \ overlapped'
        PROVE  /\ (\A t, u \in ActiveOf(d) : t = u)'
               /\ (\A p, r \in Request : Creating(p, d) /\ Creating(r, d) => p = r)'
               /\ (\A p \in Request : Creating(p, d) => ActiveOf(d) = {})'
    <3>1. ActiveOf(d)' = ActiveOf(d)
      BY <2>3 DEF ActiveOf, Active
    <3>2. CASE d = c
      BY <2>3, <2>4, <2>5, <3>1, <3>2
    <3>3. CASE d # c
      <4>1. ~Creating(q, d)'
        BY <1>b, <2>1, <2>2, <3>3 DEF Creating
      <4>2. \A p \in Request : Creating(p, d)' => Creating(p, d)
        BY <2>4, <4>1
      <4>3. /\ \A t, u \in ActiveOf(d) : t = u
            /\ \A p, r \in Request : Creating(p, d) /\ Creating(r, d) => p = r
            /\ \A p \in Request : Creating(p, d) => ActiveOf(d) = {}
        BY <2>3, <2>5 DEF OneCreate
      <4> QED
        BY <3>1, <4>2, <4>3
    <3> QED
      BY <3>2, <3>3
  <2> QED
    BY <2>5 DEF OneCreate
<1>2. ASSUME NEW q \in Request, CheckTarget(q)
      PROVE  OneCreate'
  <2>1. PICK r : r = request[q] /\ r \in RequestType /\ r.pc = "check"
    BY <1>2, <1>q DEF CheckTarget, At
  <2>2. UNCHANGED <<transfer, overlapped>>
    BY <1>2 DEF CheckTarget, rows, observed
  <2>3. PICK s : Become(q, s) /\ (s.pc \in {"check", "insert"} =>
                                    s.transfer = r.transfer /\ s.contact = r.contact)
    <3>1. PICK u : u = [r EXCEPT !.vouched = TRUE,
                          !.pc = IF r.transfer = None THEN "insert" ELSE "write"]
      OBVIOUS
    <3>2. u.transfer = r.transfer /\ u.contact = r.contact
      BY <2>1, <3>1 DEF RequestType
    <3>3. NoRequest.pc \notin {"check", "insert"}
      BY IdleSound
    <3>4. Become(q, u) \/ Become(q, NoRequest)
      BY <1>2, <2>1, <3>1 DEF CheckTarget, Respond
    <3> QED
      BY <3>2, <3>3, <3>4
  <2>4. ASSUME NEW c \in Contact, NEW p \in Request, Creating(p, c)'
        PROVE  Creating(p, c)
    <3>1. CASE p # q
      BY <1>b, <2>3, <2>4, <3>1 DEF Creating
    <3>2. CASE p = q
      BY <1>b, <2>1, <2>3, <2>4, <3>2 DEF Creating
    <3> QED
      BY <3>1, <3>2
  <2>5. \A c \in Contact : ActiveOf(c)' = ActiveOf(c)
    BY <2>2 DEF ActiveOf, Active
  <2> QED
    BY <2>2, <2>4, <2>5, OneKept
<1>3. ASSUME NEW q \in Request, NEW t \in Transfer, Insert(q, t)
      PROVE  OneCreate'
  <2>1. PICK r : r = request[q] /\ Sound(r) /\ r.pc = "insert" /\ r.contact \in Contact
                 /\ r.transfer = None
    BY <1>3, <1>q DEF Insert, At, Sound
  <2>2. Creating(q, r.contact)
    BY <2>1 DEF Creating
  <2>3. \A c \in Contact : ~Creating(q, c)'
    BY <1>3, <1>b, IdleSound DEF Insert, Respond, Creating
  <2>4. ASSUME NEW c \in Contact, NEW p \in Request, Creating(p, c)'
        PROVE  p # q /\ Creating(p, c)
    BY <1>3, <1>b, <2>3, <2>4 DEF Insert, Respond, Creating
  <2>5. UNCHANGED overlapped
    BY <1>3 DEF Insert, observed
  <2>6. \A c \in Contact, u \in Transfer : u \in ActiveOf(c)' =>
           u \in ActiveOf(c) \/ (u = t /\ c = r.contact)
    <3>1. transfer'[t].contact = r.contact /\ \A u \in Transfer : u # t => transfer'[u] = transfer[u]
      BY <1>3, <2>1, Inserted
    <3> QED
      BY <3>1 DEF ActiveOf, Active
  <2>7. ASSUME NEW c \in Contact \ overlapped'
        PROVE  /\ (\A v, u \in ActiveOf(c) : v = u)'
               /\ (\A p, s \in Request : Creating(p, c) /\ Creating(s, c) => p = s)'
               /\ (\A p \in Request : Creating(p, c) => ActiveOf(c) = {})'
    <3>1. /\ \A v, u \in ActiveOf(c) : v = u
          /\ \A p, s \in Request : Creating(p, c) /\ Creating(s, c) => p = s
          /\ \A p \in Request : Creating(p, c) => ActiveOf(c) = {}
      BY <2>5, <2>7 DEF OneCreate
    <3>2. ActiveOf(c)' \subseteq Transfer
      BY DEF ActiveOf
    <3>3. CASE c = r.contact
      BY <2>2, <2>4, <2>6, <3>1, <3>2, <3>3
    <3>4. CASE c # r.contact
      <4>1. ActiveOf(c)' \subseteq ActiveOf(c)
        BY <2>6, <3>2, <3>4
      <4> QED
        BY <2>4, <3>1, <4>1
    <3> QED
      BY <3>3, <3>4
  <2> QED
    BY <2>7 DEF OneCreate
<1>4. ASSUME NEW q \in Request, NEW t \in Transfer, NEW a \in Agent \union {None},
             NEW pc \in {"take", "write", "check"}, Become(q, [Reads(t, a) EXCEPT !.pc = pc]),
             UNCHANGED <<transfer, overlapped>>, Active(t), pc = "check" => a # None
      PROVE  OneCreate'
  <2>1. PICK s : s = [Reads(t, a) EXCEPT !.pc = pc]
    OBVIOUS
  <2>2. Reads(t, a).transfer = t
    BY DEF Reads, NoRequest
  <2>3. s.transfer = t
    BY <2>1, <2>2 DEF Reads, NoRequest
  <2> QED
    BY <1>4, <1>t, <1>u, <2>1, <2>3 DEF Active
<1>5. ASSUME NEW q \in Request, NEW t \in Transfer, NEW a \in Agent, FindUnassigned(q, a, t)
      PROVE  OneCreate'
  BY <1>4, <1>5 DEF FindUnassigned, rows, observed
<1>6. ASSUME NEW q \in Request, NEW a \in Agent, NEW t \in Transfer,
             NEW target \in Agent \union {None}, NEW named \in BOOLEAN,
             ReadTransfer(q, a, t, target, named)
      PROVE  OneCreate'
  <2>1. PICK pc \in {"check", "write"} :
            /\ pc = IF named /\ target # None THEN "check" ELSE "write"
            /\ pc = "check" => target # None
    OBVIOUS
  <2> QED
    BY <1>4, <1>6, <2>1 DEF ReadTransfer, rows, observed
<1>7. ASSUME NEW q \in Request, Take(q) \/ WriteAgent(q)
      PROVE  OneCreate'
  <2>1. PICK r : r = request[q] /\ r \in RequestType /\ r.transfer \in Transfer
                 /\ r.target \in Agent \union {None} /\ r.vouched \in BOOLEAN
    BY <1>7, <1>q DEF Take, WriteAgent, At, Sound, RequestType
  <2>2. PICK v \in BOOLEAN : SetAgent(r.transfer, r.target, v)
    BY <1>7, <2>1 DEF Take, WriteAgent
  <2>3. /\ transfer'[r.transfer].status = transfer[r.transfer].status
        /\ transfer'[r.transfer].contact = transfer[r.transfer].contact
        /\ \A u \in Transfer : u # r.transfer => transfer'[u] = transfer[u]
    BY <2>1, <2>2, Given
  <2>4. \A t \in Transfer : Active(t)' => Active(t) /\ transfer'[t].contact = transfer[t].contact
    BY <2>3 DEF Active
  <2>5. UNCHANGED overlapped
    BY <1>7 DEF Take, WriteAgent, observed
  <2>6. ASSUME NEW pc \in {"stick", "clear"}
        PROVE  [r EXCEPT !.pc = pc].pc = pc
    BY <2>1 DEF RequestType
  <2>7. Become(q, NoRequest) \/ \E pc \in {"stick", "clear"} : Become(q, [r EXCEPT !.pc = pc])
    BY <1>7, <1>t, <2>1 DEF Take, WriteAgent, Respond, To, Become
  <2> QED
    BY <1>u, <2>4, <2>5, <2>6, <2>7, IdleSound
<1>8. ASSUME NEW q \in Request, \/ Stick(q) \/ Clear(q) \/ Released(q) \/ RequestFails(q)
      PROVE  OneCreate'
  <2>1. Become(q, NoRequest) /\ UNCHANGED <<transfer, overlapped>>
    BY <1>8 DEF Stick, Clear, Released, RequestFails, Respond, rows, observed
  <2> QED
    BY <1>u, <2>1, IdleSound DEF Active
<1>9. ASSUME NEW q \in Request, NEW t \in Transfer, FindActive(q, t)
      PROVE  OneCreate'
  <2>1. PICK s : s = [NoRequest EXCEPT !.pc = "resume", !.transfer = t]
    OBVIOUS
  <2>2. s.pc = "resume"
    BY <2>1 DEF NoRequest
  <2> QED
    BY <1>9, <1>u, <2>1, <2>2 DEF FindActive, Active, rows, observed
<1>10. ASSUME NEW q \in Request, Resume(q)
       PROVE  OneCreate'
  <2>1. PICK t \in Transfer : transfer' = [transfer EXCEPT ![t].status = "resumed"]
    BY <1>10, <1>q DEF Resume, At, Sound
  <2>2. \A u \in Transfer : Active(u)' => Active(u) /\ transfer'[u].contact = transfer[u].contact
    BY <2>1, Resumed DEF Active
  <2> QED
    BY <1>10, <1>u, <2>2, IdleSound DEF Resume, Respond, observed
<1>11. ASSUME NEW q \in Request, NEW a \in Agent, GoAway(q, a)
       PROVE  OneCreate'
  <2>1. ASSUME NEW c \in Contact, NEW p \in Request, Creating(p, c)'
        PROVE  Creating(p, c)
    <3>1. PICK r : r = [NoRequest EXCEPT !.pc = "list", !.agent = a]
      OBVIOUS
    <3>2. request' = [Unvouched(a) EXCEPT ![q] = r] /\ r.pc = "list"
      BY <1>11, <3>1 DEF GoAway, NoRequest
    <3>3. p # q
      BY <2>1, <3>2 DEF Creating, Unvouched
    <3>4. request'[p] = IF request[p].target = a THEN [request[p] EXCEPT !.vouched = FALSE]
                                                 ELSE request[p]
      BY <3>2, <3>3 DEF Unvouched
    <3>5. /\ request'[p].pc = request[p].pc /\ request'[p].transfer = request[p].transfer
          /\ request'[p].contact = request[p].contact
      BY <1>q, <3>4 DEF RequestType
    <3> QED
      BY <2>1, <3>5 DEF Creating
  <2>2. \A c \in Contact : ActiveOf(c)' = ActiveOf(c)
    BY <1>11 DEF GoAway, ActiveOf, Active
  <2> QED
    BY <1>11, <2>1, <2>2, OneKept DEF GoAway, observed
<1>12. ASSUME NEW q \in Request, ListHeld(q)
       PROVE  OneCreate'
  <2>1. PICK s : s = [request[q] EXCEPT !.pc = "release", !.todo = HeldBy(request[q].agent)]
    OBVIOUS
  <2>2. s.pc = "release"
    BY <1>q, <2>1 DEF RequestType
  <2> QED
    BY <1>12, <1>u, <2>1, <2>2 DEF ListHeld, Active, rows
<1>13. ASSUME NEW q \in Request, NEW t \in Transfer, Release(q, t)
       PROVE  OneCreate'
  <2>1. PICK s : s = [request[q] EXCEPT !.todo = request[q].todo \ {t}]
    OBVIOUS
  <2>2. s.pc = "release" /\ Become(q, s) /\ UNCHANGED overlapped
    BY <1>13, <1>q, <1>t, <2>1 DEF Release, At, Become, RequestType, observed
  <2>3. SetAgent(t, None, FALSE)
    BY <1>13 DEF Release
  <2>4. \A u \in Transfer : Active(u)' => Active(u) /\ transfer'[u].contact = transfer[u].contact
    BY <2>3, Given DEF Active
  <2> QED
    BY <1>u, <2>2, <2>4
<1>14. ASSUME UNCHANGED <<transfer, request, overlapped>> PROVE OneCreate'
  BY <1>14 DEF OneCreate, ActiveOf, Active, Creating
<1>15. ASSUME NEW q \in Request, NEW a \in Agent, ComeBack(q, a)
       PROVE  OneCreate'
  BY <1>14, <1>15 DEF ComeBack, observed
<1>16. ASSUME NEW c \in Contact, NEW a \in Agent \union {None}, AssignContact(c, a)
       PROVE  OneCreate'
  BY <1>14, <1>16 DEF AssignContact, observed
<1> QED
  BY <1>1, <1>2, <1>3, <1>5, <1>6, <1>7, <1>8, <1>9, <1>10, <1>11, <1>12, <1>13, <1>14, <1>15,
     <1>16 DEF Next, vars

-----------------------------------------------------------------------------
(* The theorems.                                                           *)

\* Every step keeps the invariant.
LEMMA InvStep == Inv /\ [Next]_vars => Inv'
  BY RequestsStep, TypeStep, AwayStep, OneStep DEF Inv

\* It always holds.
LEMMA InvAlways == Spec => []Inv
  BY InitInv, InvStep, PTL DEF Spec

\* Every variable keeps its type, whatever requests interleave or fail.
THEOREM TypesHold == Spec => []TypeOK
<1>1. Inv => TypeOK
  BY DEF Inv
<1> QED
  BY <1>1, InvAlways, PTL

\* PUT /users/me/availability: an agent who is away keeps no chat that was given
\* to him by somebody who had seen him available since, unless the request that
\* took him away is still at it, or was cut short.
THEOREM AwayReleases == Spec => []AwayHoldsOnlyUnseen
<1>1. Inv => AwayHoldsOnlyUnseen
  BY DEF Inv
<1> QED
  BY <1>1, InvAlways, PTL

\* POST /transfers: only two overlapping creates for it give a contact a second
\* active transfer.
THEOREM OneActiveTransfer == Spec => []SecondActiveOnlyByOverlap
<1>1. ASSUME OneCreate PROVE SecondActiveOnlyByOverlap
  <2> SUFFICES ASSUME NEW c \in Contact \ overlapped
               PROVE  Cardinality(ActiveOf(c)) <= 1
    BY DEF SecondActiveOnlyByOverlap
  <2>1. CASE ActiveOf(c) = {}
    BY <2>1, FS_EmptySet
  <2>2. CASE ActiveOf(c) # {}
    <3>1. PICK t : t \in ActiveOf(c)
      BY <2>2
    <3>2. \A u \in ActiveOf(c) : u = t
      BY <1>1, <3>1 DEF OneCreate
    <3>3. ActiveOf(c) = {t}
      BY <3>1, <3>2
    <3> QED
      BY <3>3, FS_Singleton
  <2> QED
    BY <2>1, <2>2
<1>2. Inv => SecondActiveOnlyByOverlap
  BY <1>1 DEF Inv
<1> QED
  BY <1>2, InvAlways, PTL
=============================================================================
