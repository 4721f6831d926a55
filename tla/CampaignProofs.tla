--------------------------- MODULE CampaignProofs ---------------------------
(* Proofs about Campaign, for any numbers of recipients, jobs and requests. *)
EXTENDS Campaign, FiniteSetTheorems, TLAPS

-----------------------------------------------------------------------------
(* Type correctness.                                                       *)

LEMMA FreshRecords == NoJob \in JobType /\ NoRequest \in ReqType
  BY DEF NoJob, NoRequest, JobType, JobPcs, Paths, ReqType, ReqPcs, Outcomes

LEMMA TypeInit == Init => TypeOK
<1> SUFFICES ASSUME Init PROVE TypeOK
  OBVIOUS
<1>1. job \in [JobId -> JobType] /\ req \in [Request -> ReqType]
  BY FreshRecords DEF Init
<1>2. row \in [Recipient -> RowStatuses] /\ status \in Statuses
  BY DEF Init, RowStatuses, Statuses
<1>3. counts \in [Outcomes -> Nat] /\ total \in Nat /\ faults \in Nat /\ events \in Nat
  BY DEF Init
<1> QED
  BY <1>1, <1>2, <1>3 DEF Init, TypeOK

\* The number of rows is a number: the recipients are finitely many.
LEMMA TallyType ==
  Cardinality({r \in Recipient : Present(r)}) \in Nat
  BY FS_Subset, FS_CardinalityType, CampaignAssumption

\* The handlers keep the types; they change the jobs only by enqueuing.
LEMMA TypeHandler ==
  ASSUME TypeOK, NEW q \in Request, Handler(q) \/ RequestFails(q)
  PROVE  TypeOK'
<1> USE DEF TypeOK, GoOn, Respond, db, history, ReqType, ReqPcs, Outcomes
<1> NoRequest \in ReqType
  BY FreshRecords
<1>1. CASE ListPending(q)
  <2>1. Pending \subseteq Recipient
    BY DEF Pending
  <2>2. req' \in [Request -> ReqType]
    BY <1>1, <2>1 DEF ListPending
  <2> QED
    BY <1>1, <2>2 DEF ListPending
<1>2. CASE ListFailed(q)
  BY <1>2 DEF ListFailed
<1>3. CASE ResetFailed(q)
  BY <1>3 DEF ResetFailed, RowStatuses
<1>4. CASE WriteStatus(q)
  <2>1. status' \in Statuses
    BY <1>4 DEF WriteStatus, NewStatus, Statuses
  <2>2. overrun' \in Nat
    BY <1>4 DEF WriteStatus
  <2>3. retried' \in BOOLEAN
    BY <1>4, Zenon DEF WriteStatus
  <2> QED
    BY <2>1, <2>2, <2>3, <1>4 DEF WriteStatus
<1>5. CASE Enqueue(q)
  <2>1. job' \in [JobId -> JobType]
    <3>1. \A r \in Recipient : [NoJob EXCEPT !.pc = "waiting", !.to = r] \in JobType
      BY FreshRecords DEF JobType, JobPcs
    <3>2. req[q].who \subseteq Recipient
      BY DEF ReqType
    <3>3. PICK id \in [req[q].who -> FreeJobs] :
            job' = [j \in JobId |->
                      IF \E r \in req[q].who : id[r] = j
                      THEN [NoJob EXCEPT !.pc = "waiting",
                                         !.to = CHOOSE r \in req[q].who : id[r] = j]
                      ELSE job[j]]
      BY <1>5 DEF Enqueue
    <3> QED
      BY <3>1, <3>2, <3>3
  <2> QED
    BY <2>1, <1>5 DEF Enqueue
<1>6. CASE InsertRows(q)
  <2>1. row' \in [Recipient -> RowStatuses] /\ late' \subseteq Recipient
    BY <1>6 DEF InsertRows, RowStatuses
  <2>2. req' \in [Request -> ReqType]
    BY <1>6 DEF InsertRows
  <2> QED
    BY <2>1, <2>2, <1>6 DEF InsertRows
<1>7. CASE UnlinkRow(q)
  <2>1. unchecked' \in BOOLEAN
    BY <1>7, Zenon DEF UnlinkRow, LeftUnchecked
  <2> QED
    BY <2>1, <1>7 DEF UnlinkRow, RowStatuses
<1>8. CASE Tally(q)
  BY <1>8, TallyType DEF Tally
<1>9. CASE StoreTotal(q)
  BY <1>9 DEF StoreTotal, ReqType
<1>10. CASE ClearRows(q)
  <2>1. unchecked' \in BOOLEAN
    BY <1>10, Zenon DEF ClearRows, LeftUnchecked
  <2> QED
    BY <2>1, <1>10 DEF ClearRows, AllGone, RowStatuses
<1>11. CASE DropCampaign(q)
  BY <1>11 DEF DropCampaign, AllGone, RowStatuses, Statuses
<1>12. CASE FindMessage(q)
  <2>1. req[q] \in ReqType
    OBVIOUS
  <2>2. CASE Respond(q)
    BY <2>2, <1>12 DEF FindMessage
  <2>3. CASE ~Respond(q)
    <3>1. PICK r \in Recipient, e \in Outcomes :
            req' = [req EXCEPT ![q] = [@ EXCEPT !.pc = "match", !.who = {r}, !.event = e]]
      BY <2>3, <1>12 DEF FindMessage
    <3> DEFINE found == [req[q] EXCEPT !.pc = "match", !.who = {r}, !.event = e]
    <3>2. req' = [req EXCEPT ![q] = found]
      BY <3>1
    <3>4. found \in ReqType
      BY <2>1
    <3> HIDE DEF found
    <3>3. req' \in [Request -> ReqType]
      BY <3>2, <3>4
    <3> QED
      BY <3>3, <1>12 DEF FindMessage
  <2> QED
    BY <2>2, <2>3
<1>13. CASE ApplyEvent(q)
  <2>1. req[q].who \subseteq Recipient /\ req[q].event \in RowStatuses
    BY DEF ReqType, RowStatuses
  <2>2. row' \in [Recipient -> RowStatuses]
    BY <2>1, <1>13 DEF ApplyEvent
  <2>3. req' = [req EXCEPT ![q].pc = "bump"] \/ req' = [req EXCEPT ![q] = NoRequest]
    BY <1>13 DEF ApplyEvent
  <2>4. unchecked' \in BOOLEAN
    BY <1>13, Zenon DEF ApplyEvent, LeftUnchecked
  <2> QED
    BY <2>2, <2>3, <2>4, <1>13 DEF ApplyEvent
<1>14. CASE CountEvent(q)
  <2>1. counts' \in [Outcomes -> Nat]
    BY <1>14 DEF CountEvent, ReqType
  <2> QED
    BY <2>1, <1>14 DEF CountEvent
<1>15. CASE RequestFails(q)
  <2>1. unqueued' \in BOOLEAN
    BY <1>15, Zenon DEF RequestFails
  <2> QED
    BY <2>1, <1>15 DEF RequestFails
<1>16. CASE FindRow(q)
  BY <1>16 DEF FindRow
<1> QED
  BY <1>1, <1>2, <1>3, <1>4, <1>5, <1>6, <1>7, <1>8, <1>9, <1>10, <1>11, <1>12,
     <1>13, <1>14, <1>15, <1>16 DEF Handler

\* Updating some fields of a job's record with values of their types.
LEMMA JobUpdate ==
  ASSUME NEW run \in JobType, NEW pc \in JobPcs, NEW path \in Paths, NEW n \in Nat
  PROVE  /\ [run EXCEPT !.pc = pc, !.path = path] \in JobType
         /\ [run EXCEPT !.pc = pc, !.path = path, !.tries = n] \in JobType
         /\ [run EXCEPT !.pc = pc, !.path = path, !.stalls = n] \in JobType
         /\ [run EXCEPT !.copies = n] \in JobType
  BY DEF JobType

LEMMA ThrownType ==
  ASSUME NEW run \in JobType
  PROVE  Thrown(run) \in JobType
<1>1. CASE run.path # "catch"
  BY <1>1, JobUpdate DEF Thrown, JobPcs, RunningPcs, Paths
<1>2. CASE run.path = "catch"
  <2> DEFINE pc == IF run.tries + 1 < Attempts THEN "waiting" ELSE "dead"
  <2>1. pc \in JobPcs /\ "ok" \in Paths
    BY DEF JobPcs, Paths
  <2>2. Thrown(run) = [run EXCEPT !.pc = pc, !.path = "ok", !.tries = run.tries + 1]
    BY <1>2 DEF Thrown
  <2>3. run.tries + 1 \in Nat
    BY DEF JobType
  <2> HIDE DEF pc
  <2> QED
    BY <2>1, <2>2, <2>3 DEF JobType
<1> QED
  BY <1>1, <1>2

\* The steps of a run change the record of its job, and a row or a counter.
LEMMA TypeRun ==
  ASSUME TypeOK, NEW j \in JobId, RunJob(j) \/ SendLost(j) \/ CallFails(j)
  PROVE  TypeOK'
<1> USE DEF TypeOK, To, Throw, EndEarly, db, history, JobType, JobPcs, RunningPcs, Paths
<1> Attempts \in Nat
  BY CampaignAssumption
<1>a. \A run \in JobType : Thrown(run) \in JobType
  BY ThrownType
<1>b. Thrown([job[j] EXCEPT !.copies = @ + 1]) \in JobType
  BY ThrownType
<1>1. CASE Deliver(j)
  BY <1>1 DEF Deliver
<1>2. CASE Fetch(j)
  BY <1>2 DEF Fetch
<1>3. CASE Send(j)
  BY <1>3 DEF Send, Overrun
<1>4. CASE SendRefused(j)
  BY <1>4, <1>a DEF SendRefused
<1>5. CASE SendLost(j)
  BY <1>5, <1>b DEF SendLost, Overrun
<1>6. CASE Store(j)
  BY <1>6 DEF Store
<1>7. CASE Mark(j)
  <2>1. row' \in [Recipient -> RowStatuses] /\ hasWamid' \in [Recipient -> BOOLEAN]
    BY <1>7 DEF Mark, RowStatuses, Outcomes
  <2> QED
    BY <2>1, <1>7 DEF Mark
<1>8. CASE Count(j)
  <2>1. counts' \in [Outcomes -> Nat]
    BY <1>8 DEF Count, Outcomes
  <2>2. unchecked' \in BOOLEAN
    BY <1>8, Zenon DEF Count
  <2> QED
    BY <2>1, <2>2, <1>8 DEF Count
<1>9. CASE Check(j)
  <2>1. PICK pc \in JobPcs : job' = [job EXCEPT ![j].pc = pc]
    BY <1>9, Zenon DEF Check
  <2>2. job' \in [JobId -> JobType]
    BY <2>1
  <2> QED
    BY <1>9, <2>2 DEF Check
<1>10. CASE Recheck(j)
  <2>1. job' \in [JobId -> JobType]
    BY <1>10 DEF Recheck
  <2> QED
    BY <1>10, <2>1 DEF Recheck
<1>11. CASE Complete(j)
  BY <1>11 DEF Complete, Statuses
<1>12. CASE RecordMissing(j)
  BY <1>12, <1>a DEF RecordMissing
<1>13. CASE CallFails(j)
  BY <1>13, <1>a DEF CallFails
<1> QED
  BY <1>1, <1>2, <1>3, <1>4, <1>5, <1>6, <1>7, <1>8, <1>9, <1>10, <1>11, <1>12,
     <1>13 DEF RunJob

LEMMA TypeStep == TypeOK /\ [Next]_vars => TypeOK'
<1> SUFFICES ASSUME TypeOK, [Next]_vars PROVE TypeOK'
  OBVIOUS
<1>1. CASE Create
  BY <1>1 DEF Create, TypeOK, Statuses, history
<1>2. ASSUME NEW q \in Request, NEW op \in Ops, Receive(q, op) PROVE TypeOK'
  <2>1. op \in AllOps /\ FirstStep(op) \in ReqPcs
    BY CampaignAssumption DEF AllOps, FirstStep, ReqPcs
  <2>2. [NoRequest EXCEPT !.op = op, !.pc = FirstStep(op)] \in ReqType
    BY <2>1, FreshRecords DEF ReqType
  <2> DEFINE new == [NoRequest EXCEPT !.op = op, !.pc = FirstStep(op)]
  <2>3. req' = [req EXCEPT ![q] = new]
    BY <1>2 DEF Receive
  <2>4. new \in ReqType
    BY <2>2
  <2> HIDE DEF new
  <2>5. req' \in [Request -> ReqType] /\ events' \in Nat
    BY <1>2, <2>3, <2>4 DEF Receive, TypeOK
  <2> QED
    BY <1>2, <2>5 DEF Receive, TypeOK, db, history
<1>3. ASSUME NEW q \in Request, Handler(q) \/ RequestFails(q) PROVE TypeOK'
  BY <1>3, TypeHandler
<1>4. ASSUME NEW j \in JobId, RunJob(j) \/ SendLost(j) \/ CallFails(j) PROVE TypeOK'
  BY <1>4, TypeRun
<1>5. CASE Crash
  <2>1. ASSUME NEW run \in JobType, NEW pc \in {"dead", "waiting"}
        PROVE  [run EXCEPT !.pc = pc, !.path = "ok", !.stalls = @ + 1] \in JobType
    <3> pc \in JobPcs /\ "ok" \in Paths
      BY DEF JobPcs, Paths
    <3> run.stalls + 1 \in Nat
      BY DEF JobType
    <3> QED
      BY JobUpdate
  <2>2. ASSUME NEW j \in JobId
        PROVE  (IF j \notin Running THEN job[j]
                ELSE [job[j] EXCEPT !.pc = IF job[j].stalls = 0 THEN "waiting" ELSE "dead",
                                    !.path = "ok", !.stalls = @ + 1]) \in JobType
    BY <2>1 DEF TypeOK
  <2>3. job' \in [JobId -> JobType]
    BY <1>5, <2>2 DEF Crash
  <2>4. UNCHANGED <<db, req, events, history>>
    BY <1>5 DEF Crash
  <2>5. faults' \in Nat
    <3>1. faults' = faults + 1
      BY <1>5 DEF Crash
    <3>2. faults \in Nat
      BY DEF TypeOK
    <3> QED
      BY <3>1, <3>2
  <2> QED
    BY <2>3, <2>4, <2>5 DEF TypeOK, db, history
<1>6. CASE UNCHANGED vars
  BY <1>6 DEF TypeOK, vars
<1> QED
  BY <1>1, <1>2, <1>3, <1>4, <1>5, <1>6 DEF Next

\* The rows, counters, jobs and requests keep their types.
THEOREM TypeCorrect == Spec => []TypeOK
  BY TypeInit, TypeStep, PTL DEF Spec

-----------------------------------------------------------------------------
(* What one step does to a job.                                            *)

\* The record of a job that was just enqueued for r.
FirstRun(r) == [NoJob EXCEPT !.pc = "waiting", !.to = r]

\* One addBulk: a job of its own for every recipient the request holds, and
\* nothing else.
LEMMA EnqueueJobs ==
  ASSUME TypeOK, NEW q \in Request, Enqueue(q)
  PROVE  /\ req[q].pc = "enqueue" /\ req[q].who \subseteq Recipient
         /\ \A j \in JobId :
              \/ job'[j] = job[j]
              \/ job[j].pc = "free" /\ \E r \in req[q].who : job'[j] = FirstRun(r)
         /\ \A r \in req[q].who : \E j \in JobId :
              job[j].pc = "free" /\ job'[j] = FirstRun(r)
<1> DEFINE who == req[q].who
<1>1. req[q].pc = "enqueue" /\ who \subseteq Recipient
  BY DEF Enqueue, TypeOK, ReqType
<1>2. PICK id \in [who -> FreeJobs] :
        /\ \A r, s \in who : id[r] = id[s] => r = s
        /\ job' = [j \in JobId |->
                     IF \E r \in who : id[r] = j
                     THEN FirstRun(CHOOSE r \in who : id[r] = j)
                     ELSE job[j]]
  BY DEF Enqueue, FirstRun
<1>3. ASSUME NEW r \in who
      PROVE  job[id[r]].pc = "free" /\ id[r] \in JobId /\ job'[id[r]] = FirstRun(r)
  <2>1. id[r] \in JobId /\ job[id[r]].pc = "free"
    BY <1>2 DEF FreeJobs
  <2>2. (CHOOSE s \in who : id[s] = id[r]) = r
    BY <1>2
  <2> QED
    BY <1>2, <2>1, <2>2
<1>4. ASSUME NEW j \in JobId
      PROVE  job'[j] = job[j] \/ \E r \in who : id[r] = j
  BY <1>2
<1> QED
  BY <1>1, <1>3, <1>4

\* A job's own record, before and after one step of its run that leads on, ...
MovesOn(old, new) ==
    \/ old.pc = "waiting" /\ new = [old EXCEPT !.pc = "fetch"]
    \/ old.pc = "fetch" /\ \/ new = [old EXCEPT !.pc = "mark", !.path = "early"]
                           \/ new = [old EXCEPT !.pc = "send"]
                           \/ new = [old EXCEPT !.pc = "done"]
    \/ old.pc = "store" /\ new = [old EXCEPT !.pc = "mark"]
    \/ old.pc = "mark" /\ new = [old EXCEPT !.pc = "count"]
    \/ old.pc = "count" /\ \E pc \in {"check", "done"} : new = [old EXCEPT !.pc = pc]
    \/ old.pc = "check" /\ \E pc \in {"recheck", "done"} : new = [old EXCEPT !.pc = pc]
    \/ old.pc = "recheck" /\ \E pc \in {"complete", "done"} : new = [old EXCEPT !.pc = pc]
    \/ old.pc = "complete" /\ new = [old EXCEPT !.pc = "done"]

\* ... that sends, ...
Sends(old, new) ==
    /\ old.pc = "send"
    /\ LET sent == [old EXCEPT !.copies = @ + 1] IN
         new = [sent EXCEPT !.pc = "store"] \/ new = Thrown(sent)

\* ... that throws, or of a crash.
Restarted(old) ==
    [old EXCEPT !.pc = IF old.stalls = 0 THEN "waiting" ELSE "dead",
                !.path = "ok", !.stalls = @ + 1]
Fails(old, new) ==
    old.pc \in RunningPcs /\ (new = Thrown(old) \/ new = Restarted(old))

Advances(old, new) == MovesOn(old, new) \/ Sends(old, new) \/ Fails(old, new)

\* The steps of a run change its own job, its row and the campaign alone.
LEMMA RunFrame ==
  ASSUME TypeOK, NEW j \in JobId, RunJob(j) \/ SendLost(j) \/ CallFails(j)
  PROVE  /\ \A i \in JobId \ {j} : job'[i] = job[i]
         /\ UNCHANGED <<total, req, events, late, retried>>
<1>1. \A i \in JobId \ {j} : job'[i] = job[i]
  BY DEF RunJob, Deliver, Fetch, EndEarly, Send, SendRefused, SendLost, Store, Mark,
         Count, Check, Recheck, Complete, RecordMissing, CallFails, To, Throw, TypeOK
<1>2. UNCHANGED <<total, req, events, late, retried>>
  BY DEF RunJob, Deliver, Fetch, Send, SendRefused, SendLost, Store, Mark, Count,
         Check, Recheck, Complete, RecordMissing, CallFails, db, history
<1> QED
  BY <1>1, <1>2

LEMMA RunAdvances ==
  ASSUME TypeOK, NEW j \in JobId, RunJob(j) \/ SendLost(j) \/ CallFails(j)
  PROVE  Advances(job[j], job'[j])
<1> USE DEF TypeOK
<1>1. CASE Deliver(j) \/ Store(j) \/ Mark(j)
  BY <1>1 DEF Deliver, Store, Mark, To, Advances, MovesOn
<1>2. CASE Fetch(j)
  BY <1>2 DEF Fetch, EndEarly, To, Advances, MovesOn
<1>3. CASE Count(j) \/ Check(j) \/ Recheck(j) \/ Complete(j)
  BY <1>3 DEF Count, Check, Recheck, Complete, To, Advances, MovesOn
<1>4. CASE SendRefused(j) \/ SendLost(j)
  BY <1>4 DEF SendRefused, SendLost, Throw, Advances, Sends, Fails, RunningPcs
<1>5. CASE RecordMissing(j) \/ CallFails(j)
  BY <1>5 DEF RecordMissing, CallFails, Throw, Advances, Fails, RunningPcs
<1>6. CASE Send(j)
  <2>1. job[j].pc = "send"
        /\ job'[j] = [[job[j] EXCEPT !.copies = @ + 1] EXCEPT !.pc = "store"]
    BY <1>6 DEF Send, JobType
  <2> QED
    BY <2>1 DEF Advances, Sends
<1> QED
  BY <1>1, <1>2, <1>3, <1>4, <1>5, <1>6 DEF RunJob

LEMMA CrashAdvances ==
  ASSUME TypeOK, Crash, NEW j \in JobId
  PROVE  /\ UNCHANGED <<db, req, events, history>> /\ faults' = faults + 1
         /\ job'[j] = job[j] \/ Advances(job[j], job'[j])
<1>1. CASE j \in Running
  BY <1>1 DEF Crash, Running, Restarted, Advances, Fails
<1>2. CASE j \notin Running
  BY <1>2 DEF Crash
<1> QED
  BY <1>1, <1>2 DEF Crash

\* The other handlers leave the jobs alone, and every handler the requests of
\* the others.
LEMMA HandlerFrame ==
  ASSUME TypeOK, NEW q \in Request, Handler(q) \/ RequestFails(q)
  PROVE  /\ Enqueue(q) \/ job' = job
         /\ \A p \in Request \ {q} : req'[p] = req[p]
         /\ events' = events /\ faults \in Nat
         /\ faults' = faults \/ faults' = faults + 1
<1> USE DEF TypeOK, GoOn, Respond
<1>1. Enqueue(q) \/ job' = job
  BY DEF Handler, RequestFails, ListPending, ListFailed, ResetFailed, WriteStatus,
         InsertRows, UnlinkRow, Tally, StoreTotal, ClearRows, DropCampaign,
         FindMessage, FindRow, ApplyEvent, CountEvent
<1>2. \A p \in Request \ {q} : req'[p] = req[p]
  BY DEF Handler, RequestFails, ListPending, ListFailed, ResetFailed, WriteStatus,
         Enqueue, InsertRows, UnlinkRow, Tally, StoreTotal, ClearRows, DropCampaign,
         FindMessage, FindRow, ApplyEvent, CountEvent
<1>3. events' = events /\ (faults' = faults \/ faults' = faults + 1)
  BY DEF Handler, RequestFails, ListPending, ListFailed, ResetFailed, WriteStatus,
         Enqueue, InsertRows, UnlinkRow, Tally, StoreTotal, ClearRows, DropCampaign,
         FindMessage, FindRow, ApplyEvent, CountEvent
<1> QED
  BY <1>1, <1>2, <1>3

\* What any step does to a job: nothing, its enqueuing, or a step of its run.
LEMMA JobChanges ==
  ASSUME TypeOK, [Next]_vars, NEW j \in JobId
  PROVE  \/ job'[j] = job[j]
         \/ /\ job[j].pc = "free"
            /\ \E q \in Request, r \in Recipient :
                 r \in req[q].who /\ req[q].pc = "enqueue" /\ job'[j] = FirstRun(r)
         \/ Advances(job[j], job'[j])
<1>1. CASE Create \/ (\E q \in Request, op \in Ops : Receive(q, op)) \/ UNCHANGED vars
  BY <1>1 DEF Create, Receive, vars
<1>2. ASSUME NEW q \in Request, Handler(q) \/ RequestFails(q)
      PROVE  \/ job'[j] = job[j]
             \/ /\ job[j].pc = "free"
                /\ \E r \in Recipient : r \in req[q].who /\ req[q].pc = "enqueue"
                                        /\ job'[j] = FirstRun(r)
  <2>1. CASE Enqueue(q)
    BY <2>1, EnqueueJobs
  <2>2. CASE job' = job
    BY <2>2
  <2> QED
    BY <1>2, <2>1, <2>2, HandlerFrame
<1>3. ASSUME NEW i \in JobId, RunJob(i) \/ SendLost(i) \/ CallFails(i)
      PROVE  job'[j] = job[j] \/ Advances(job[j], job'[j])
  BY <1>3, RunFrame, RunAdvances
<1>4. CASE Crash
  BY <1>4, CrashAdvances
<1> QED
  BY <1>1, <1>2, <1>3, <1>4 DEF Next

-----------------------------------------------------------------------------
(* Messages and deliveries.                                                *)

\* Before it sends, a run has sent nothing that an earlier delivery of its job
\* did not pay for; after, one message more.  BullMQ gives a job Attempts tries
\* and one more start after a stall.
Paid(run) ==
    /\ run.copies <= run.tries + run.stalls + 1
    /\ run.pc \in {"free", "waiting", "fetch", "send", "dead"} =>
         run.copies <= run.tries + run.stalls
    /\ run.pc # "dead" => run.tries < Attempts /\ run.stalls <= 1
    /\ run.tries + run.stalls <= Attempts + 1

\* A job has a recipient once it is enqueued, a run that stores or marks a message
\* as sent has sent it, and one that has not sent is in its try block.
RunSound(run) ==
    /\ run.pc = "free" => run.to = "nobody" /\ run.copies = 0
    /\ run.pc # "free" => run.to \in Recipient
    /\ run.pc = "store" \/ (run.pc = "mark" /\ run.path = "ok") => run.copies > 0
    /\ run.pc \in {"waiting", "fetch", "send", "store"} => run.path = "ok"

RunsSound == \A j \in JobId : RunSound(job[j]) /\ Paid(job[j])

LEMMA FirstRunFields ==
  ASSUME NEW r \in Recipient
  PROVE  /\ FirstRun(r).pc = "waiting" /\ FirstRun(r).to = r
         /\ FirstRun(r).path = "ok" /\ FirstRun(r).copies = 0
         /\ FirstRun(r).tries = 0 /\ FirstRun(r).stalls = 0
  BY DEF FirstRun, NoJob

LEMMA ThrownFields ==
  ASSUME NEW run \in JobType
  PROVE  /\ Thrown(run).to = run.to /\ Thrown(run).copies = run.copies
         /\ Thrown(run).stalls = run.stalls
         /\ IF run.path # "catch"
            THEN /\ Thrown(run).pc = "mark" /\ Thrown(run).path = "catch"
                 /\ Thrown(run).tries = run.tries
            ELSE /\ Thrown(run).pc = IF run.tries + 1 < Attempts THEN "waiting" ELSE "dead"
                 /\ Thrown(run).path = "ok" /\ Thrown(run).tries = run.tries + 1
  BY DEF Thrown, JobType

LEMMA SentFields ==
  ASSUME NEW run \in JobType
  PROVE  LET sent == [run EXCEPT !.copies = @ + 1] IN
           /\ sent \in JobType /\ sent.copies = run.copies + 1
           /\ sent.pc = run.pc /\ sent.to = run.to /\ sent.path = run.path
           /\ sent.tries = run.tries /\ sent.stalls = run.stalls
  BY DEF JobType

LEMMA RestartedFields ==
  ASSUME NEW run \in JobType
  PROVE  /\ Restarted(run).to = run.to /\ Restarted(run).copies = run.copies
         /\ Restarted(run).path = "ok" /\ Restarted(run).tries = run.tries
         /\ Restarted(run).stalls = run.stalls + 1
         /\ Restarted(run).pc = IF run.stalls = 0 THEN "waiting" ELSE "dead"
  BY DEF JobType, Restarted

LEMMA MovedFields ==
  ASSUME NEW old \in JobType, NEW new, MovesOn(old, new)
  PROVE  /\ new.to = old.to /\ new.copies = old.copies
         /\ new.tries = old.tries /\ new.stalls = old.stalls
         /\ new.path = old.path \/ (new.pc = "mark" /\ new.path = "early")
         /\ old.pc \notin {"free", "done", "dead", "send"}
         /\ new.pc \notin {"free", "waiting", "dead", "store"}
         /\ new.pc \in {"fetch", "send"} => old.pc \in {"waiting", "fetch"}
         /\ new.pc = "mark" => old.pc = "store" \/ new.path = "early"
  BY DEF MovesOn, JobType

\* A run keeps its recipient and takes back no message.
LEMMA AdvancesKeeps ==
  ASSUME NEW old \in JobType, NEW new, Advances(old, new)
  PROVE  /\ old.pc # "free" /\ new.pc # "free"
         /\ new.to = old.to /\ new.copies >= old.copies
<1>0. old.copies \in Nat
  BY DEF JobType
<1>1. CASE MovesOn(old, new)
  BY <1>0, <1>1, MovedFields
<1>2. CASE Sends(old, new)
  <2> DEFINE sent == [old EXCEPT !.copies = @ + 1]
  <2>1. sent \in JobType /\ sent.copies = old.copies + 1 /\ sent.to = old.to
    BY SentFields
  <2>2. old.pc = "send" /\ (new = [sent EXCEPT !.pc = "store"] \/ new = Thrown(sent))
    BY <1>2 DEF Sends
  <2> HIDE DEF sent
  <2> DEFINE stored == [sent EXCEPT !.pc = "store"]
  <2>3. stored.pc = "store" /\ stored.to = sent.to /\ stored.copies = sent.copies
    BY <2>1 DEF JobType
  <2>5. new = stored \/ new = Thrown(sent)
    BY <2>2
  <2> HIDE DEF stored
  <2>4. /\ Thrown(sent).to = sent.to /\ Thrown(sent).copies = sent.copies
        /\ Thrown(sent).pc \in {"mark", "waiting", "dead"}
    BY <2>1, ThrownFields
  <2>6. old.pc = "send"
    BY <2>2
  <2> QED
    BY <1>0, <2>1, <2>3, <2>4, <2>5, <2>6
<1>3. CASE Fails(old, new)
  <2>1. CASE new = Thrown(old)
    <3>1. new.to = old.to /\ new.copies = old.copies /\ new.pc \in {"mark", "waiting", "dead"}
      BY <2>1, ThrownFields
    <3> QED
      BY <1>0, <1>3, <3>1 DEF Fails, RunningPcs
  <2>2. CASE new = Restarted(old)
    <3>1. new.to = old.to /\ new.copies = old.copies /\ new.pc \in {"waiting", "dead"}
      BY <2>2, RestartedFields
    <3> QED
      BY <1>0, <1>3, <3>1 DEF Fails, RunningPcs
  <2> QED
    BY <1>3, <2>1, <2>2 DEF Fails
<1> QED
  BY <1>1, <1>2, <1>3 DEF Advances

LEMMA AdvancesSound ==
  ASSUME NEW old \in JobType, NEW new \in JobType, Advances(old, new),
         RunSound(old), Paid(old)
  PROVE  RunSound(new) /\ Paid(new)
<1> USE DEF RunSound, Paid
<1>0. /\ Attempts \in Nat \ {0} /\ old.copies \in Nat /\ old.tries \in Nat /\ old.stalls \in Nat
      /\ old.pc \in JobPcs
  BY CampaignAssumption DEF JobType
<1>1. CASE MovesOn(old, new)
  BY <1>0, <1>1, MovedFields
<1>2. CASE Sends(old, new)
  <2> DEFINE sent == [old EXCEPT !.copies = @ + 1]
  <2>1. /\ sent \in JobType /\ sent.copies = old.copies + 1 /\ sent.to = old.to
        /\ sent.tries = old.tries /\ sent.stalls = old.stalls /\ sent.path = old.path
    BY SentFields
  <2>2. old.pc = "send" /\ (new = [sent EXCEPT !.pc = "store"] \/ new = Thrown(sent))
    BY <1>2 DEF Sends
  <2> HIDE DEF sent
  <2>3. CASE new = [sent EXCEPT !.pc = "store"]
    <3>1. /\ new.pc = "store" /\ new.to = sent.to /\ new.copies = sent.copies
          /\ new.tries = sent.tries /\ new.stalls = sent.stalls /\ new.path = sent.path
      BY <2>1, <2>3 DEF JobType
    <3> QED
      BY <1>0, <2>1, <2>2, <3>1
  <2>4. CASE new = Thrown(sent)
    BY <1>0, <2>1, <2>2, <2>4, ThrownFields
  <2> QED
    BY <2>2, <2>3, <2>4
<1>3. CASE Fails(old, new)
  <2>1. CASE new = Thrown(old)
    BY <1>0, <1>3, <2>1, ThrownFields DEF Fails, RunningPcs
  <2>2. CASE new = Restarted(old)
    BY <1>0, <1>3, <2>2, RestartedFields DEF Fails, RunningPcs
  <2> QED
    BY <1>3, <2>1, <2>2 DEF Fails
<1> QED
  BY <1>1, <1>2, <1>3 DEF Advances

LEMMA RunsInit == Init => RunsSound
  BY CampaignAssumption DEF Init, NoJob, RunsSound, RunSound, Paid

LEMMA RunsStep == TypeOK /\ RunsSound /\ [Next]_vars => RunsSound'
<1> SUFFICES ASSUME TypeOK, RunsSound, [Next]_vars, NEW j \in JobId
             PROVE  RunSound(job'[j]) /\ Paid(job'[j])
  BY DEF RunsSound
<1>1. job[j] \in JobType /\ RunSound(job[j]) /\ Paid(job[j])
  BY DEF TypeOK, RunsSound
<1>2. job'[j] \in JobType
  BY TypeStep DEF TypeOK
<1>3. ASSUME NEW r \in Recipient, job'[j] = FirstRun(r)
      PROVE  RunSound(job'[j]) /\ Paid(job'[j])
  BY <1>3, FirstRunFields, CampaignAssumption DEF RunSound, Paid
<1> QED
  BY <1>1, <1>2, <1>3, JobChanges, AdvancesSound

\* However often a worker crashes, its jobs stall or its calls fail, one
\* delivery of a job sends one message at most.
THEOREM OneSendCorrect == Spec => []OneSendPerDelivery
<1>1. ASSUME TypeOK, RunsSound PROVE OneSendPerDelivery
  <2> SUFFICES ASSUME NEW j \in JobId
               PROVE  job[j].copies <= Deliveries(j) /\ Deliveries(j) <= Attempts + 1
    BY DEF OneSendPerDelivery
  <2>1. Paid(job[j]) /\ job[j] \in JobType
    BY <1>1 DEF RunsSound, TypeOK
  <2>2. /\ job[j].copies \in Nat /\ job[j].tries \in Nat /\ job[j].stalls \in Nat
        /\ job[j].pc \in JobPcs
    BY <2>1 DEF JobType
  <2>3. Attempts \in Nat \ {0}
    BY CampaignAssumption
  <2> QED
    BY <2>1, <2>2, <2>3 DEF Paid, Deliveries, JobPcs, RunningPcs
<1> QED
  BY <1>1, TypeInit, TypeStep, RunsInit, RunsStep, PTL DEF Spec

-----------------------------------------------------------------------------
(* What one step does to a row and to a request.                            *)

\* A row is inserted, reset, removed, reported on or marked by a run.
RowChanges(r) ==
    \/ row'[r] = row[r]
    \/ /\ row[r] = "none" /\ row'[r] = "pending" /\ Exists
       /\ r \in late' \/ (status = "draft" /\ ~Listed)
       /\ \E q \in Request : req[q].pc = "insert"
    \/ /\ row[r] = "failed" /\ row'[r] = "pending" /\ r \in late'
       /\ \E q \in Request : req[q].pc = "reset"
    \/ Present(r) /\ row'[r] = "gone"
    \/ /\ Present(r)
       /\ \E q \in Request : /\ req[q].pc = "event" /\ r \in req[q].who
                             /\ row'[r] = req[q].event
    \/ /\ Present(r)
       /\ \E j \in JobId : /\ job[j].pc = "mark" /\ job[j].to = r
                           /\ job'[j] = [job[j] EXCEPT !.pc = "count"]
                           /\ row'[r] = IF job[j].path = "ok" THEN "sent" ELSE "failed"

LEMMA RowStep ==
  ASSUME TypeOK, [Next]_vars, NEW r \in Recipient
  PROVE  RowChanges(r) /\ late \subseteq late'
<1> USE DEF TypeOK, RowChanges
<1>1. CASE Create \/ Crash \/ (\E q \in Request, op \in Ops : Receive(q, op)) \/ UNCHANGED vars
  BY <1>1 DEF Create, Crash, Receive, vars, db, history
<1>2. ASSUME NEW q \in Request, Handler(q) \/ RequestFails(q)
      PROVE  RowChanges(r) /\ late \subseteq late'
  <2>1. CASE ResetFailed(q)
    BY <2>1 DEF ResetFailed
  <2>2. CASE InsertRows(q)
    BY <2>2 DEF InsertRows
  <2>3. CASE UnlinkRow(q)
    BY <2>3 DEF UnlinkRow, history
  <2>4. CASE ClearRows(q) \/ DropCampaign(q)
    BY <2>4 DEF ClearRows, DropCampaign, AllGone, history
  <2>5. CASE ApplyEvent(q)
    BY <2>5 DEF ApplyEvent, ReqType, history
  <2>6. CASE \/ ListPending(q) \/ ListFailed(q) \/ WriteStatus(q) \/ Enqueue(q)
             \/ Tally(q) \/ StoreTotal(q) \/ FindMessage(q) \/ FindRow(q) \/ CountEvent(q)
             \/ RequestFails(q)
    <3>1. row' = row /\ late' = late
      BY <2>6 DEF ListPending, ListFailed, WriteStatus, Enqueue, Tally, StoreTotal,
                  FindMessage, FindRow, CountEvent, RequestFails, db, history
    <3> QED
      BY <3>1
  <2> QED
    BY <1>2, <2>1, <2>2, <2>3, <2>4, <2>5, <2>6 DEF Handler
<1>3. ASSUME NEW j \in JobId, RunJob(j) \/ SendLost(j) \/ CallFails(j)
      PROVE  RowChanges(r) /\ late \subseteq late'
  <2>1. CASE Mark(j)
    BY <2>1 DEF Mark, To, history
  <2>2. CASE ~Mark(j)
    <3>1. row' = row /\ late' = late
      BY <1>3, <2>2 DEF RunJob, Deliver, Fetch, Send, SendRefused, SendLost, Store,
                  Count, Check, Recheck, Complete, RecordMissing, CallFails, db, history
    <3> QED
      BY <3>1
  <2> QED
    BY <2>1, <2>2
<1> QED
  BY <1>1, <1>2, <1>3 DEF Next

\* The request at q, and its next call.
Proceeds(q) ==
    \/ req'[q] = req[q]
    \/ req'[q] = NoRequest
    \/ \E op \in Ops : /\ status \in Guard(op) /\ req'[q].pc = FirstStep(op)
                       /\ req'[q].op = op /\ req'[q].who = {}
                       /\ status' = status /\ (op = "status" => events' = events + 1)
    \/ /\ req'[q].op = req[q].op
       /\ \/ /\ req[q].pc = "list" /\ req[q].op = "start"
             /\ req'[q].pc = "write" /\ req'[q].who = Pending /\ row' = row
          \/ /\ req[q].pc = "list" /\ req[q].op = "retry"
             /\ req'[q].pc = "reset" /\ req'[q].who # {}
             /\ \A r \in req'[q].who : row[r] = "failed"
          \/ /\ req[q].pc = "reset" /\ req'[q].pc = "write" /\ req'[q].who = req[q].who
          \/ /\ req[q].pc = "write" /\ req'[q].pc = "enqueue" /\ req'[q].who = req[q].who
             /\ status' = "processing" /\ req[q].op \in {"start", "retry"}
             /\ req[q].op = "retry" => retried'
          \/ /\ <<req[q].pc, req'[q].pc>> \in {<<"insert", "tally">>, <<"unlink", "tally">>,
                     <<"tally", "total">>, <<"clear", "drop">>, <<"event", "bump">>}
             /\ req'[q].who = req[q].who
          \/ /\ req[q].pc = "find" /\ req'[q].pc = "match"
             /\ \A r \in req'[q].who : Accepted(r)
          \/ /\ req[q].pc = "match" /\ req'[q].pc = "event" /\ req'[q].who = req[q].who
             /\ \E r \in req[q].who : Present(r) /\ hasWamid[r]

\* Who writes the campaign's status, and what.
StatusChanges ==
    \/ status' = status
    \/ status = "none" /\ status' \in {"draft", "scheduled"}
    \/ /\ Exists /\ status' \in {"paused", "cancelled"}
       /\ \E q \in Request : req[q].pc = "write" /\ status' = NewStatus(req[q].op)
    \/ /\ Exists /\ status' = "processing" /\ overrun' = 0
       /\ \E q \in Request : req[q].pc = "write" /\ req'[q].pc = "enqueue"
    \/ Exists /\ status' = "deleted" /\ \A r \in Recipient : ~Present(r)'
    \/ Exists /\ status' = "completed" /\ \E j \in JobId : job[j].pc = "complete"

LEMMA StatusWrites ==
  ASSUME TypeOK, [Next]_vars
  PROVE  StatusChanges
<1> USE DEF StatusChanges
<1>1. CASE status' = status
  BY <1>1
<1>2. CASE Create
  BY <1>2 DEF Create
<1>3. ASSUME NEW q \in Request, WriteStatus(q), status' # status PROVE StatusChanges
  <2>1. /\ req[q].pc = "write" /\ Exists /\ status' = NewStatus(req[q].op)
        /\ IF req[q].op \in {"start", "retry"} THEN GoOn(q, "enqueue") ELSE Respond(q)
        /\ overrun' = IF status' = "processing" THEN 0 ELSE overrun
    BY <1>3 DEF WriteStatus
  <2>2. CASE req[q].op \in {"start", "retry"}
    <3>1. req'[q].pc = "enqueue" /\ status' = "processing"
      BY <2>1, <2>2 DEF GoOn, NewStatus, TypeOK, ReqType
    <3> QED
      BY <2>1, <3>1
  <2>3. CASE req[q].op \notin {"start", "retry"}
    BY <2>1, <2>3 DEF NewStatus
  <2> QED
    BY <2>2, <2>3
<1>4. ASSUME NEW q \in Request, DropCampaign(q) PROVE StatusChanges
  <2>1. CASE Exists
    <3>1. status' = "deleted" /\ row' = AllGone
      BY <1>4, <2>1 DEF DropCampaign
    <3>2. \A r \in Recipient : ~Present(r)'
      BY <3>1 DEF Present, AllGone
    <3> QED
      BY <2>1, <3>1, <3>2
  <2>2. CASE ~Exists
    BY <1>4, <2>2 DEF DropCampaign
  <2> QED
    BY <2>1, <2>2
<1>5. ASSUME NEW j \in JobId, Complete(j) PROVE StatusChanges
  BY <1>5 DEF Complete
<1>6. ASSUME NEW q \in Request, Handler(q) \/ RequestFails(q), ~WriteStatus(q), ~DropCampaign(q)
      PROVE  status' = status
  BY <1>6 DEF Handler, RequestFails, ListPending, ListFailed, ResetFailed,
              Enqueue, InsertRows, UnlinkRow, Tally, StoreTotal, ClearRows,
              FindMessage, FindRow, ApplyEvent, CountEvent, db
<1>7. ASSUME NEW j \in JobId, RunJob(j) \/ SendLost(j) \/ CallFails(j), ~Complete(j)
      PROVE  status' = status
  BY <1>7 DEF RunJob, Deliver, Fetch, Send, SendRefused, SendLost, Store, Mark,
              Count, Check, Recheck, RecordMissing, CallFails, db
<1>8. Crash \/ (\E q \in Request, op \in Ops : Receive(q, op)) \/ UNCHANGED vars
        => status' = status
  BY DEF Crash, Receive, vars, db
<1> HIDE DEF StatusChanges
<1> QED
  BY <1>1, <1>2, <1>3, <1>4, <1>5, <1>6, <1>7, <1>8 DEF Next

LEMMA RequestProceeds ==
  ASSUME TypeOK, [Next]_vars, NEW q \in Request
  PROVE  Proceeds(q)
<1> USE DEF TypeOK
<1>1. CASE req' = req
  BY <1>1 DEF Proceeds
<1>2. ASSUME NEW p \in Request, NEW op \in Ops, Receive(p, op) PROVE Proceeds(q)
  <2>1. CASE p = q
    <3>1. req'[q] = [NoRequest EXCEPT !.op = op, !.pc = FirstStep(op)]
      BY <1>2, <2>1 DEF Receive
    <3>2. req'[q].pc = FirstStep(op) /\ req'[q].op = op /\ req'[q].who = {}
      BY <3>1 DEF NoRequest
    <3>3. status \in Guard(op) /\ status' = status /\ (op = "status" => events' = events + 1)
      BY <1>2 DEF Receive, db
    <3> QED
      BY <3>2, <3>3 DEF Proceeds
  <2>2. CASE p # q
    BY <1>2, <2>2 DEF Receive, Proceeds
  <2> QED
    BY <2>1, <2>2
<1>3. ASSUME NEW p \in Request, Handler(p) \/ RequestFails(p), p # q PROVE Proceeds(q)
  BY <1>3, HandlerFrame DEF Proceeds
<1>4. ASSUME Handler(q) \/ RequestFails(q) PROVE Proceeds(q)
  <2> USE DEF GoOn, Respond, ReqType
  <2>0. Respond(q) => req'[q] = NoRequest
    OBVIOUS
  <2>1. CASE ListPending(q)
    BY <2>1 DEF ListPending, Proceeds, db
  <2>2. CASE ListFailed(q)
    BY <2>2 DEF ListFailed, Proceeds
  <2>3. CASE ResetFailed(q)
    BY <2>3 DEF ResetFailed, Proceeds
  <2>4. CASE WriteStatus(q)
    <3>1. CASE req'[q] = NoRequest
      BY <3>1 DEF Proceeds
    <3>2. CASE req'[q] # NoRequest
      <4>1. /\ req[q].pc = "write" /\ status' = NewStatus(req[q].op)
            /\ req[q].op \in {"start", "retry"}
            /\ req' = [req EXCEPT ![q].pc = "enqueue"]
        BY <2>4, <3>2, <2>0 DEF WriteStatus
      <4>2. retried' = (retried \/ req[q].op = "retry")
        BY <2>4, <3>2, <2>0, Zenon DEF WriteStatus
      <4>3. status' = "processing"
        BY <4>1 DEF NewStatus
      <4>4. req'[q].pc = "enqueue" /\ req'[q].op = req[q].op /\ req'[q].who = req[q].who
        BY <4>1
      <4> QED
        BY <4>1, <4>2, <4>3, <4>4 DEF Proceeds
    <3> QED
      BY <3>1, <3>2
  <2>5. CASE Enqueue(q) \/ StoreTotal(q) \/ DropCampaign(q) \/ CountEvent(q) \/ RequestFails(q)
    <3>1. Respond(q)
      BY <2>5, Zenon DEF Enqueue, StoreTotal, DropCampaign, CountEvent, RequestFails
    <3> QED
      BY <2>0, <3>1 DEF Proceeds
  <2>6. CASE InsertRows(q) \/ UnlinkRow(q) \/ ClearRows(q) \/ ApplyEvent(q)
    <3>1. \/ Respond(q)
          \/ req[q].pc \in {"insert", "unlink"} /\ GoOn(q, "tally")
          \/ req[q].pc = "clear" /\ GoOn(q, "drop")
          \/ req[q].pc = "event" /\ GoOn(q, "bump")
      BY <2>6 DEF InsertRows, UnlinkRow, ClearRows, ApplyEvent
    <3> QED
      BY <2>0, <3>1 DEF Proceeds
  <2>7. CASE Tally(q)
    <3>1. req'[q] = [req[q] EXCEPT !.pc = "total",
                                   !.n = Cardinality({r \in Recipient : Present(r)})]
      BY <2>7 DEF Tally
    <3> DEFINE n == Cardinality({r \in Recipient : Present(r)})
    <3>2. req'[q] = [req[q] EXCEPT !.pc = "total", !.n = n]
      BY <3>1
    <3> HIDE DEF n
    <3>3. req'[q].pc = "total" /\ req'[q].op = req[q].op /\ req'[q].who = req[q].who
      BY <3>2
    <3> QED
      BY <2>7, <3>3 DEF Tally, Proceeds
  <2>8. CASE FindMessage(q)
    <3>1. CASE Respond(q)
      BY <2>0, <3>1 DEF Proceeds
    <3>2. CASE ~Respond(q)
      <4>1. PICK r \in Recipient, e \in Outcomes :
              /\ Accepted(r)
              /\ req' = [req EXCEPT ![q] = [@ EXCEPT !.pc = "match", !.who = {r}, !.event = e]]
        BY <2>8, <3>2 DEF FindMessage
      <4>2. req'[q] = [req[q] EXCEPT !.pc = "match", !.who = {r}, !.event = e]
        BY <4>1
      <4>3. req'[q].pc = "match" /\ req'[q].op = req[q].op /\ req'[q].who = {r}
        BY <4>2
      <4> QED
        BY <2>8, <4>1, <4>3 DEF FindMessage, Proceeds
    <3> QED
      BY <3>1, <3>2
  <2>9. CASE FindRow(q)
    BY <2>0, <2>9 DEF FindRow, Proceeds
  <2> QED
    BY <1>4, <2>1, <2>2, <2>3, <2>4, <2>5, <2>6, <2>7, <2>8, <2>9 DEF Handler
<1> QED
  <2>1. Create \/ Crash \/ UNCHANGED vars => req' = req
    BY DEF Create, Crash, vars
  <2>2. ASSUME NEW j \in JobId, RunJob(j) \/ SendLost(j) \/ CallFails(j)
        PROVE  req' = req
    BY <2>2, RunFrame
  <2> QED
    BY <1>1, <1>2, <1>3, <1>4, <2>1, <2>2 DEF Next

\* What only grows.
LEMMA Monotone ==
  ASSUME TypeOK, [Next]_vars
  PROVE  /\ faults' >= faults /\ events' >= events
         /\ retried => retried'
<1> USE DEF TypeOK
<1>1. ASSUME NEW q \in Request, WriteStatus(q)
      PROVE  faults' = faults /\ events' = events /\ (retried => retried')
  <2>1. faults' = faults /\ events' = events
    BY <1>1 DEF WriteStatus
  <2>2. retried' = (retried \/ req[q].op = "retry") \/ retried' = retried
    BY <1>1, Zenon DEF WriteStatus
  <2> QED
    BY <2>1, <2>2, Zenon
<1>2. ASSUME NEW q \in Request, Handler(q) \/ RequestFails(q), ~WriteStatus(q)
      PROVE  (faults' = faults \/ faults' = faults + 1) /\ events' = events /\ retried' = retried
  BY <1>2 DEF Handler, RequestFails, ListPending, ListFailed, ResetFailed,
              Enqueue, InsertRows, UnlinkRow, Tally, StoreTotal, ClearRows, DropCampaign,
              FindMessage, FindRow, ApplyEvent, CountEvent, history
<1>3. ASSUME NEW j \in JobId, RunJob(j) \/ SendLost(j) \/ CallFails(j)
      PROVE  (faults' = faults \/ faults' = faults + 1) /\ events' = events /\ retried' = retried
  BY <1>3 DEF RunJob, Deliver, Fetch, Send, SendRefused, SendLost, Store, Mark,
              Count, Check, Recheck, Complete, RecordMissing, CallFails, history
<1>4. ASSUME NEW q \in Request, NEW op \in Ops, Receive(q, op)
      PROVE  faults' = faults /\ events' >= events /\ retried' = retried
  BY <1>4 DEF Receive, history
<1>5. Create \/ Crash \/ UNCHANGED vars
        => (faults' = faults \/ faults' = faults + 1) /\ events' = events /\ retried' = retried
  BY DEF Create, Crash, vars, history
<1>6. faults \in Nat /\ events \in Nat
  OBVIOUS
<1> QED
  BY <1>1, <1>2, <1>3, <1>4, <1>5, <1>6 DEF Next

\* An enqueued job changes by a step of its own run, or by a crash.
LEMMA OwnStep ==
  ASSUME TypeOK, [Next]_vars, NEW j \in JobId, job'[j] # job[j], job[j].pc # "free"
  PROVE  RunJob(j) \/ SendLost(j) \/ CallFails(j) \/ Crash
<1>1. ASSUME NEW q \in Request, Handler(q) \/ RequestFails(q) PROVE FALSE
  BY <1>1, HandlerFrame, EnqueueJobs
<1>2. ASSUME NEW i \in JobId, RunJob(i) \/ SendLost(i) \/ CallFails(i) PROVE i = j
  BY <1>2, RunFrame
<1>3. Create \/ (\E q \in Request, op \in Ops : Receive(q, op)) \/ UNCHANGED vars => job' = job
  BY DEF Create, Receive, vars
<1> QED
  BY <1>1, <1>2, <1>3 DEF Next

\* A run comes from marking to counting by marking.
LEMMA MarkedStep ==
  ASSUME TypeOK, [Next]_vars, NEW j \in JobId, job[j].pc = "mark", job'[j].pc = "count"
  PROVE  Mark(j)
<1>0. job[j] \in JobType /\ job \in [JobId -> JobType]
  BY DEF TypeOK
<1>1. RunJob(j) \/ SendLost(j) \/ CallFails(j) \/ Crash
  BY OwnStep
<1>2. ~Crash
  <2> SUFFICES ASSUME Crash PROVE FALSE
    OBVIOUS
  <2>1. job'[j] = Restarted(job[j])
    BY DEF Crash, Running, RunningPcs, Restarted
  <2> QED
    BY <1>0, <2>1, RestartedFields
<1>3. ~CallFails(j) /\ ~RecordMissing(j)
  BY <1>0, ThrownFields DEF CallFails, RecordMissing, Throw
<1> QED
  BY <1>1, <1>2, <1>3 DEF RunJob, SendLost, Deliver, Fetch, Send, SendRefused, Store,
                          Count, Check, Recheck, Complete

\* A row becomes pending in time only in a draft that no start has listed.
LEMMA PendingInTime ==
  ASSUME TypeOK, [Next]_vars, NEW r \in Pending' \ late'
  PROVE  /\ r \in Recipient
         /\ r \in Pending \ late \/ (status = "draft" /\ ~Listed /\ row' # row)
<1>1. r \in Recipient
  BY DEF Pending
<1>2. RowChanges(r) /\ late \subseteq late' /\ row'[r] = "pending" /\ r \notin late'
  BY <1>1, RowStep DEF Pending
<1>3. \A q \in Request : req[q].event \in Outcomes
  BY DEF TypeOK, ReqType
<1> QED
  BY <1>1, <1>2, <1>3 DEF RowChanges, Pending, Outcomes

\* A row that was inserted stays so, and one that is gone stays gone.
LEMMA RowKept ==
  ASSUME TypeOK, [Next]_vars, NEW r \in Recipient
  PROVE  /\ row[r] # "none" => row'[r] # "none"
         /\ row[r] = "gone" => row'[r] = "gone"
<1>1. RowChanges(r)
  BY RowStep
<1>2. \A q \in Request : req[q].event \in Outcomes
  BY DEF TypeOK, ReqType
<1> QED
  BY <1>1, <1>2 DEF RowChanges, Present, Outcomes

\* A job that was enqueued keeps its recipient, ...
LEMMA JobKept ==
  ASSUME TypeOK, [Next]_vars, NEW j \in JobId, job[j].pc # "free"
  PROVE  job'[j].pc # "free" /\ job'[j].to = job[j].to
<1>1. job[j] \in JobType
  BY DEF TypeOK
<1>2. job'[j] = job[j] \/ Advances(job[j], job'[j])
  BY JobChanges
<1> QED
  BY <1>1, <1>2, AdvancesKeeps

\* ... and one that is not changes by its enqueuing alone.
LEMMA EnqueuedStep ==
  ASSUME TypeOK, [Next]_vars, NEW j \in JobId, job[j].pc = "free"
  PROVE  \/ job'[j] = job[j]
         \/ \E q \in Request, r \in Recipient :
              r \in req[q].who /\ req[q].pc = "enqueue" /\ job'[j] = FirstRun(r)
<1>1. ~Advances(job[j], job'[j])
  BY AdvancesKeeps DEF TypeOK
<1> QED
  BY <1>1, JobChanges

-----------------------------------------------------------------------------
(* Recipients of a completed campaign.                                     *)

Unstarted == {"none", "draft", "scheduled"}

\* Nothing has been enqueued before the first start, ...
NotStartedIdle ==
    status \in Unstarted =>
        /\ \A j \in JobId : job[j].pc = "free"
        /\ \A q \in Request : req[q].pc # "enqueue"

\* ... and a run that has counted no pending row, and whatever it then writes,
\* may be contradicted only by rows that became pending late.
CountedNone ==
    \A j \in JobId : job[j].pc \in {"recheck", "complete"} => Pending \subseteq late

CompletionInv ==
    TypeOK /\ NotStartedIdle /\ CountedNone /\ CompletedLeavesNoneBehind

LEMMA CompletionInit == Init => CompletionInv
<1> SUFFICES ASSUME Init PROVE CompletionInv
  OBVIOUS
<1>1. TypeOK
  BY TypeInit
<1>2. (\A j \in JobId : job[j].pc = "free") /\ (\A q \in Request : req[q].pc = "idle")
  BY DEF Init, NoJob, NoRequest
<1> QED
  BY <1>1, <1>2 DEF Init, CompletionInv, NotStartedIdle, CountedNone,
                    CompletedLeavesNoneBehind

\* A row that becomes pending once something was enqueued is late.
LEMMA PendingGrows ==
  ASSUME CompletionInv, [Next]_vars, status \notin Unstarted
  PROVE  Pending \subseteq late => Pending' \subseteq late'
  BY PendingInTime DEF CompletionInv, Unstarted

\* What one step does to the status: it never goes back to an unstarted one, and
\* only a run that has counted no pending row completes the campaign.
LEMMA StatusStep ==
  ASSUME TypeOK, [Next]_vars
  PROVE  /\ status' \in Unstarted => status \in Unstarted
         /\ status' = "completed" =>
              status = "completed" \/ \E j \in JobId : job[j].pc = "complete"
  BY StatusWrites DEF StatusChanges, Unstarted

\* What one step does to a job: it is enqueued by a request, and reaches the
\* second and third call of checkCampaignCompletion from the first alone.
LEMMA CheckedStep ==
  ASSUME TypeOK, [Next]_vars, NEW j \in JobId
  PROVE  /\ job[j].pc = "free" =>
              job'[j].pc = "free" \/ \E q \in Request : req[q].pc = "enqueue"
         /\ job'[j].pc \in {"recheck", "complete"} =>
              \/ job[j].pc \in {"recheck", "complete"}
              \/ job[j].pc = "check" /\ Pending = {}
<1>0. job[j] \in JobType /\ job \in [JobId -> JobType]
  BY DEF TypeOK
<1>1. ASSUME job[j].pc = "free"
      PROVE  job'[j].pc = "free" \/ \E q \in Request : req[q].pc = "enqueue"
  BY <1>1, EnqueuedStep
<1>2. ASSUME job'[j].pc \in {"recheck", "complete"}, job[j].pc \notin {"recheck", "complete"}
      PROVE  job[j].pc = "check" /\ Pending = {}
  <2>1. job[j].pc # "free"
    BY <1>2, EnqueuedStep, FirstRunFields
  <2>2. RunJob(j) \/ SendLost(j) \/ CallFails(j) \/ Crash
    BY <1>2, <2>1, OwnStep
  <2>3. ~Crash
    <3>1. Crash => job'[j] = job[j] \/ job'[j] = Restarted(job[j])
      BY DEF Crash, Running, Restarted
    <3> QED
      BY <1>0, <1>2, <3>1, RestartedFields
  <2>4. ~CallFails(j) /\ ~RecordMissing(j) /\ ~SendRefused(j)
    BY <1>0, <1>2, ThrownFields DEF CallFails, RecordMissing, SendRefused, Throw
  <2>5. ~SendLost(j)
    <3> DEFINE sent == [job[j] EXCEPT !.copies = @ + 1]
    <3>1. SendLost(j) => job'[j] = Thrown(sent)
      BY <1>0 DEF SendLost
    <3>2. sent \in JobType
      BY <1>0, SentFields
    <3> HIDE DEF sent
    <3> QED
      BY <1>2, <3>1, <3>2, ThrownFields
  <2>6. CASE Check(j)
    BY <1>0, <1>2, <2>6 DEF Check, To, JobType
  <2>7. CASE \/ Deliver(j) \/ Fetch(j) \/ Send(j) \/ Store(j) \/ Mark(j)
             \/ Count(j) \/ Complete(j) \/ Recheck(j)
    BY <1>0, <1>2, <2>7 DEF Deliver, Fetch, EndEarly, Send, Store, Mark, Count, Complete,
                            Recheck, To, JobType
  <2> QED
    BY <2>2, <2>3, <2>4, <2>5, <2>6, <2>7 DEF RunJob
<1> QED
  BY <1>1, <1>2

\* A request comes to enqueue only by writing 'processing'.
LEMMA EnqueueAfterWrite ==
  ASSUME TypeOK, [Next]_vars, NEW q \in Request, req'[q].pc = "enqueue"
  PROVE  req[q].pc = "enqueue" \/ status' = "processing"
<1>1. \A op \in Ops : FirstStep(op) # "enqueue"
  BY CampaignAssumption DEF FirstStep, AllOps
<1>2. Proceeds(q)
  BY RequestProceeds
<1> QED
  BY <1>1, <1>2 DEF Proceeds, NoRequest


LEMMA CompletionStep == CompletionInv /\ [Next]_vars => CompletionInv'
<1> SUFFICES ASSUME CompletionInv, [Next]_vars PROVE CompletionInv'
  OBVIOUS
<1>1. TypeOK /\ NotStartedIdle /\ CountedNone /\ CompletedLeavesNoneBehind
  BY DEF CompletionInv
<1>2. NotStartedIdle'
  <2> SUFFICES ASSUME status' \in Unstarted
               PROVE  /\ \A j \in JobId : job'[j].pc = "free"
                      /\ \A q \in Request : req'[q].pc # "enqueue"
    BY DEF NotStartedIdle
  <2>1. status \in Unstarted
    BY <1>1, StatusStep
  <2>2. /\ \A j \in JobId : job[j].pc = "free"
        /\ \A q \in Request : req[q].pc # "enqueue"
    BY <1>1, <2>1 DEF NotStartedIdle
  <2>3. status' # "processing"
    BY DEF Unstarted
  <2> QED
    BY <1>1, <2>2, <2>3, CheckedStep, EnqueueAfterWrite
<1>3. CountedNone'
  <2> SUFFICES ASSUME NEW j \in JobId, job'[j].pc \in {"recheck", "complete"}
               PROVE  Pending' \subseteq late'
    BY DEF CountedNone
  <2>1. job[j].pc \in {"recheck", "complete", "check"} /\ Pending \subseteq late
    BY <1>1, CheckedStep DEF CountedNone
  <2>2. status \notin Unstarted
    BY <1>1, <2>1 DEF NotStartedIdle
  <2> QED
    BY <2>1, <2>2, PendingGrows
<1>4. CompletedLeavesNoneBehind'
  <2> SUFFICES ASSUME status' = "completed" PROVE Pending' \subseteq late'
    BY DEF CompletedLeavesNoneBehind
  <2>1. CASE status = "completed"
    BY <1>1, <2>1, PendingGrows DEF CompletedLeavesNoneBehind, Unstarted
  <2>2. CASE status # "completed"
    <3>1. PICK j \in JobId : job[j].pc = "complete"
      BY <1>1, <2>2, StatusStep
    <3>2. status \notin Unstarted
      BY <1>1, <3>1 DEF NotStartedIdle
    <3>3. Pending \subseteq late
      BY <1>1, <3>1 DEF CountedNone
    <3> QED
      BY <3>2, <3>3, PendingGrows
  <2> QED
    BY <2>1, <2>2
<1> QED
  BY <1>1, <1>2, <1>3, <1>4, TypeStep DEF CompletionInv

\* A completed campaign leaves no recipient behind, however many requests, jobs
\* and failures there are: checkCampaignCompletion's three calls are as good as
\* one, because a row that becomes pending between them became so too late.
THEOREM CompletionCorrect == Spec => []CompletedLeavesNoneBehind
<1>1. CompletionInv => CompletedLeavesNoneBehind
  BY DEF CompletionInv
<1> QED
  BY <1>1, CompletionInit, CompletionStep, PTL DEF Spec

-----------------------------------------------------------------------------
(* Rows that say sent, delivered or read.                                  *)

\* Only an accepted message has a wamid, and only such a message gets a report.
AcceptedInv ==
    /\ SentMeansAccepted
    /\ \A r \in Recipient : hasWamid[r] => Accepted(r)
    /\ \A q \in Request :
         req[q].pc \in {"match", "event"} => \A r \in req[q].who : Accepted(r)

\* No job is given to another recipient.
LEMMA AcceptedStays ==
  ASSUME TypeOK, RunsSound, [Next]_vars, NEW r \in Recipient, Accepted(r)
  PROVE  Accepted(r)'
<1>1. PICK j \in JobId : job[j].to = r /\ job[j].copies > 0
  BY DEF Accepted
<1>2. job[j] \in JobType /\ job'[j] \in JobType /\ job[j].pc # "free"
  <2>1. job[j] \in JobType /\ RunSound(job[j])
    BY DEF TypeOK, RunsSound
  <2>2. job'[j] \in JobType
    BY TypeStep DEF TypeOK
  <2>3. job[j].pc # "free"
    BY <1>1, <2>1 DEF RunSound
  <2> QED
    BY <2>1, <2>2, <2>3
<1>3. job'[j].to = r /\ job'[j].copies >= job[j].copies
  <2>1. job'[j] = job[j] \/ Advances(job[j], job'[j])
    BY <1>2, JobChanges
  <2>2. job[j].copies \in Nat
    BY <1>2 DEF JobType
  <2> QED
    BY <1>1, <1>2, <2>1, <2>2, AdvancesKeeps
<1>4. job'[j].copies > 0
  <2>1. job[j].copies \in Nat /\ job'[j].copies \in Nat
    BY <1>2 DEF JobType
  <2> QED
    BY <1>1, <1>3, <2>1
<1> QED
  BY <1>3, <1>4 DEF Accepted

\* A row gets a wamid from a run that has sent.
LEMMA WamidStep ==
  ASSUME TypeOK, [Next]_vars, NEW r \in Recipient, hasWamid'[r]
  PROVE  \/ hasWamid[r]
         \/ \E j \in JobId : job[j].pc = "mark" /\ job[j].path = "ok" /\ job[j].to = r
<1> USE DEF TypeOK
<1>1. CASE hasWamid' = hasWamid
  BY <1>1
<1>2. ASSUME NEW j \in JobId, Mark(j)
      PROVE  \/ hasWamid[r]
             \/ job[j].pc = "mark" /\ job[j].path = "ok" /\ job[j].to = r
  <2>1. /\ job[j].pc = "mark"
        /\ hasWamid' = [hasWamid EXCEPT ![job[j].to] = @ \/ job[j].path = "ok"]
    BY <1>2 DEF Mark
  <2>2. CASE job[j].to # r
    BY <2>1, <2>2
  <2>3. CASE job[j].to = r
    <3>1. hasWamid'[r] = (hasWamid[r] \/ job[j].path = "ok")
      BY <2>1, <2>3, Zenon
    <3> QED
      BY <2>1, <2>3, <3>1, Zenon
  <2> QED
    BY <2>2, <2>3
<1>3. ASSUME NEW q \in Request, Handler(q) \/ RequestFails(q) PROVE hasWamid' = hasWamid
  BY <1>3 DEF Handler, RequestFails, ListPending, ListFailed, ResetFailed, WriteStatus,
              Enqueue, InsertRows, UnlinkRow, Tally, StoreTotal, ClearRows, DropCampaign,
              FindMessage, FindRow, ApplyEvent, CountEvent, db
<1>4. ASSUME NEW j \in JobId, RunJob(j) \/ SendLost(j) \/ CallFails(j), ~Mark(j)
      PROVE  hasWamid' = hasWamid
  BY <1>4 DEF RunJob, Deliver, Fetch, Send, SendRefused, SendLost, Store,
              Count, Check, Recheck, Complete, RecordMissing, CallFails, db
<1>5. Create \/ Crash \/ (\E q \in Request, op \in Ops : Receive(q, op)) \/ UNCHANGED vars
        => hasWamid' = hasWamid
  BY DEF Create, Crash, Receive, vars, db
<1> QED
  BY <1>1, <1>2, <1>3, <1>4, <1>5 DEF Next

LEMMA AcceptedInit == Init => AcceptedInv
  BY DEF Init, NoRequest, AcceptedInv, SentMeansAccepted

LEMMA AcceptedStep ==
  ASSUME TypeOK, RunsSound, AcceptedInv, [Next]_vars
  PROVE  AcceptedInv'
<1>0. /\ SentMeansAccepted
      /\ \A r \in Recipient : hasWamid[r] => Accepted(r)
      /\ \A q \in Request :
         req[q].pc \in {"match", "event"} => \A r \in req[q].who : Accepted(r)
  BY DEF AcceptedInv
<1>a. \A q \in Request : req[q].who \subseteq Recipient /\ req'[q].who \subseteq Recipient
  BY TypeStep DEF TypeOK, ReqType
<1>b. ASSUME NEW r \in Recipient,
             \E j \in JobId : job[j].pc = "mark" /\ job[j].path = "ok" /\ job[j].to = r
      PROVE  Accepted(r)
  BY <1>b DEF RunsSound, RunSound, Accepted
<1>1. SentMeansAccepted'
  <2> SUFFICES ASSUME NEW r \in Recipient, row'[r] \in {"sent", "delivered", "read"}
               PROVE  Accepted(r)'
    BY DEF SentMeansAccepted, Accepted
  <2>1. CASE row'[r] = row[r]
    BY <1>0, <2>1, AcceptedStays DEF SentMeansAccepted, Accepted
  <2>2. CASE \E q \in Request : req[q].pc = "event" /\ r \in req[q].who
    BY <1>0, <2>2, AcceptedStays
  <2>3. CASE \E j \in JobId : job[j].pc = "mark" /\ job[j].path = "ok" /\ job[j].to = r
    BY <1>b, <2>3, AcceptedStays
  <2> QED
    BY <2>1, <2>2, <2>3, RowStep DEF RowChanges
<1>2. ASSUME NEW r \in Recipient, hasWamid'[r] PROVE Accepted(r)'
  BY <1>0, <1>b, <1>2, WamidStep, AcceptedStays
<1>3. ASSUME NEW q \in Request, req'[q].pc \in {"match", "event"}, NEW r \in req'[q].who
      PROVE  Accepted(r)'
  <2>1. r \in Recipient
    BY <1>a
  <2>2. Proceeds(q)
    BY RequestProceeds
  <2>3. \A op \in AllOps : FirstStep(op) \notin {"match", "event"}
    BY DEF FirstStep, AllOps
  <2>4. (req[q].pc \in {"match", "event"} /\ r \in req[q].who) \/ Accepted(r)
    BY <1>3, <2>2, <2>3, CampaignAssumption DEF Proceeds, NoRequest
  <2> QED
    BY <1>0, <2>1, <2>4, AcceptedStays
<1> QED
  BY <1>1, <1>2, <1>3 DEF AcceptedInv

\* However callbacks and failures interleave with the runs, a row that says
\* sent, delivered or read belongs to a recipient WhatsApp accepted a message for.
THEOREM SentCorrect == Spec => []SentMeansAccepted
<1>1. AcceptedInv => SentMeansAccepted
  BY DEF AcceptedInv
<1> QED
  BY <1>1, TypeInit, TypeStep, RunsInit, RunsStep, AcceptedInit, AcceptedStep, PTL DEF Spec

-----------------------------------------------------------------------------
(* Rows of a campaign that was not begun, or is gone.                       *)

\* A campaign that is scheduled, or does not exist yet, has no recipients and
\* no request that could give it any.
Unfilled ==
    status \in {"none", "scheduled"} =>
        /\ \A r \in Recipient : row[r] = "none"
        /\ \A j \in JobId : job[j].pc = "free"
        /\ \A q \in Request :
             req[q].pc \in {"idle", "list", "write", "clear", "drop", "find", "match"}

LEMMA UnfilledInit == Init => Unfilled
  BY DEF Init, Unfilled, NoJob, NoRequest

LEMMA UnfilledStep ==
  ASSUME TypeOK, Unfilled, [Next]_vars
  PROVE  Unfilled'
<1> SUFFICES ASSUME status' \in {"none", "scheduled"}
             PROVE  /\ \A r \in Recipient : row'[r] = "none"
                    /\ \A j \in JobId : job'[j].pc = "free"
                    /\ \A q \in Request :
                         req'[q].pc \in {"idle", "list", "write", "clear", "drop", "find", "match"}
  BY DEF Unfilled
<1>1. status \in {"none", "scheduled"}
  BY StatusWrites DEF StatusChanges
<1>2. /\ \A r \in Recipient : row[r] = "none"
      /\ \A j \in JobId : job[j].pc = "free"
      /\ \A q \in Request :
           req[q].pc \in {"idle", "list", "write", "clear", "drop", "find", "match"}
  BY <1>1 DEF Unfilled
<1>3. ASSUME NEW r \in Recipient PROVE row'[r] = "none"
  <2>1. RowChanges(r)
    BY RowStep
  <2>2. row[r] = "none" /\ ~Present(r)
    BY <1>2 DEF Present
  <2>3. \A q \in Request : req[q].pc # "insert"
    BY <1>2
  <2> QED
    BY <2>1, <2>2, <2>3 DEF RowChanges
<1>4. ASSUME NEW j \in JobId PROVE job'[j].pc = "free"
  <2>1. job[j].pc = "free" /\ \A q \in Request : req[q].pc # "enqueue"
    BY <1>2
  <2> QED
    BY <2>1, EnqueuedStep
<1>5. ASSUME NEW q \in Request
      PROVE  req'[q].pc \in {"idle", "list", "write", "clear", "drop", "find", "match"}
  <2>1. Proceeds(q)
    BY RequestProceeds
  <2>2. req[q].pc \in {"idle", "list", "write", "clear", "drop", "find", "match"}
    BY <1>2
  <2>3. ASSUME NEW op \in Ops, status \in Guard(op)
        PROVE  FirstStep(op) \in {"list", "write", "clear", "find"}
    <3>1. op \in AllOps
      BY CampaignAssumption
    <3>2. op \notin {"add", "remove"}
      BY <1>1, <2>3 DEF Guard, Editable
    <3> QED
      BY <3>1, <3>2 DEF FirstStep, AllOps
  <2>4. \A r \in Recipient : ~Present(r) /\ row[r] # "failed"
    BY <1>2 DEF Present
  <2>5. req'[q].who \subseteq Recipient
    BY TypeStep DEF TypeOK, ReqType
  <2>6. CASE req'[q].pc = "reset"
    BY <2>1, <2>2, <2>3, <2>4, <2>5, <2>6 DEF Proceeds, NoRequest
  <2>7. CASE req'[q].pc = "event"
    <3>1. \E r \in req'[q].who : Present(r)
      BY <2>1, <2>2, <2>3, <2>7 DEF Proceeds, NoRequest
    <3> QED
      BY <2>4, <2>5, <3>1
  <2>8. CASE req'[q].pc \notin {"reset", "event"}
    BY <2>1, <2>2, <2>3, <2>8 DEF Proceeds, NoRequest
  <2> QED
    BY <2>6, <2>7, <2>8
<1> QED
  BY <1>3, <1>4, <1>5

\* A campaign that was created with a schedule stays without recipients and
\* jobs, however requests interleave.
THEOREM ScheduledCorrect == Spec => []ScheduledHasNoRecipients
<1>1. Unfilled => ScheduledHasNoRecipients
  BY DEF Unfilled, ScheduledHasNoRecipients
<1> QED
  BY <1>1, TypeInit, TypeStep, UnfilledInit, UnfilledStep, PTL DEF Spec

-----------------------------------------------------------------------------
(* Messages sent after a pause.                                             *)

Sending == {j \in JobId : job[j].pc = "send"}

\* What was sent since the campaign left 'processing', and what the runs that had
\* read 'processing' may still send, fit into the worker's slots.
SlotsBound ==
    /\ IsFiniteSet(Running) /\ Cardinality(Running) <= Concurrency
    /\ overrun + Cardinality(Sending) <= Concurrency
    /\ status = "processing" => overrun = 0

LEMMA SlotsCount ==
  ASSUME SlotsBound
  PROVE  /\ Sending \subseteq Running /\ IsFiniteSet(Sending)
         /\ Cardinality(Sending) \in Nat /\ Cardinality(Running) \in Nat
         /\ Concurrency \in Nat
  BY FS_Subset, FS_CardinalityType, CampaignAssumption
     DEF SlotsBound, Sending, Running, RunningPcs

\* A step that brings no job into its first call nor to sending.
LEMMA SlotsShrink ==
  ASSUME TypeOK, SlotsBound, Running' \subseteq Running, Sending' \subseteq Sending,
         overrun' \in Nat, overrun' <= overrun, status' = "processing" => overrun' = 0
  PROVE  SlotsBound'
<1>1. /\ IsFiniteSet(Running) /\ IsFiniteSet(Sending) /\ overrun \in Nat
      /\ Cardinality(Sending) \in Nat /\ Cardinality(Running) \in Nat /\ Concurrency \in Nat
  BY SlotsCount DEF SlotsBound, TypeOK
<1>2. IsFiniteSet(Running') /\ Cardinality(Running') <= Cardinality(Running)
      /\ Cardinality(Running') \in Nat
  BY <1>1, FS_Subset, FS_CardinalityType
<1>3. Cardinality(Sending') <= Cardinality(Sending) /\ Cardinality(Sending') \in Nat
  BY <1>1, FS_Subset, FS_CardinalityType
<1>4. Cardinality(Running') <= Concurrency
      /\ overrun' + Cardinality(Sending') <= Concurrency
  BY <1>1, <1>2, <1>3 DEF SlotsBound
<1> QED
  BY <1>2, <1>4 DEF SlotsBound

LEMMA SlotsInit == Init => SlotsBound
<1> SUFFICES ASSUME Init PROVE SlotsBound
  OBVIOUS
<1>1. Running = {} /\ Sending = {}
  BY DEF Init, NoJob, Running, RunningPcs, Sending
<1>2. overrun = 0 /\ status # "processing" /\ Concurrency \in Nat
  BY CampaignAssumption DEF Init
<1> QED
  BY <1>1, <1>2, FS_EmptySet DEF SlotsBound

LEMMA SlotsStep ==
  ASSUME TypeOK, SlotsBound, [Next]_vars
  PROVE  SlotsBound'
<1>0. overrun \in Nat /\ overrun' \in Nat /\ (status = "processing" => overrun = 0)
      /\ job \in [JobId -> JobType] /\ 0 \in Nat
  BY TypeStep DEF TypeOK, SlotsBound
<1>1. ASSUME job' = job, overrun' = overrun \/ overrun' = 0,
             status' = "processing" => status = "processing" \/ overrun' = 0
      PROVE  SlotsBound'
  BY <1>0, <1>1, SlotsShrink DEF Running, Sending
<1>2. CASE Create \/ (\E q \in Request, op \in Ops : Receive(q, op)) \/ UNCHANGED vars
  BY <1>1, <1>2 DEF Create, Receive, vars, db, history
<1>3. ASSUME NEW q \in Request, Handler(q) \/ RequestFails(q) PROVE SlotsBound'
  <2>1. CASE Enqueue(q)
    <3>1. \A j \in JobId : job'[j] = job[j] \/ (job[j].pc = "free" /\ job'[j].pc = "waiting")
      BY <2>1, EnqueueJobs, FirstRunFields
    <3>2. Running' \subseteq Running /\ Sending' \subseteq Sending
      BY <3>1 DEF Running, Sending, RunningPcs
    <3>3. overrun' = overrun /\ status' = status
      BY <2>1 DEF Enqueue, db, history
    <3> QED
      BY <1>0, <3>2, <3>3, SlotsShrink
  <2>2. CASE WriteStatus(q)
    <3>1. job' = job /\ (overrun' = overrun \/ overrun' = 0)
      BY <2>2 DEF WriteStatus
    <3>2. status' = "processing" => status = "processing" \/ overrun' = 0
      BY <2>2 DEF WriteStatus
    <3> QED
      BY <1>1, <3>1, <3>2
  <2>3. CASE ~Enqueue(q) /\ ~WriteStatus(q)
    <3>1. job' = job /\ overrun' = overrun
          /\ (status' = "processing" => status = "processing")
      BY <1>3, <2>3 DEF Handler, RequestFails, ListPending, ListFailed, ResetFailed,
                  InsertRows, UnlinkRow, Tally, StoreTotal, ClearRows, DropCampaign,
                  FindMessage, FindRow, ApplyEvent, CountEvent, db, history
    <3> QED
      BY <1>1, <3>1
  <2> QED
    BY <2>1, <2>2, <2>3
<1>4. ASSUME NEW j \in JobId, RunJob(j) \/ SendLost(j) \/ CallFails(j)
      PROVE  SlotsBound'
  <2>0. \A i \in JobId \ {j} : job'[i] = job[i]
    BY <1>4, RunFrame
  <2>1. CASE Deliver(j)
    <3>1. job[j].pc = "waiting" /\ job'[j].pc = "fetch" /\ Cardinality(Running) < Concurrency
          /\ overrun' = overrun /\ status' = status
      BY <1>0, <2>1 DEF Deliver, To, db, history
    <3>2. Running' = Running \union {j} /\ Sending' = Sending
      BY <2>0, <3>1 DEF Running, Sending, RunningPcs
    <3>3. IsFiniteSet(Running') /\ Cardinality(Running') <= Cardinality(Running) + 1
      <4>1. IsFiniteSet(Running) /\ Cardinality(Running) \in Nat
        BY SlotsCount DEF SlotsBound
      <4> HIDE DEF Running
      <4>2. /\ IsFiniteSet(Running \union {j})
            /\ Cardinality(Running \union {j})
                 = IF j \in Running THEN Cardinality(Running) ELSE Cardinality(Running) + 1
        BY <4>1, FS_AddElement
      <4> QED
        BY <3>2, <4>1, <4>2
    <3>4. Cardinality(Running') \in Nat
      BY <3>3, FS_CardinalityType
    <3> QED
      BY <3>1, <3>2, <3>3, <3>4, SlotsCount DEF SlotsBound
  <2>2. CASE Fetch(j) /\ job'[j].pc = "send"
    <3>1. job[j].pc = "fetch" /\ overrun' = overrun /\ status' = status
      BY <2>2 DEF Fetch, db, history
    <3>2. status = "processing"
      <4>1. CASE ~Exists
        <5>1. EndEarly(j)
          BY <2>2, <4>1 DEF Fetch, Exists
        <5> QED
          BY <1>0, <2>2, <5>1 DEF EndEarly, JobType
      <4>2. CASE Exists /\ status # "processing"
        <5>1. To(j, "done")
          BY <2>2, <4>2 DEF Fetch, Exists
        <5> QED
          BY <1>0, <2>2, <5>1 DEF To, JobType
      <4> QED
        BY <4>1, <4>2
    <3>3. Running' = Running /\ Sending' \subseteq Running
      BY <2>0, <2>2, <3>1 DEF Running, Sending, RunningPcs
    <3>4. /\ IsFiniteSet(Sending') /\ Cardinality(Sending') <= Cardinality(Running)
          /\ Cardinality(Sending') \in Nat
      BY <3>3, FS_Subset, FS_CardinalityType DEF SlotsBound
    <3> QED
      BY <1>0, <3>1, <3>2, <3>3, <3>4, SlotsCount DEF SlotsBound
  <2>3. CASE Send(j) \/ SendLost(j)
    <3>1. /\ job[j].pc = "send" /\ overrun' = Overrun /\ status' = status
      BY <2>3 DEF Send, SendLost, db
    <3>2. job'[j].pc # "send"
      <4>1. CASE Send(j)
        BY <1>0, <4>1 DEF Send, JobType
      <4>2. CASE SendLost(j)
        <5>1. job'[j] = Thrown([job[j] EXCEPT !.copies = @ + 1])
          BY <1>0, <4>2 DEF SendLost
        <5> DEFINE sent == [job[j] EXCEPT !.copies = @ + 1]
        <5>2. sent \in JobType
          BY <1>0, SentFields
        <5> HIDE DEF sent
        <5>3. Thrown(sent).pc \in {"mark", "waiting", "dead"}
          BY <5>2, ThrownFields
        <5> QED
          BY <5>1, <5>3 DEF sent
      <4> QED
        BY <2>3, <4>1, <4>2
    <3>3. Running' \subseteq Running /\ Sending' = Sending \ {j} /\ j \in Sending
      BY <2>0, <3>1, <3>2 DEF Running, Sending, RunningPcs
    <3>4. IsFiniteSet(Running') /\ Cardinality(Running') <= Cardinality(Running)
          /\ Cardinality(Running') \in Nat
      BY <3>3, FS_Subset, FS_CardinalityType DEF SlotsBound
    <3>5. Cardinality(Sending') = Cardinality(Sending) - 1
      BY <3>3, SlotsCount, FS_RemoveElement
    <3>6. overrun' <= overrun + 1 /\ (status = "processing" => overrun' = overrun)
      BY <1>0, <3>1 DEF Overrun
    <3> QED
      BY <1>0, <3>1, <3>4, <3>5, <3>6, SlotsCount DEF SlotsBound
  <2>4. CASE ~Deliver(j) /\ ~Send(j) /\ ~SendLost(j) /\ ~(Fetch(j) /\ job'[j].pc = "send")
    <3>1. overrun' = overrun /\ (status' = "processing" => status = "processing")
      BY <1>4, <2>4 DEF RunJob, Fetch, SendRefused, Store, Mark, Count, Check, Recheck,
                  Complete, RecordMissing, CallFails, db, history
    <3>2. job[j].pc \in RunningPcs
      BY <1>4, <2>4 DEF RunJob, Fetch, SendRefused, Store, Mark, Count, Check, Recheck,
                  Complete, RecordMissing, CallFails, RunningPcs
    <3>3. job'[j].pc # "send"
      <4>1. CASE Fetch(j)
        BY <2>4, <4>1
      <4>2. CASE SendRefused(j) \/ RecordMissing(j) \/ CallFails(j)
        BY <1>0, <4>2, ThrownFields DEF SendRefused, RecordMissing, CallFails, Throw
      <4>3. CASE Store(j) \/ Mark(j) \/ Count(j) \/ Check(j) \/ Recheck(j) \/ Complete(j)
        BY <1>0, <4>3 DEF Store, Mark, Count, Check, Recheck, Complete, To, JobType
      <4> QED
        BY <1>4, <2>4, <4>1, <4>2, <4>3 DEF RunJob
    <3>4. Running' \subseteq Running /\ Sending' \subseteq Sending
      BY <2>0, <3>2, <3>3 DEF Running, Sending
    <3> QED
      BY <1>0, <3>1, <3>4, SlotsShrink
  <2> QED
    BY <2>1, <2>2, <2>3, <2>4
<1>5. CASE Crash
  <2>1. overrun' = overrun /\ status' = status
    BY <1>5 DEF Crash, db, history
  <2>2. \A j \in JobId : job'[j] = job[j] \/ job'[j].pc \in {"waiting", "dead"}
    BY <1>0, <1>5 DEF Crash, JobType
  <2>3. Running' \subseteq Running /\ Sending' \subseteq Sending
    BY <2>2 DEF Running, Sending, RunningPcs
  <2> QED
    BY <1>0, <2>1, <2>3, SlotsShrink
<1> QED
  BY <1>2, <1>3, <1>4, <1>5 DEF Next

\* A pause or a cancel is obeyed up to Concurrency messages, for any number of
\* waiting jobs, requests and crashes.
THEOREM PauseCorrect == Spec => []PauseStopsSends
<1>1. TypeOK /\ SlotsBound => PauseStopsSends
  <2> SUFFICES ASSUME TypeOK, SlotsBound PROVE overrun <= Concurrency
    BY DEF PauseStopsSends
  <2> QED
    BY SlotsCount DEF SlotsBound, TypeOK
<1> QED
  BY <1>1, TypeInit, TypeStep, SlotsInit, SlotsStep, PTL DEF Spec

-----------------------------------------------------------------------------
(* What jobs and requests know, and steps in which no call fails.           *)

\* Jobs and requests know of rows that were inserted, and a campaign that does
\* not exist has no rows.
KnownInv ==
    /\ \A j \in JobId : job[j].pc # "free" => row[job[j].to] # "none"
    /\ \A q \in Request : \A r \in req[q].who : row[r] # "none"
    /\ ~Exists => \A r \in Recipient : ~Present(r)

LEMMA KnownInit == Init => KnownInv
  BY DEF Init, KnownInv, NoJob, NoRequest, Present

LEMMA KnownStep ==
  ASSUME TypeOK, RunsSound, Unfilled, KnownInv, [Next]_vars
  PROVE  KnownInv'
<1>1. ASSUME NEW j \in JobId, job'[j].pc # "free", NEW r, r = job'[j].to
      PROVE  row'[r] # "none"
  <2>1. CASE job[j].pc # "free"
    <3>1. job[j].to = r /\ row[r] # "none"
      BY <1>1, <2>1, JobKept DEF KnownInv
    <3>2. r \in Recipient
      BY <2>1, <3>1 DEF RunsSound, RunSound
    <3> QED
      BY <3>1, <3>2, RowKept
  <2>2. CASE job[j].pc = "free"
    <3>1. PICK q \in Request, s \in Recipient :
            s \in req[q].who /\ job'[j] = FirstRun(s)
      BY <1>1, <2>2, EnqueuedStep
    <3>2. r = s /\ row[s] # "none"
      BY <1>1, <3>1, FirstRunFields DEF KnownInv
    <3> QED
      BY <3>2, RowKept
  <2> QED
    BY <2>1, <2>2
<1>2. ASSUME NEW q \in Request, NEW r \in req'[q].who PROVE row'[r] # "none"
  <2>1. r \in Recipient
    BY <1>2, TypeStep DEF TypeOK, ReqType
  <2>2. Proceeds(q)
    BY RequestProceeds
  <2>3. r \in req[q].who \/ Accepted(r) \/ row[r] = "failed" \/ r \in Pending
    BY <1>2, <2>1, <2>2 DEF Proceeds, NoRequest
  <2>4. Accepted(r) => \E j \in JobId : job[j].pc # "free" /\ job[j].to = r
    BY DEF Accepted, RunsSound, RunSound
  <2>5. row[r] # "none"
    BY <2>3, <2>4 DEF KnownInv, Pending
  <2> QED
    BY <2>1, <2>5, RowKept
<1>3. ASSUME ~Exists', NEW r \in Recipient PROVE ~Present(r)'
  <2>1. CASE status' \in {"none", "scheduled"}
    BY <2>1, UnfilledStep DEF Unfilled, Present
  <2>2. CASE status' # status /\ status' = "deleted"
    BY <2>2, StatusWrites DEF StatusChanges
  <2>3. CASE status' = status /\ status' = "deleted"
    <3>1. ~Exists /\ ~Present(r)
      BY <2>3 DEF Exists, KnownInv
    <3>2. row[r] # "failed"
      BY <3>1 DEF Present
    <3>3. row'[r] = row[r]
      BY <3>1, <3>2, RowStep DEF RowChanges
    <3> QED
      BY <3>1, <3>3 DEF Present
  <2> QED
    BY <1>3, <2>1, <2>2, <2>3 DEF Exists
<1> QED
  BY <1>1, <1>2, <1>3 DEF KnownInv

\* One step of a job when no call fails: a run throws only when WhatsApp refuses
\* or its row or campaign is gone.
LEMMA FaultlessStep ==
  ASSUME TypeOK, [Next]_vars, NEW j \in JobId, job[j].pc # "free", faults' = faults
  PROVE  \/ job'[j] = job[j]
         \/ MovesOn(job[j], job'[j])
         \/ /\ job[j].pc = "send" /\ job'[j].pc = "store" /\ job'[j].path = job[j].path
            /\ job'[j].to = job[j].to
         \/ job[j].pc = "send" /\ job'[j] = Thrown(job[j])
         \/ /\ job'[j] = Thrown(job[j])
            /\ \/ job[j].pc = "mark" /\ ~Present(job[j].to)
               \/ job[j].pc \in {"count", "complete"} /\ ~Exists
<1>0. job \in [JobId -> JobType] /\ job[j] \in JobType /\ faults \in Nat
  BY DEF TypeOK
<1>1. ~Crash /\ ~CallFails(j) /\ ~SendLost(j)
  <2>1. faults' # faults + 1
    BY <1>0
  <2> QED
    BY <2>1, Zenon DEF Crash, CallFails, SendLost
<1>2. CASE RunJob(j)
  <2>1. CASE Deliver(j) \/ Store(j) \/ Mark(j)
    BY <1>0, <2>1 DEF Deliver, Store, Mark, To, MovesOn
  <2>2. CASE Fetch(j)
    BY <1>0, <2>2 DEF Fetch, EndEarly, To, MovesOn
  <2>3. CASE Count(j) \/ Check(j) \/ Recheck(j) \/ Complete(j)
    BY <1>0, <2>3 DEF Count, Check, Recheck, Complete, To, MovesOn
  <2>4. CASE Send(j)
    BY <1>0, <2>4 DEF Send, JobType
  <2>5. CASE SendRefused(j)
    BY <1>0, <2>5 DEF SendRefused, Throw
  <2>6. CASE RecordMissing(j)
    BY <1>0, <2>6 DEF RecordMissing, Throw
  <2> QED
    BY <1>2, <2>1, <2>2, <2>3, <2>4, <2>5, <2>6 DEF RunJob
<1> QED
  BY <1>1, <1>2, OwnStep

-----------------------------------------------------------------------------
(* Recipients of a running campaign.                                        *)

IsLive(run) == run.pc = "waiting" \/ run.pc \in RunningPcs

\* Why a job ends.
LEMMA JobEnds ==
  ASSUME TypeOK, RunsSound, [Next]_vars, NEW j \in JobId, IsLive(job[j]), ~IsLive(job'[j])
  PROVE  \/ job[j].pc = "fetch" /\ status # "processing"
         \/ job[j].pc \in {"count", "check", "recheck", "complete"}
         \/ job[j].pc = "mark" /\ ~Present(job[j].to)
         \/ faults' = faults + 1
<1>0. job \in [JobId -> JobType] /\ job[j] \in JobType /\ job[j].pc # "free"
  BY DEF TypeOK, IsLive, RunningPcs
<1>1. RunJob(j) \/ SendLost(j) \/ CallFails(j) \/ Crash
  BY <1>0, OwnStep
<1>2. CASE Crash \/ CallFails(j) \/ SendLost(j)
  BY <1>2 DEF Crash, CallFails, SendLost
<1>3. CASE Deliver(j) \/ Send(j) \/ Store(j) \/ Mark(j)
  BY <1>0, <1>3 DEF Deliver, Send, Store, Mark, To, IsLive, RunningPcs, JobType
<1>4. CASE Fetch(j)
  <2>1. job[j].pc = "fetch"
    BY <1>4 DEF Fetch
  <2>2. ~EndEarly(j) /\ ~To(j, "send")
    BY <1>0 DEF EndEarly, To, IsLive, RunningPcs, JobType
  <2>3. status # "processing"
    BY <1>4, <2>2 DEF Fetch, Exists
  <2> QED
    BY <2>1, <2>3
<1>5. CASE SendRefused(j)
  <2>1. job'[j] = Thrown(job[j]) /\ job[j].pc = "send"
          /\ job[j].path = "ok"
    BY <1>0, <1>5 DEF SendRefused, Throw, RunsSound, RunSound
  <2> QED
    BY <1>0, <2>1, ThrownFields DEF IsLive, RunningPcs
<1>6. CASE Count(j) \/ Check(j) \/ Recheck(j) \/ Complete(j)
  BY <1>6 DEF Count, Check, Recheck, Complete
<1>7. CASE RecordMissing(j)
  BY <1>7 DEF RecordMissing
<1> QED
  BY <1>1, <1>2, <1>3, <1>4, <1>5, <1>6, <1>7 DEF RunJob

\* r is not, or not in time, one of the recipients that a start enqueues.
Settled(r) == row[r] \notin {"none", "pending"} \/ r \in late

\* A run that has marked its row has settled it, ...
MarkedSettled ==
    \A j \in JobId : job[j].pc \in {"count", "check", "recheck", "complete"} =>
        job[j].to \in Recipient /\ Settled(job[j].to)

\* ... a start holds all rows that were pending in time, and whoever is about to
\* enqueue is a start or a retry that says so.
StartsHoldAll ==
    \A q \in Request :
        /\ req[q].op = "start" /\ req[q].pc \in {"write", "enqueue"} =>
             Pending \ late \subseteq req[q].who
        /\ req[q].pc = "reset" => req[q].op = "retry"
        /\ req[q].pc = "enqueue" =>
             req[q].op \in {"start", "retry"} /\ (req[q].op = "retry" => retried)

\* Unless a retry resumed it, a running campaign forgets nobody.
Remembers ==
    /\ status = "processing" /\ faults = 0 /\ ~retried
    /\ \A q \in Request : req[q].pc # "enqueue"
    => \A r \in Pending \ late : \E j \in Live : job[j].to = r

RememberInv == MarkedSettled /\ StartsHoldAll /\ Remembers

LEMMA SettledStays ==
  ASSUME TypeOK, [Next]_vars, NEW r \in Recipient, Settled(r)
  PROVE  Settled(r)'
<1>1. RowChanges(r) /\ late \subseteq late'
  BY RowStep
<1>2. \A q \in Request : req[q].event \in Outcomes
  BY DEF TypeOK, ReqType
<1> QED
  BY <1>1, <1>2 DEF RowChanges, Settled, Outcomes

LEMMA MarkedSettledStep ==
  ASSUME TypeOK, RunsSound, MarkedSettled, [Next]_vars
  PROVE  MarkedSettled'
<1> SUFFICES ASSUME NEW j \in JobId, NEW r, job'[j].to = r,
                    job'[j].pc \in {"count", "check", "recheck", "complete"}
             PROVE  r \in Recipient /\ Settled(r)'
  BY DEF MarkedSettled, Settled
<1>0. job[j] \in JobType /\ job \in [JobId -> JobType] /\ row \in [Recipient -> RowStatuses]
  BY DEF TypeOK
<1>1. CASE job[j].pc \in {"count", "check", "recheck", "complete"}
  <2>1. job[j].to = r
    BY <1>1, JobKept
  <2>2. r \in Recipient /\ Settled(r)
    BY <1>1, <2>1 DEF MarkedSettled
  <2> QED
    BY <2>2, SettledStays
<1>2. CASE job[j].pc \notin {"count", "check", "recheck", "complete"}
  <2>1. Advances(job[j], job'[j])
    BY <1>2, JobChanges, FirstRunFields
  <2>2. job[j].pc = "mark" /\ job'[j].pc = "count"
    <3>1. \A run \in JobType : Thrown(run).pc \in {"mark", "waiting", "dead"}
                               /\ Restarted(run).pc \in {"waiting", "dead"}
      BY ThrownFields, RestartedFields
    <3>2. [job[j] EXCEPT !.copies = @ + 1] \in JobType
      BY <1>0, SentFields
    <3>3. ~Sends(job[j], job'[j])
      <4> DEFINE sent == [job[j] EXCEPT !.copies = @ + 1]
      <4>1. [sent EXCEPT !.pc = "store"].pc = "store"
        BY <3>2 DEF JobType
      <4> QED
        BY <3>1, <3>2, <4>1 DEF Sends
    <3>4. ~Fails(job[j], job'[j])
      BY <1>0, <3>1 DEF Fails
    <3>5. MovesOn(job[j], job'[j])
      BY <2>1, <3>3, <3>4 DEF Advances
    <3> QED
      BY <1>0, <1>2, <3>5 DEF MovesOn, JobType
  <2>3. Mark(j)
    BY <2>2, MarkedStep
  <2>4. r \in Recipient /\ job[j].to = r
    <3>1. job[j].to \in Recipient
      BY <2>2 DEF RunsSound, RunSound
    <3> QED
      BY <1>0, <2>1, <3>1, AdvancesKeeps
  <2>5. row'[r] \in {"sent", "failed"}
    BY <1>0, <2>3, <2>4 DEF Mark
  <2> QED
    BY <2>4, <2>5 DEF Settled
<1> QED
  BY <1>1, <1>2

LEMMA StartsHoldAllStep ==
  ASSUME TypeOK, NotStartedIdle, StartsHoldAll, [Next]_vars
  PROVE  StartsHoldAll'
<1> SUFFICES ASSUME NEW q \in Request
             PROVE  /\ req'[q].op = "start" /\ req'[q].pc \in {"write", "enqueue"} =>
                         Pending' \ late' \subseteq req'[q].who
                    /\ req'[q].pc = "reset" => req'[q].op = "retry"
                    /\ req'[q].pc = "enqueue" => /\ req'[q].op \in {"start", "retry"}
                                                 /\ req'[q].op = "retry" => retried'
  BY DEF StartsHoldAll
<1>1. Proceeds(q)
  BY RequestProceeds
<1>2. \A op \in Ops : /\ FirstStep(op) \notin {"reset", "enqueue"}
                      /\ op = "start" => FirstStep(op) # "write"
  BY CampaignAssumption DEF FirstStep, AllOps
<1>3. /\ req[q].op = "start" /\ req[q].pc \in {"write", "enqueue"} =>
           Pending \ late \subseteq req[q].who
      /\ req[q].pc = "reset" => req[q].op = "retry"
      /\ req[q].pc = "enqueue" =>
             req[q].op \in {"start", "retry"} /\ (req[q].op = "retry" => retried)
  BY DEF StartsHoldAll
<1>4. retried => retried'
  BY Monotone
<1>5. ASSUME req'[q].op = "start", req'[q].pc \in {"write", "enqueue"}
      PROVE  Pending' \ late' \subseteq req'[q].who
  <2>1. CASE req[q].op = "start" /\ req[q].pc \in {"write", "enqueue"} /\ req'[q].who = req[q].who
    <3>1. status = "draft" => req[q].pc = "write"
      BY <2>1 DEF NotStartedIdle, Unstarted
    <3>2. status = "draft" => Listed
      BY <2>1, <3>1 DEF Listed
    <3> QED
      BY <1>3, <2>1, <3>2, PendingInTime
  <2>2. CASE req'[q].who = Pending /\ row' = row
    BY <2>2, PendingInTime
  <2> QED
    BY <1>1, <1>2, <1>3, <1>5, <2>1, <2>2 DEF Proceeds, NoRequest
<1>6. req'[q].pc = "reset" => req'[q].op = "retry"
  BY <1>1, <1>2, <1>3 DEF Proceeds, NoRequest
<1>7. ASSUME req'[q].pc = "enqueue"
      PROVE  req'[q].op \in {"start", "retry"} /\ (req'[q].op = "retry" => retried')
  BY <1>1, <1>2, <1>3, <1>4, <1>7 DEF Proceeds, NoRequest
<1> QED
  BY <1>5, <1>6, <1>7

\* A request that was about to enqueue and is not any more has done so.
LEMMA EnqueueDone ==
  ASSUME TypeOK, [Next]_vars, NEW q \in Request, req[q].pc = "enqueue", req'[q].pc # "enqueue"
  PROVE  Enqueue(q) \/ faults' = faults + 1
<1>1. ASSUME NEW p \in Request, NEW op \in Ops, Receive(p, op) PROVE FALSE
  BY <1>1 DEF Receive, TypeOK
<1>2. ASSUME NEW p \in Request, Handler(p) \/ RequestFails(p) PROVE p = q
  BY <1>2, HandlerFrame
<1>3. Handler(q) => Enqueue(q)
  BY DEF Handler, ListPending, ListFailed, ResetFailed, WriteStatus,
         InsertRows, UnlinkRow, Tally, StoreTotal, ClearRows, DropCampaign,
         FindMessage, FindRow, ApplyEvent, CountEvent
<1>4. RequestFails(q) => faults' = faults + 1
  BY DEF RequestFails
<1>5. ASSUME NEW j \in JobId, RunJob(j) \/ SendLost(j) \/ CallFails(j) PROVE FALSE
  BY <1>5, RunFrame
<1>6. ~Create /\ ~Crash /\ ~UNCHANGED vars
  BY DEF Create, Crash, vars
<1> QED
  BY <1>1, <1>2, <1>3, <1>4, <1>5, <1>6 DEF Next

LEMMA RememberStep ==
  ASSUME TypeOK, RunsSound, NotStartedIdle, RememberInv, [Next]_vars
  PROVE  Remembers'
<1> SUFFICES ASSUME status' = "processing", faults' = 0, ~retried',
                    \A q \in Request : req'[q].pc # "enqueue",
                    NEW r \in Pending' \ late'
             PROVE  \E j \in JobId : IsLive(job'[j]) /\ job'[j].to = r
  BY DEF Remembers, Live, IsLive
<1>0. faults = 0 /\ ~retried
  BY Monotone DEF TypeOK
<1>1. status = "processing"
  BY StatusWrites DEF StatusChanges
<1>2. r \in Pending \ late /\ r \in Recipient
  BY <1>1, PendingInTime
<1>3. CASE \E q \in Request : req[q].pc = "enqueue"
  <2>1. PICK q \in Request : req[q].pc = "enqueue"
    BY <1>3
  <2>2. Enqueue(q)
    BY <1>0, <2>1, EnqueueDone
  <2>3. req[q].op = "start" /\ r \in req[q].who
    BY <1>0, <1>2, <2>1 DEF RememberInv, StartsHoldAll
  <2>4. PICK j \in JobId : job'[j] = FirstRun(r)
    BY <2>2, <2>3, EnqueueJobs
  <2> QED
    BY <1>2, <2>4, FirstRunFields DEF IsLive
<1>4. CASE \A q \in Request : req[q].pc # "enqueue"
  <2>1. PICK j \in JobId : IsLive(job[j]) /\ job[j].to = r
    BY <1>0, <1>1, <1>2, <1>4 DEF RememberInv, Remembers, Live, IsLive
  <2>2. job'[j].to = r
    <3>1. job[j].pc # "free"
      BY <2>1 DEF IsLive, RunningPcs
    <3> QED
      BY <2>1, <3>1, JobKept
  <2>3. IsLive(job'[j])
    <3> SUFFICES ASSUME ~IsLive(job'[j]) PROVE FALSE
      OBVIOUS
    <3>1. ~Settled(r) /\ Present(r)
      BY <1>2 DEF Settled, Present, Pending
    <3>2. job[j].pc \notin {"count", "check", "recheck", "complete"}
      BY <2>1, <3>1 DEF RememberInv, MarkedSettled
    <3> QED
      BY <1>0, <1>1, <2>1, <3>1, <3>2, JobEnds
  <2> QED
    BY <2>2, <2>3
<1> QED
  BY <1>3, <1>4

\* A retry or a pause is served only once the campaign was begun, ...
BegunFirst ==
    status \in Unstarted => \A q \in Request : req[q].op \notin {"pause", "retry"}

\* ... which is so from the first start on.
Begun ==
    \/ status \in {"processing", "paused", "completed"}
    \/ \E q \in Request : req[q].op \in {"pause", "retry"}
    \/ \E j \in JobId : job[j].pc # "free"

\* r has a job, or a start is about to enqueue it.
InHand(r) ==
    \/ \E j \in JobId : job[j].pc # "free" /\ job[j].to = r
    \/ \E q \in Request : req[q].op = "start" /\ req[q].pc = "enqueue" /\ r \in req[q].who

\* Whoever was pending in time has been enqueued by a start, whatever was paused
\* and retried since, and no job is dead unless its row is gone.
InTimeInHand ==
    faults = 0 /\ Begun => \A r \in Pending \ late : InHand(r)
NoneDead ==
    faults = 0 => \A j \in JobId : job[j].pc = "dead" => row[job[j].to] = "gone"

InTimeInv == BegunFirst /\ InTimeInHand /\ NoneDead

LEMMA BegunFirstStep ==
  ASSUME TypeOK, BegunFirst, [Next]_vars
  PROVE  BegunFirst'
<1> SUFFICES ASSUME status' \in Unstarted, NEW q \in Request, req'[q].op \in {"pause", "retry"}
             PROVE  FALSE
  BY DEF BegunFirst, Unstarted
<1>1. status \in Unstarted
  BY StatusWrites DEF StatusChanges, Unstarted
<1>2. req[q].op \notin {"pause", "retry"}
  BY <1>1 DEF BegunFirst
<1>3. ASSUME NEW op \in {"pause", "retry"} PROVE status \notin Guard(op)
  BY <1>1, <1>3 DEF Unstarted, Guard, Pausable, Retryable
<1> QED
  BY <1>2, <1>3, RequestProceeds DEF Proceeds, NoRequest

LEMMA InHandStays ==
  ASSUME TypeOK, [Next]_vars, faults = 0, faults' = 0, NEW r \in Recipient, InHand(r)
  PROVE  InHand(r)'
<1>1. ASSUME NEW j \in JobId, job[j].pc # "free", job[j].to = r PROVE InHand(r)'
  BY <1>1, JobKept DEF InHand
<1>2. ASSUME NEW q \in Request, req[q].op = "start", req[q].pc = "enqueue", r \in req[q].who
      PROVE  InHand(r)'
  <2>1. CASE req'[q].pc = "enqueue"
    <3>1. \A op \in Ops : FirstStep(op) # "enqueue"
      BY CampaignAssumption DEF FirstStep, AllOps
    <3>2. req'[q] = req[q]
      BY <1>2, <2>1, <3>1, RequestProceeds DEF Proceeds, NoRequest
    <3> QED
      BY <1>2, <3>2 DEF InHand
  <2>2. CASE req'[q].pc # "enqueue"
    <3>1. Enqueue(q)
      BY <1>2, <2>2, EnqueueDone
    <3>2. PICK j \in JobId : job'[j] = FirstRun(r)
      BY <1>2, <3>1, EnqueueJobs
    <3> QED
      BY <3>2, FirstRunFields DEF InHand
  <2> QED
    BY <2>1, <2>2
<1> QED
  BY <1>1, <1>2 DEF InHand

\* What begins a campaign is a start, which holds whoever is pending in time.
LEMMA BegunStep ==
  ASSUME TypeOK, NotStartedIdle, StartsHoldAll, [Next]_vars, faults = 0, faults' = 0,
         ~Begun, Begun', NEW r \in Pending' \ late'
  PROVE  InHand(r)'
<1>0. /\ status \notin {"processing", "paused", "completed"}
      /\ \A q \in Request : req[q].op \notin {"pause", "retry"}
      /\ \A j \in JobId : job[j].pc = "free"
  BY DEF Begun
<1>1. CASE \E q \in Request : req'[q].op \in {"pause", "retry"}
  <2>1. PICK q \in Request : req'[q].op \in {"pause", "retry"}
    BY <1>1
  <2>2. status \in Guard(req'[q].op)
    BY <1>0, <2>1, RequestProceeds DEF Proceeds, NoRequest
  <2>3. status \in Pausable \union Retryable
    BY <2>1, <2>2 DEF Guard
  <2> QED
    BY <1>0, <2>3 DEF Pausable, Retryable, TypeOK, Statuses
<1>2. CASE \E j \in JobId : job'[j].pc # "free"
  <2>1. PICK j \in JobId : job'[j].pc # "free"
    BY <1>2
  <2>2. PICK q \in Request : req[q].pc = "enqueue"
    BY <1>0, <2>1, EnqueuedStep
  <2>3. req[q].op = "start" /\ Pending \ late \subseteq req[q].who
    BY <1>0, <2>2 DEF StartsHoldAll
  <2>4. status # "draft"
    BY <2>2 DEF NotStartedIdle, Unstarted
  <2>5. r \in Recipient /\ r \in req[q].who
    BY <2>3, <2>4, PendingInTime
  <2>6. InHand(r)
    BY <2>2, <2>3, <2>5 DEF InHand
  <2> QED
    BY <2>5, <2>6, InHandStays
<1>3. CASE status' \in {"processing", "paused", "completed"}
  <2>1. PICK q \in Request : req[q].pc = "write" /\ req'[q].pc = "enqueue"
    <3>1. \A q \in Request : NewStatus(req[q].op) # "paused"
      BY <1>0 DEF NewStatus
    <3> QED
      BY <1>0, <1>3, <3>1, StatusWrites DEF StatusChanges
  <2>2. req'[q].op = "start" /\ req'[q].pc = "enqueue"
    <3>1. \A op \in Ops : FirstStep(op) # "enqueue"
      BY CampaignAssumption DEF FirstStep, AllOps
    <3> QED
      BY <1>0, <2>1, <3>1, RequestProceeds DEF Proceeds, NoRequest
  <2>3. r \in req'[q].who
    BY <2>2, StartsHoldAllStep DEF StartsHoldAll
  <2> QED
    BY <2>2, <2>3 DEF InHand
<1> QED
  BY <1>1, <1>2, <1>3 DEF Begun

LEMMA InTimeInHandStep ==
  ASSUME TypeOK, NotStartedIdle, StartsHoldAll, BegunFirst, InTimeInHand, [Next]_vars
  PROVE  InTimeInHand'
<1> SUFFICES ASSUME faults' = 0, Begun', NEW r \in Pending' \ late'
             PROVE  InHand(r)'
  BY DEF InTimeInHand
<1>1. faults = 0
  BY Monotone DEF TypeOK
<1>2. CASE Begun
  <2>1. status # "draft"
    BY <1>2 DEF Begun, NotStartedIdle, BegunFirst, Unstarted
  <2>2. r \in Recipient /\ r \in Pending \ late
    BY <2>1, PendingInTime
  <2>3. InHand(r)
    BY <1>1, <1>2, <2>2 DEF InTimeInHand
  <2> QED
    BY <1>1, <2>2, <2>3, InHandStays
<1> QED
  BY <1>1, <1>2, BegunStep

LEMMA NoneDeadStep ==
  ASSUME TypeOK, RunsSound, KnownInv, NoneDead, [Next]_vars
  PROVE  NoneDead'
<1> SUFFICES ASSUME faults' = 0, NEW j \in JobId, job'[j].pc = "dead"
             PROVE  row'[job'[j].to] = "gone"
  BY DEF NoneDead
<1>1. faults = 0 /\ job[j] \in JobType
  BY Monotone DEF TypeOK
<1>2. job[j].pc # "free"
  BY EnqueuedStep, FirstRunFields
<1>3. job'[j].to = job[j].to /\ job[j].to \in Recipient
  BY <1>2, JobKept DEF RunsSound, RunSound
<1>4. row[job[j].to] = "gone"
  <2>1. CASE job'[j] = job[j]
    BY <1>1, <2>1 DEF NoneDead
  <2>2. CASE job'[j] # job[j]
    <3>1. ~MovesOn(job[j], job'[j])
      BY <1>1 DEF MovesOn, JobType
    <3>2. job[j].pc = "send" => Thrown(job[j]).pc = "mark"
      BY <1>1 DEF RunsSound, RunSound, Thrown, JobType
    <3>3. ~Present(job[j].to)
      BY <1>1, <1>2, <1>3, <2>2, <3>1, <3>2, FaultlessStep DEF KnownInv
    <3> QED
      BY <1>2, <3>3 DEF KnownInv, Present
  <2> QED
    BY <2>1, <2>2
<1> QED
  BY <1>3, <1>4, RowKept

\* However starts, pauses, retries and adds interleave, a running campaign has for
\* every recipient that was pending in time a live job or a request about to
\* enqueue it, unless its job had been skipped before a retry resumed the campaign.
THEOREM RememberCorrect == Spec => []NoRecipientForgotten
<1>1. Init => RememberInv /\ InTimeInv
  <2> SUFFICES ASSUME Init PROVE RememberInv /\ InTimeInv
    OBVIOUS
  <2>1. /\ \A j \in JobId : job[j].pc = "free"
        /\ \A q \in Request : req[q].pc = "idle" /\ req[q].op = "none"
        /\ status = "none"
    BY DEF Init, NoJob, NoRequest
  <2>2. RememberInv
    BY <2>1 DEF RememberInv, MarkedSettled, StartsHoldAll, Remembers
  <2>3. InTimeInv
    BY <2>1 DEF InTimeInv, BegunFirst, InTimeInHand, Begun, NoneDead
  <2> QED
    BY <2>2, <2>3
<1>2. TypeOK /\ RunsSound /\ CompletionInv /\ RememberInv /\ [Next]_vars => RememberInv'
  BY MarkedSettledStep, StartsHoldAllStep, RememberStep DEF RememberInv, CompletionInv
<1>3. TypeOK /\ RunsSound /\ CompletionInv /\ KnownInv /\ RememberInv /\ InTimeInv /\ [Next]_vars
        => InTimeInv'
  BY BegunFirstStep, InTimeInHandStep, NoneDeadStep DEF RememberInv, CompletionInv, InTimeInv
<1>4. TypeOK /\ RememberInv /\ InTimeInv => NoRecipientForgotten
  <2> SUFFICES ASSUME TypeOK, RememberInv, InTimeInv, status = "processing", faults = 0,
                      \A q \in Request : req[q].pc # "enqueue", NEW r \in Pending \ late
               PROVE  (\E j \in Live : job[j].to = r) \/ (retried /\ Skipped(r))
    BY DEF NoRecipientForgotten
  <2>1. CASE ~retried
    BY <2>1 DEF RememberInv, Remembers
  <2>2. CASE retried
    <3>1. PICK j \in JobId : job[j].pc # "free" /\ job[j].to = r
      BY DEF InTimeInv, InTimeInHand, Begun, InHand
    <3>2. job[j].pc # "dead"
      BY <3>1 DEF InTimeInv, NoneDead, Pending
    <3>3. job[j].pc = "done" \/ j \in Live
      BY <3>1, <3>2 DEF TypeOK, JobType, JobPcs, Live
    <3> QED
      BY <2>2, <3>1, <3>3 DEF Skipped
  <2> QED
    BY <2>1, <2>2
<1> QED
  BY <1>1, <1>2, <1>3, <1>4, TypeInit, TypeStep, RunsInit, RunsStep, CompletionInit,
     CompletionStep, UnfilledInit, UnfilledStep, KnownInit, KnownStep, PTL DEF Spec

-----------------------------------------------------------------------------
(* Recipients reported failed although a message reached them.              *)

Clean == faults = 0 /\ events = 0

\* Without failing calls and reports, a job that is its recipient's only one has
\* sent nothing if the row says failed; until its try block has marked the row,
\* the row does not say so; and if it runs again after sending, or has thrown,
\* that is because the row is gone.
Blameless(run, state) ==
    /\ state = "failed" => run.copies = 0
    /\ run.pc \in {"waiting", "fetch", "send", "store"} \/ (run.pc = "mark" /\ run.path = "ok")
         => state # "failed"
    /\ run.copies > 0 /\ (\/ run.pc \in {"waiting", "fetch", "send"}
                          \/ run.pc = "mark" /\ run.path # "ok")
         => state = "gone"

NoReports == \A q \in Request : req[q].pc \notin {"find", "match", "event", "bump"}
MarkedByJobs ==
    \A r \in Recipient : row[r] \in Outcomes =>
        \E j \in JobId : job[j].pc # "free" /\ job[j].to = r
JobsBlameless ==
    \A j \in JobId : job[j].pc # "free" /\ ~EnqueuedTwice(job[j].to) =>
        Blameless(job[j], row[job[j].to])

CauseInv == Clean => NoReports /\ MarkedByJobs /\ JobsBlameless

LEMMA CauseInit == Init => CauseInv
  BY DEF Init, CauseInv, NoReports, MarkedByJobs, JobsBlameless, NoJob, NoRequest, Outcomes

LEMMA CleanStays ==
  ASSUME TypeOK, [Next]_vars, Clean'
  PROVE  Clean /\ faults' = faults /\ events' = events
<1>1. faults \in Nat /\ events \in Nat
  BY DEF TypeOK
<1> QED
  BY <1>1, Monotone DEF Clean

LEMMA TwiceStays ==
  ASSUME TypeOK, RunsSound, [Next]_vars, NEW r \in Recipient, EnqueuedTwice(r)
  PROVE  EnqueuedTwice(r)'
<1>1. PICK i, j \in JobId : i # j /\ job[i].to = r /\ job[j].to = r
  BY DEF EnqueuedTwice
<1>2. job[i].pc # "free" /\ job[j].pc # "free"
  BY <1>1, CampaignAssumption DEF RunsSound, RunSound
<1>3. job'[i].to = r /\ job'[j].to = r
  BY <1>1, <1>2, JobKept
<1> QED
  BY <1>1, <1>3 DEF EnqueuedTwice

LEMMA NoReportsStep ==
  ASSUME TypeOK, CauseInv, [Next]_vars, Clean'
  PROVE  NoReports'
<1>1. Clean /\ events' = events /\ NoReports /\ events \in Nat
  BY CleanStays DEF CauseInv, TypeOK
<1> SUFFICES ASSUME NEW q \in Request PROVE req'[q].pc \notin {"find", "match", "event", "bump"}
  BY DEF NoReports
<1>2. Proceeds(q)
  BY RequestProceeds
<1>3. req[q].pc \notin {"find", "match", "event", "bump"} /\ events' # events + 1
  BY <1>1 DEF NoReports
<1>4. \A op \in Ops : op # "status" => FirstStep(op) \notin {"find", "match", "event", "bump"}
  BY CampaignAssumption DEF FirstStep, AllOps
<1> QED
  BY <1>2, <1>3, <1>4 DEF Proceeds, NoRequest

LEMMA MarkedByJobsStep ==
  ASSUME TypeOK, CauseInv, [Next]_vars, Clean'
  PROVE  MarkedByJobs'
<1>1. NoReports /\ MarkedByJobs
  BY CleanStays DEF CauseInv
<1> SUFFICES ASSUME NEW r \in Recipient, row'[r] \in Outcomes
             PROVE  \E j \in JobId : job'[j].pc # "free" /\ job'[j].to = r
  BY DEF MarkedByJobs
<1>2. \E j \in JobId : job[j].pc # "free" /\ job[j].to = r
  <2>1. RowChanges(r)
    BY RowStep
  <2>2. \A q \in Request : req[q].pc # "event"
    BY <1>1 DEF NoReports
  <2>3. row[r] \in Outcomes \/ \E j \in JobId : job[j].pc = "mark" /\ job[j].to = r
    BY <2>1, <2>2 DEF RowChanges, Outcomes
  <2> QED
    BY <1>1, <2>3 DEF MarkedByJobs
<1> QED
  BY <1>2, JobKept

\* A job that is just enqueued for a recipient reported failed is its second.
LEMMA FirstJobBlameless ==
  ASSUME TypeOK, CauseInv, [Next]_vars, Clean', NEW r \in Recipient, NEW j \in JobId,
         job[j].pc = "free", job'[j] = FirstRun(r), ~EnqueuedTwice(r)'
  PROVE  Blameless(job'[j], row'[r])
<1>1. NoReports /\ MarkedByJobs
  BY CleanStays DEF CauseInv
<1>2. row'[r] # "failed"
  <2> SUFFICES ASSUME row'[r] = "failed" PROVE FALSE
    OBVIOUS
  <2>1. RowChanges(r) /\ \A q \in Request : req[q].pc # "event"
    BY <1>1, RowStep DEF NoReports
  <2>2. row[r] \in Outcomes \/ \E i \in JobId : job[i].pc = "mark" /\ job[i].to = r
    BY <2>1 DEF RowChanges, Outcomes
  <2>3. PICK i \in JobId : job[i].pc # "free" /\ job[i].to = r
    BY <1>1, <2>2 DEF MarkedByJobs
  <2>4. i # j /\ job'[i].to = r /\ job'[j].to = r
    BY <2>3, JobKept, FirstRunFields
  <2> QED
    BY <2>4 DEF EnqueuedTwice
<1> QED
  BY <1>2, FirstRunFields DEF Blameless

\* Without reports, only its one job marks a row.
LEMMA OwnRow ==
  ASSUME TypeOK, RunsSound, CauseInv, [Next]_vars, Clean',
         NEW r \in Recipient, NEW j \in JobId, job[j].to = r, row[r] # "none",
         job'[j].to = r, ~EnqueuedTwice(r)'
  PROVE  \/ row'[r] \in {row[r], "gone"}
         \/ row[r] = "failed" /\ row'[r] = "pending"
         \/ /\ job[j].pc = "mark" /\ job'[j] = [job[j] EXCEPT !.pc = "count"] /\ Present(r)
            /\ row'[r] = IF job[j].path = "ok" THEN "sent" ELSE "failed"
<1>1. RowChanges(r) /\ \A q \in Request : req[q].pc # "event"
  BY CleanStays, RowStep DEF NoReports, CauseInv
<1>2. ASSUME NEW i \in JobId, job[i].pc = "mark", job[i].to = r PROVE i = j
  <2>1. job'[i].to = r
    BY <1>2, JobKept
  <2> QED
    BY <2>1 DEF EnqueuedTwice
<1> QED
  BY <1>1, <1>2 DEF RowChanges

LEMMA OldJobBlameless ==
  ASSUME TypeOK, RunsSound, KnownInv, CauseInv, [Next]_vars, Clean',
         NEW r \in Recipient, NEW j \in JobId, job[j].pc # "free", job[j].to = r,
         ~EnqueuedTwice(r)'
  PROVE  Blameless(job'[j], row'[r])
<1>0. /\ job[j] \in JobType /\ job[j].copies \in Nat /\ row \in [Recipient -> RowStatuses]
      /\ row[r] # "none" /\ RunSound(job[j])
  BY DEF TypeOK, JobType, KnownInv, RunsSound
<1>1. NoReports /\ Blameless(job[j], row[r]) /\ faults' = faults
  BY CleanStays, TwiceStays DEF CauseInv, JobsBlameless
<1>2. \/ row'[r] \in {row[r], "gone"}
      \/ row[r] = "failed" /\ row'[r] = "pending"
      \/ /\ job[j].pc = "mark" /\ job'[j] = [job[j] EXCEPT !.pc = "count"] /\ Present(r)
         /\ row'[r] = IF job[j].path = "ok" THEN "sent" ELSE "failed"
  <2>1. job'[j].to = r
    BY JobKept
  <2> QED
    BY <1>0, <2>1, OwnRow
<1> USE DEF Blameless
<1>3. CASE job'[j] = job[j]
  <2>1. job[j].pc = "mark" => job'[j] # [job[j] EXCEPT !.pc = "count"]
    BY <1>0, <1>3 DEF JobType
  <2> QED
    BY <1>0, <1>1, <1>2, <1>3, <2>1
<1>4. CASE MovesOn(job[j], job'[j]) /\ job[j].pc # "mark"
  <2>1. /\ job'[j].copies = job[j].copies
        /\ job'[j].path = job[j].path \/ (job'[j].pc = "mark" /\ job'[j].path = "early")
        /\ job'[j].pc \notin {"waiting", "store"}
        /\ job'[j].pc \in {"fetch", "send"} => job[j].pc \in {"waiting", "fetch"}
        /\ job'[j].pc = "mark" => \/ job[j].pc = "store" /\ job'[j].path = "ok"
                                  \/ job[j].pc = "fetch" /\ job'[j].path = "early"
    BY <1>0, <1>4 DEF MovesOn, JobType, RunSound
  <2> QED
    BY <1>0, <1>1, <1>2, <1>4, <2>1
<1>5. CASE MovesOn(job[j], job'[j]) /\ job[j].pc = "mark"
  <2>1. job'[j].copies = job[j].copies /\ job'[j].pc = "count"
    BY <1>0, <1>5 DEF MovesOn, JobType
  <2>2. Mark(j)
    BY <1>5, <2>1, MarkedStep
  <2>3. Present(r) /\ row'[r] = IF job[j].path = "ok" THEN "sent" ELSE "failed"
    BY <1>0, <2>2 DEF Mark
  <2> QED
    BY <1>0, <1>1, <1>5, <2>1, <2>3 DEF Present
<1>6. CASE /\ job[j].pc = "send" /\ job'[j].pc = "store" /\ job'[j].path = job[j].path
  BY <1>0, <1>1, <1>2, <1>6
<1>7. CASE job[j].pc = "send" /\ job'[j] = Thrown(job[j])
  <2>1. job'[j].pc = "mark" /\ job'[j].path = "catch" /\ job'[j].copies = job[j].copies
    BY <1>0, <1>7, ThrownFields DEF RunSound
  <2> QED
    BY <1>0, <1>1, <1>2, <1>7, <2>1
<1>8. CASE /\ job'[j] = Thrown(job[j])
           /\ \/ job[j].pc = "mark" /\ ~Present(job[j].to)
              \/ job[j].pc \in {"count", "complete"} /\ ~Exists
  <2>1. row[r] = "gone"
    BY <1>0, <1>8 DEF KnownInv, Present
  <2>2. row'[r] = "gone"
    BY <2>1, RowKept
  <2> QED
    BY <2>2
<1> HIDE DEF Blameless
<1> QED
  BY <1>1, <1>3, <1>4, <1>5, <1>6, <1>7, <1>8, FaultlessStep

LEMMA CauseStep ==
  ASSUME TypeOK, RunsSound, KnownInv, CauseInv, [Next]_vars
  PROVE  CauseInv'
<1> SUFFICES ASSUME Clean' PROVE NoReports' /\ MarkedByJobs' /\ JobsBlameless'
  BY DEF CauseInv
<1>1. ASSUME NEW j \in JobId, job'[j].pc # "free", NEW r, r = job'[j].to, ~EnqueuedTwice(r)'
      PROVE  Blameless(job'[j], row'[r])
  <2>1. CASE job[j].pc # "free"
    <3>1. job[j].to = r
      BY <1>1, <2>1, JobKept
    <3>2. r \in Recipient
      BY <2>1, <3>1 DEF RunsSound, RunSound
    <3> QED
      BY <1>1, <2>1, <3>1, <3>2, OldJobBlameless
  <2>2. CASE job[j].pc = "free"
    <3>1. PICK s \in Recipient : job'[j] = FirstRun(s)
      BY <1>1, <2>2, EnqueuedStep
    <3>2. r = s
      BY <1>1, <3>1, FirstRunFields
    <3> QED
      BY <1>1, <2>2, <3>1, <3>2, FirstJobBlameless
  <2> QED
    BY <2>1, <2>2
<1>2. JobsBlameless'
  BY <1>1 DEF JobsBlameless, EnqueuedTwice
<1> QED
  BY <1>2, NoReportsStep, MarkedByJobsStep

\* However requests and jobs interleave, a recipient who got a message is
\* reported failed only after a failing call, a report of WhatsApp, or a second job.
THEOREM CauseCorrect == Spec => []FailedButSentHasCause
<1>1. TypeOK /\ RunsSound /\ CauseInv => FailedButSentHasCause
  <2> SUFFICES ASSUME TypeOK, RunsSound, CauseInv, NEW r \in Recipient, NEW j \in JobId,
                      row[r] = "failed", job[j].to = r, job[j].copies > 0,
                      ~(faults > 0), ~(events > 0), ~EnqueuedTwice(r)
               PROVE  FALSE
    BY DEF FailedButSentHasCause
  <2>1. Clean
    BY DEF Clean, TypeOK
  <2>2. job[j].pc # "free" /\ job[j].copies \in Nat
    BY CampaignAssumption DEF RunsSound, RunSound, TypeOK, JobType
  <2>3. Blameless(job[j], row[r])
    BY <2>1, <2>2 DEF CauseInv, JobsBlameless
  <2> QED
    BY <2>2, <2>3 DEF Blameless
<1>2. TypeOK /\ RunsSound /\ Unfilled /\ KnownInv /\ [Next]_vars => KnownInv'
  BY KnownStep
<1>3. TypeOK /\ RunsSound /\ KnownInv /\ CauseInv /\ [Next]_vars => CauseInv'
  BY CauseStep
<1>4. TypeOK /\ Unfilled /\ [Next]_vars => Unfilled'
  BY UnfilledStep
<1> QED
  BY <1>1, <1>2, <1>3, <1>4, TypeInit, TypeStep, RunsInit, RunsStep, UnfilledInit,
     KnownInit, CauseInit, PTL DEF Spec

-----------------------------------------------------------------------------
(* Counters and rows.                                                       *)

\* While nothing disturbs it, a row stays pending until its job marks it.
PendingUntilMarked ==
    Undisturbed =>
        \A j \in JobId : job[j].pc \in {"waiting", "fetch", "send", "store", "mark"} =>
            row[job[j].to] = "pending"

RowsOf(outcome) == {r \in Recipient : row[r] = outcome}
Balanced(outcome) ==
    Cardinality(RowsOf(outcome)) = counts[outcome] + Cardinality(Uncounted(outcome))

LEMMA UndisturbedStays ==
  ASSUME TypeOK, RunsSound, [Next]_vars, Undisturbed'
  PROVE  /\ Undisturbed /\ Clean' /\ late' = {}
         /\ \A r \in Recipient : row'[r] # "gone" /\ ~EnqueuedTwice(r)'
<1>1. Clean' /\ late' = {} /\ \A r \in Recipient : row'[r] # "gone" /\ ~EnqueuedTwice(r)'
  BY DEF Undisturbed, Clean, EnqueuedTwice
<1>2. Clean
  BY <1>1, CleanStays
<1>3. ASSUME NEW r \in Recipient
      PROVE  late \subseteq late' /\ row[r] # "gone" /\ ~EnqueuedTwice(r)
  BY <1>1, RowStep, RowKept, TwiceStays
<1>4. late = {}
  BY <1>1, <1>3 DEF TypeOK
<1> QED
  BY <1>1, <1>2, <1>3, <1>4 DEF Undisturbed, Clean

\* What a job does then.
LEMMA UndisturbedJob ==
  ASSUME TypeOK, RunsSound, KnownInv, [Next]_vars, Undisturbed',
         NEW j \in JobId, job[j].pc # "free"
  PROVE  \/ job'[j] = job[j]
         \/ MovesOn(job[j], job'[j])
         \/ job[j].pc = "send" /\ job'[j].pc \in {"store", "mark"}
<1>1. Clean /\ faults' = faults /\ Undisturbed
  BY UndisturbedStays, CleanStays
<1>2. job[j] \in JobType /\ RunSound(job[j]) /\ job[j].to \in Recipient
  BY DEF TypeOK, RunsSound, RunSound
<1>3. Present(job[j].to) /\ Exists
  BY <1>1, <1>2 DEF KnownInv, Undisturbed, Present
<1>4. job[j].pc = "send" /\ job'[j] = Thrown(job[j]) => job'[j].pc = "mark"
  BY <1>2, ThrownFields DEF RunSound
<1> QED
  BY <1>1, <1>3, <1>4, FaultlessStep

LEMMA PendingUntilMarkedStep ==
  ASSUME TypeOK, RunsSound, KnownInv, CauseInv, PendingUntilMarked, [Next]_vars
  PROVE  PendingUntilMarked'
<1> SUFFICES ASSUME Undisturbed', NEW j \in JobId, NEW r, job'[j].to = r,
                    job'[j].pc \in {"waiting", "fetch", "send", "store", "mark"}
             PROVE  row'[r] = "pending"
  BY DEF PendingUntilMarked
<1>1. /\ Undisturbed /\ Clean' /\ Clean /\ NoReports /\ MarkedByJobs
      /\ \A s \in Recipient : row'[s] # "gone" /\ ~EnqueuedTwice(s)'
  BY UndisturbedStays, CleanStays DEF CauseInv
<1>2. CASE job[j].pc = "free"
  <2>2. PICK q \in Request, s \in Recipient : s \in req[q].who /\ job'[j] = FirstRun(s)
    BY <1>2, EnqueuedStep
  <2>3. r = s /\ r \in Recipient /\ row[r] # "none" /\ row[r] # "gone"
    BY <1>1, <2>2, FirstRunFields DEF KnownInv, Undisturbed
  <2>4. ASSUME NEW i \in JobId, job[i].pc # "free", job[i].to = r PROVE FALSE
    <3>1. i # j /\ job'[i].to = r
      BY <1>2, <2>4, JobKept
    <3> QED
      BY <1>1, <2>3, <3>1 DEF EnqueuedTwice
  <2>5. row[r] = "pending"
    <3>1. row[r] \notin Outcomes
      BY <1>1, <2>3, <2>4 DEF MarkedByJobs
    <3> QED
      BY <2>3, <3>1 DEF TypeOK, RowStatuses
  <2>6. RowChanges(r) /\ \A p \in Request : req[p].pc # "event"
    BY <1>1, <2>3, RowStep DEF NoReports
  <2> QED
    BY <1>1, <2>3, <2>4, <2>5, <2>6 DEF RowChanges
<1>3. CASE job[j].pc # "free"
  <2>1. job[j] \in JobType /\ job[j].to = r /\ r \in Recipient
    <3>1. job[j].to = r
      BY <1>3, JobKept
    <3> QED
      BY <1>3, <3>1 DEF TypeOK, RunsSound, RunSound
  <2>2. /\ job[j].pc \in {"waiting", "fetch", "send", "store", "mark"}
        /\ ~(job[j].pc = "mark" /\ job'[j] = [job[j] EXCEPT !.pc = "count"])
    <3>1. job[j].pc = "mark" => job'[j] # [job[j] EXCEPT !.pc = "count"]
      BY <2>1 DEF JobType
    <3>2. MovesOn(job[j], job'[j]) => job[j].pc \in {"waiting", "fetch", "store"}
      BY <2>1 DEF MovesOn, JobType
    <3> QED
      BY <1>3, <3>1, <3>2, UndisturbedJob
  <2>3. row[r] = "pending"
    BY <1>1, <2>1, <2>2 DEF PendingUntilMarked
  <2> QED
    BY <1>1, <2>1, <2>2, <2>3, OwnRow
<1> QED
  BY <1>2, <1>3

\* What changes the counters.
LEMMA CountsStep ==
  ASSUME TypeOK, [Next]_vars
  PROVE  \/ counts' = counts
         \/ \E j \in JobId : Count(j)
         \/ \E q \in Request : req[q].pc = "bump"
<1>1. ASSUME NEW q \in Request, Handler(q) \/ RequestFails(q), ~CountEvent(q)
      PROVE  counts' = counts
  BY <1>1 DEF Handler, RequestFails, ListPending, ListFailed, ResetFailed, WriteStatus,
              Enqueue, InsertRows, UnlinkRow, Tally, StoreTotal, ClearRows, DropCampaign,
              FindMessage, FindRow, ApplyEvent, db
<1>2. ASSUME NEW q \in Request, CountEvent(q) PROVE req[q].pc = "bump"
  BY <1>2 DEF CountEvent
<1>3. ASSUME NEW j \in JobId, RunJob(j) \/ SendLost(j) \/ CallFails(j), ~Count(j)
      PROVE  counts' = counts
  BY <1>3 DEF RunJob, Deliver, Fetch, Send, SendRefused, SendLost, Store, Mark,
              Check, Recheck, Complete, RecordMissing, CallFails, db
<1>4. Create \/ Crash \/ (\E q \in Request, op \in Ops : Receive(q, op)) \/ UNCHANGED vars
        => counts' = counts
  BY DEF Create, Crash, Receive, vars, db
<1> QED
  BY <1>1, <1>2, <1>3, <1>4 DEF Next

\* The sets that CountersMatchRows counts are finite.
LEMMA Countable ==
  ASSUME TypeOK, SlotsBound, NEW o \in {"sent", "failed"}
  PROVE  /\ IsFiniteSet(RowsOf(o)) /\ Cardinality(RowsOf(o)) \in Nat
         /\ IsFiniteSet(Uncounted(o)) /\ Cardinality(Uncounted(o)) \in Nat
         /\ counts \in [Outcomes -> Nat] /\ counts[o] \in Nat /\ o \in Outcomes
<1>1. RowsOf(o) \subseteq Recipient /\ Uncounted(o) \subseteq Running
  BY DEF RowsOf, Uncounted
<1>2. IsFiniteSet(Recipient) /\ IsFiniteSet(Running)
  BY CampaignAssumption DEF SlotsBound
<1>3. IsFiniteSet(RowsOf(o)) /\ IsFiniteSet(Uncounted(o))
  BY <1>1, <1>2, FS_Subset
<1> QED
  BY <1>3, FS_CardinalityType DEF TypeOK, Outcomes

\* The outcome that a run marks and counts.
Outcome(run) == IF run.path = "ok" THEN "sent" ELSE "failed"

LEMMA BalancedStep ==
  ASSUME TypeOK, RunsSound, SlotsBound, KnownInv, CauseInv, PendingUntilMarked, [Next]_vars,
         Undisturbed', NEW o \in {"sent", "failed"}, Balanced(o)
  PROVE  Balanced(o)'
<1>1. /\ Undisturbed /\ Clean /\ NoReports
      /\ late' = {} /\ \A r \in Recipient : row'[r] # "gone"
  BY UndisturbedStays, CleanStays DEF CauseInv
<1>0. /\ job \in [JobId -> JobType] /\ row \in [Recipient -> RowStatuses]
      /\ \A j \in JobId : job[j].pc # "free" => job[j].to \in Recipient
  BY DEF TypeOK, RunsSound, RunSound
<1>2. CASE \E j \in JobId : Mark(j)
  <2>1. PICK j \in JobId : Mark(j)
    BY <1>2
  <2> DEFINE r == job[j].to
             x == Outcome(job[j])
  <2>2. /\ job[j].pc = "mark" /\ r \in Recipient /\ row[r] = "pending"
        /\ row' = [row EXCEPT ![r] = x] /\ counts' = counts
    BY <1>0, <1>1, <2>1 DEF Mark, PendingUntilMarked, Outcome
  <2>3. job'[j].pc = "count" /\ job'[j].path = job[j].path
    BY <1>0, <2>1 DEF Mark, To, JobType
  <2>4. \A i \in JobId \ {j} : job'[i] = job[i]
    BY <2>1, RunFrame DEF RunJob
  <2>5. CASE x = o
    <3>1. RowsOf(o)' = RowsOf(o) \union {r} /\ r \notin RowsOf(o)
      BY <1>0, <2>2, <2>5 DEF RowsOf
    <3>2. Uncounted(o)' = Uncounted(o) \union {j} /\ j \notin Uncounted(o)
      BY <2>2, <2>3, <2>4, <2>5 DEF Uncounted, Running, RunningPcs, Outcome
    <3> HIDE DEF r, x
    <3>3. /\ Cardinality(RowsOf(o)') = Cardinality(RowsOf(o)) + 1
          /\ Cardinality(Uncounted(o)') = Cardinality(Uncounted(o)) + 1
      BY <3>1, <3>2, Countable, FS_AddElement
    <3>4. counts'[o] = counts[o]
      BY <2>2
    <3> QED
      BY <3>3, <3>4, Countable DEF Balanced
  <2>6. CASE x # o
    <3>1. RowsOf(o)' = RowsOf(o)
      BY <1>0, <2>2, <2>6 DEF RowsOf
    <3>2. Uncounted(o)' = Uncounted(o)
      BY <2>2, <2>3, <2>4, <2>6 DEF Uncounted, Running, RunningPcs, Outcome
    <3> QED
      BY <2>2, <3>1, <3>2 DEF Balanced
  <2> QED
    BY <2>5, <2>6
<1>3. CASE \E j \in JobId : Count(j)
  <2>1. PICK j \in JobId : Count(j)
    BY <1>3
  <2> DEFINE x == Outcome(job[j])
  <2>2. /\ job[j].pc = "count" /\ row' = row
        /\ counts' = [counts EXCEPT ![x] = @ + 1]
    BY <2>1 DEF Count, Outcome
  <2>3. job'[j].pc # "count"
    BY <1>0, <2>1 DEF Count, To, JobType
  <2>4. \A i \in JobId \ {j} : job'[i] = job[i]
    BY <2>1, RunFrame DEF RunJob
  <2>5. RowsOf(o)' = RowsOf(o)
    BY <2>2 DEF RowsOf
  <2>6. CASE x = o
    <3>1. Uncounted(o)' = Uncounted(o) \ {j} /\ j \in Uncounted(o)
      BY <2>2, <2>3, <2>4, <2>6 DEF Uncounted, Running, RunningPcs, Outcome
    <3>2. counts'[o] = counts[o] + 1
      BY <2>2, <2>6, Countable
    <3> HIDE DEF x
    <3>3. Cardinality(Uncounted(o)') = Cardinality(Uncounted(o)) - 1
      BY <3>1, Countable, FS_RemoveElement
    <3> QED
      BY <2>5, <3>2, <3>3, Countable DEF Balanced
  <2>7. CASE x # o
    <3>1. Uncounted(o)' = Uncounted(o)
      BY <2>2, <2>3, <2>4, <2>7 DEF Uncounted, Running, RunningPcs, Outcome
    <3>2. counts'[o] = counts[o]
      BY <2>2, <2>7, Countable
    <3> QED
      BY <2>5, <3>1, <3>2 DEF Balanced
  <2> QED
    BY <2>6, <2>7
<1>4. CASE ~(\E j \in JobId : Mark(j) \/ Count(j))
  <2>1. counts' = counts
    BY <1>1, <1>4, CountsStep DEF NoReports
  <2>2. ASSUME NEW r \in Recipient PROVE row'[r] = o <=> row[r] = o
    <3>1. RowChanges(r) /\ \A q \in Request : req[q].pc # "event"
      BY <1>1, RowStep DEF NoReports
    <3>2. ASSUME NEW j \in JobId, job[j].pc = "mark", job'[j] = [job[j] EXCEPT !.pc = "count"]
          PROVE  FALSE
      <4>1. job'[j].pc = "count"
        BY <1>0, <3>2 DEF JobType
      <4> QED
        BY <1>4, <3>2, <4>1, MarkedStep
    <3> QED
      BY <1>1, <3>1, <3>2 DEF RowChanges
  <2>3. ASSUME NEW j \in JobId
        PROVE  /\ job'[j].pc = "count" <=> job[j].pc = "count"
               /\ job[j].pc = "count" => job'[j] = job[j]
    <3>1. CASE job[j].pc = "free"
      BY <3>1, EnqueuedStep, FirstRunFields
    <3>2. CASE job[j].pc = "count"
      <4> SUFFICES ASSUME job'[j] # job[j] PROVE FALSE
        BY <3>2
      <4>1. faults' = faults /\ faults' # faults + 1
        BY CleanStays, UndisturbedStays DEF TypeOK
      <4>2. ~Crash /\ ~CallFails(j) /\ ~SendLost(j)
        BY <4>1, Zenon DEF Crash, CallFails, SendLost
      <4>3. RunJob(j)
        BY <3>2, <4>2, OwnStep
      <4>4. ~Exists
        BY <1>4, <3>2, <4>3 DEF RunJob, Deliver, Fetch, Send, SendRefused, Store, Mark,
             Check, Recheck, Complete, RecordMissing
      <4> QED
        BY <1>0, <1>1, <3>2, <4>4 DEF KnownInv, Undisturbed, Present
    <3>3. CASE job[j].pc \notin {"free", "count"}
      <4>1. ASSUME MovesOn(job[j], job'[j]) PROVE job'[j].pc # "count"
        <5>1. CASE job[j].pc = "mark"
          BY <1>4, <5>1, MarkedStep
        <5>2. CASE job[j].pc # "mark"
          BY <1>0, <3>3, <4>1, <5>2 DEF MovesOn, JobType
        <5> QED
          BY <5>1, <5>2
      <4> QED
        BY <3>3, <4>1, UndisturbedJob
    <3> QED
      BY <3>1, <3>2, <3>3
  <2>4. RowsOf(o)' = RowsOf(o)
    BY <2>2 DEF RowsOf
  <2>5. Uncounted(o)' = Uncounted(o)
    BY <2>3 DEF Uncounted, Running, RunningPcs
  <2> QED
    BY <2>1, <2>4, <2>5 DEF Balanced
<1> QED
  BY <1>2, <1>3, <1>4

CountInv == PendingUntilMarked /\ CountersMatchRows

LEMMA CountInit == Init => CountInv
<1> SUFFICES ASSUME Init PROVE CountInv
  OBVIOUS
<1>1. PendingUntilMarked
  BY DEF Init, PendingUntilMarked, NoJob
<1>2. ASSUME NEW o \in {"sent", "failed"} PROVE Balanced(o)
  <2>1. RowsOf(o) = {} /\ Uncounted(o) = {} /\ counts[o] = 0
    BY DEF Init, RowsOf, Uncounted, Running, RunningPcs, NoJob, Outcomes
  <2> QED
    BY <2>1, FS_EmptySet DEF Balanced
<1> QED
  BY <1>1, <1>2 DEF CountInv, CountersMatchRows, Balanced, RowsOf

LEMMA CountStep ==
  ASSUME TypeOK, RunsSound, SlotsBound, KnownInv, CauseInv, CountInv, [Next]_vars
  PROVE  CountInv'
<1>1. PendingUntilMarked'
  BY PendingUntilMarkedStep DEF CountInv
<1>2. ASSUME Undisturbed', NEW o \in {"sent", "failed"} PROVE Balanced(o)'
  <2>1. Undisturbed
    BY <1>2, UndisturbedStays
  <2>2. Balanced(o)
    BY <2>1 DEF CountInv, CountersMatchRows, Balanced, RowsOf
  <2> QED
    BY <1>2, <2>2, BalancedStep DEF CountInv
<1> QED
  BY <1>1, <1>2 DEF CountInv, CountersMatchRows, Balanced, RowsOf

\* Undisturbed, the counters of a campaign and its rows differ by the runs between
\* the two writes alone, for any number of recipients and workers' slots.
THEOREM CountersCorrect == Spec => []CountersMatchRows
<1>1. CountInv => CountersMatchRows
  BY DEF CountInv
<1>2. /\ TypeOK /\ RunsSound /\ Unfilled /\ KnownInv /\ [Next]_vars => KnownInv'
      /\ TypeOK /\ RunsSound /\ KnownInv /\ CauseInv /\ [Next]_vars => CauseInv'
      /\ TypeOK /\ Unfilled /\ [Next]_vars => Unfilled'
      /\ TypeOK /\ SlotsBound /\ [Next]_vars => SlotsBound'
  BY KnownStep, CauseStep, UnfilledStep, SlotsStep
<1>3. TypeOK /\ RunsSound /\ SlotsBound /\ KnownInv /\ CauseInv /\ CountInv /\ [Next]_vars
        => CountInv'
  BY CountStep
<1> QED
  BY <1>1, <1>2, <1>3, TypeInit, TypeStep, RunsInit, RunsStep, UnfilledInit, SlotsInit,
     KnownInit, CauseInit, CountInit, PTL DEF Spec
=============================================================================
