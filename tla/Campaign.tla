------------------------------ MODULE Campaign ------------------------------
(***************************************************************************)
(* One bulk campaign: its row, its recipient rows, the BullMQ queue         *)
(* 'recipient-jobs', the HTTP handlers of apps/web/app/api/campaigns, the   *)
(* WhatsApp status callback, and RecipientWorker of apps/worker.            *)
(*                                                                         *)
(* Every `await` of the code is a point where the others may run, so each  *)
(* handler and each job is a process that takes one database, Redis or     *)
(* WhatsApp call per step.  A handler reads the campaign's status, decides,*)
(* and later writes without looking again.                                 *)
(***************************************************************************)
EXTENDS Naturals, FiniteSets

CONSTANTS
    Recipient,    \* rows that may be added to the campaign
    JobId,        \* jobs that may be enqueued: bounds the number of jobs
    Request,      \* HTTP requests served at the same time
    Ops,          \* kinds of request the environment sends
    Concurrency,  \* jobs a RecipientWorker runs at the same time
    Attempts,     \* BullMQ attempts of a job
    MaxFaults,    \* bound on failing calls and on crashes
    MaxEvents     \* bound on WhatsApp status callbacks

AllOps == {"start", "pause", "cancel", "retry", "add", "remove", "delete",
           "status"}

ASSUME CampaignAssumption ==
    /\ IsFiniteSet(Recipient) /\ "nobody" \notin Recipient
    /\ Ops \subseteq AllOps
    /\ Concurrency \in Nat \ {0}
    /\ Attempts \in Nat \ {0}
    /\ MaxFaults \in Nat
    /\ MaxEvents \in Nat

VARIABLES
    status,   \* BulkMessageCampaign.status; "none" before it is created
    total,    \* BulkMessageCampaign.totalRecipients
    counts,   \* sentCount, deliveredCount, readCount and failedCount
    row,      \* BulkMessageRecipient.status; "none" before, "gone" after
    hasWamid, \* the row stores a whatsappMessageId
    job,      \* the jobs of the queue, each with the progress of its run
    req,      \* the requests being served
    faults,   \* failing calls and crashes so far
    events,   \* status callbacks so far
    late,     \* history: rows that became pending after a start had read
              \* the rows it enqueues
    retried,  \* history: a retry has set the campaign to 'processing'
    overrun,  \* history: messages sent since the campaign left 'processing'
    unchecked, \* history: pending rows were settled or removed by what checks for
              \* no completion, and no run has checked since
    unqueued  \* history: the addBulk tried last has failed

db == <<status, total, counts, row, hasWamid>>
history == <<late, retried, overrun, unchecked, unqueued>>
vars == <<status, total, counts, row, hasWamid, job, req, faults, events, late,
          retried, overrun, unchecked, unqueued>>

-----------------------------------------------------------------------------
(* Records.                                                                *)

Statuses == {"none", "draft", "scheduled", "processing", "paused",
             "completed", "cancelled", "deleted"}
Outcomes == {"sent", "delivered", "read", "failed"}
RowStatuses == {"none", "pending", "gone"} \union Outcomes

\* A job waits in Redis ("waiting"), runs ("fetch" ... "complete") or is over.
RunningPcs == {"fetch", "send", "store", "mark", "count",
               "check", "recheck", "complete"}
JobPcs == {"free", "waiting", "done", "dead"} \union RunningPcs
\* "ok": the try block up to a successful send; "early": one of its early
\* returns; "catch": the catch block.
Paths == {"ok", "early", "catch"}

JobType == [pc: JobPcs, to: Recipient \union {"nobody"}, path: Paths, tries: Nat,
            stalls: Nat, copies: Nat]
ReqPcs == {"idle", "list", "reset", "write", "enqueue", "insert", "unlink",
           "tally", "total", "clear", "drop", "find", "match", "event", "bump"}
ReqType == [op: AllOps \union {"none"}, pc: ReqPcs, who: SUBSET Recipient, n: Nat,
            event: Outcomes]

Exists == status \notin {"none", "deleted"}
Present(r) == row[r] \notin {"none", "gone"}
Pending == {r \in Recipient : row[r] = "pending"}
LeftUnchecked == unchecked' = (unchecked \/ Pending' # Pending)
Running == {j \in JobId : job[j].pc \in RunningPcs}
FreeJobs == {j \in JobId : job[j].pc = "free"}
Live == {j \in JobId : job[j].pc = "waiting" \/ job[j].pc \in RunningPcs}

\* WhatsApp has accepted a message of a job of recipient r.
Accepted(r) == \E j \in JobId : job[j].to = r /\ job[j].copies > 0

NoJob == [pc |-> "free", to |-> "nobody", path |-> "ok", tries |-> 0,
          stalls |-> 0, copies |-> 0]
NoRequest == [op |-> "none", pc |-> "idle", who |-> {}, n |-> 0,
              event |-> "sent"]

Init ==
    /\ status = "none"
    /\ total = 0
    /\ counts = [c \in Outcomes |-> 0]
    /\ row = [r \in Recipient |-> "none"]
    /\ hasWamid = [r \in Recipient |-> FALSE]
    /\ job = [j \in JobId |-> NoJob]
    /\ req = [q \in Request |-> NoRequest]
    /\ faults = 0
    /\ events = 0
    /\ late = {}
    /\ retried = FALSE
    /\ overrun = 0
    /\ unchecked = FALSE
    /\ unqueued = FALSE

-----------------------------------------------------------------------------
(* The handlers of apps/web/app/api/campaigns.                             *)

\* POST /campaigns, after the template and the account were found.
Create ==
    /\ status = "none"
    /\ status' \in {"draft", "scheduled"}
    /\ UNCHANGED <<total, counts, row, hasWamid, job, req, faults, events, history>>

\* The statuses in which each handler goes on after its first read.
Startable == {"draft", "scheduled", "paused"}
Pausable == {"processing", "queued"}
Cancellable == Statuses \ {"none", "deleted", "completed", "cancelled"}
Retryable == {"completed", "paused", "failed"}
\* Mutant of Editable: recipients may also be added once scheduled.
EditableScheduled == {"draft", "scheduled"}
Editable == {"draft"}
Deletable == Statuses \ {"none", "deleted", "processing", "queued"}

Guard(op) ==
    CASE op = "start"             -> Startable
      [] op = "pause"             -> Pausable
      [] op = "cancel"            -> Cancellable
      [] op = "retry"             -> Retryable
      [] op \in {"add", "remove"} -> Editable
      [] op = "delete"            -> Deletable
      [] op = "status"            -> Statuses

\* What a handler does after the guard.
FirstStep(op) ==
    CASE op \in {"start", "retry"}  -> "list"
      [] op \in {"pause", "cancel"} -> "write"
      [] op = "add"                 -> "insert"
      [] op = "remove"              -> "unlink"
      [] op = "delete"              -> "clear"
      [] op = "status"              -> "find"

\* Bound on requests: the jobs left are enough for every request that enqueues.
Enqueuing == {q \in Request : req[q].op \in {"start", "retry"}}
RoomForJobs ==
    Cardinality(FreeJobs) >= (Cardinality(Enqueuing) + 1) * Cardinality(Recipient)

\* The first read of a handler; a request it refuses changes nothing.
Receive(q, op) ==
    /\ req[q].pc = "idle"
    /\ status \in Guard(op)
    /\ op = "status" => events < MaxEvents
    /\ op \in {"start", "retry"} => RoomForJobs
    /\ req' = [req EXCEPT ![q] = [NoRequest EXCEPT !.op = op, !.pc = FirstStep(op)]]
    /\ events' = IF op = "status" THEN events + 1 ELSE events
    /\ UNCHANGED <<db, job, faults, history>>

GoOn(q, pc) == req' = [req EXCEPT ![q].pc = pc]
Respond(q) == req' = [req EXCEPT ![q] = NoRequest]

\* Mutant of ListPending: only a page of the pending rows is read.
ListPendingPage(q) ==
    /\ req[q].op = "start" /\ req[q].pc = "list"
    /\ \E r \in Pending : req' = [req EXCEPT ![q].pc = "write", ![q].who = {r}]
    /\ UNCHANGED <<db, job, faults, events, history>>

\* start, send: the pending rows, and the template that must still exist.
ListPending(q) ==
    /\ req[q].op = "start" /\ req[q].pc = "list"
    /\ \/ /\ Pending # {}
          /\ req' = [req EXCEPT ![q].pc = "write", ![q].who = Pending]
       \/ Respond(q)    \* no pending recipient, or the template is gone
    /\ UNCHANGED <<db, job, faults, events, history>>

\* retry: the failed rows.
ListFailed(q) ==
    /\ req[q].op = "retry" /\ req[q].pc = "list"
    /\ LET failed == {r \in Recipient : row[r] = "failed"} IN
         IF failed = {} THEN Respond(q)
         ELSE req' = [req EXCEPT ![q].pc = "reset", ![q].who = failed]
    /\ UNCHANGED <<db, job, faults, events, history>>

\* retry: updateMany, of the rows that are failed by now.
ResetFailed(q) ==
    /\ req[q].pc = "reset"
    /\ row' = [r \in Recipient |-> IF row[r] = "failed" THEN "pending" ELSE row[r]]
    /\ late' = late \union {r \in Recipient : row[r] = "failed"}
    /\ GoOn(q, "write")
    /\ UNCHANGED <<status, total, counts, hasWamid, job, faults, events, retried, overrun,
                   unchecked, unqueued>>

\* The status a handler writes, whatever the status is by then.
NewStatus(op) ==
    CASE op \in {"start", "retry"} -> "processing"
      [] op = "pause"              -> "paused"
      [] OTHER                     -> "cancelled"

WriteStatus(q) ==
    /\ req[q].pc = "write"
    /\ IF Exists
       THEN /\ status' = NewStatus(req[q].op)
            /\ IF req[q].op \in {"start", "retry"} THEN GoOn(q, "enqueue")
                                                  ELSE Respond(q)
            /\ retried' = (retried \/ req[q].op = "retry")
            /\ overrun' = IF status' = "processing" THEN 0 ELSE overrun
       ELSE Respond(q) /\ UNCHANGED <<status, retried, overrun>>
    /\ UNCHANGED <<total, counts, row, hasWamid, job, faults, events, late, unchecked,
                   unqueued>>

\* enqueueRecipientJobs: one addBulk, without a jobId, of the rows read before.
Enqueue(q) ==
    /\ req[q].pc = "enqueue"
    /\ \E id \in [req[q].who -> FreeJobs] :
         /\ \A r, s \in req[q].who : id[r] = id[s] => r = s
         /\ job' = [j \in JobId |->
                      IF \E r \in req[q].who : id[r] = j
                      THEN [NoJob EXCEPT !.pc = "waiting",
                                         !.to = CHOOSE r \in req[q].who : id[r] = j]
                      ELSE job[j]]
    /\ Respond(q)
    /\ unqueued' = FALSE
    /\ UNCHANGED <<db, faults, events, late, retried, overrun, unchecked>>

Listed == \E q \in Request : req[q].op = "start" /\ req[q].pc = "write"

\* POST /recipients: createMany of a validated, non-empty list.
InsertRows(q) ==
    /\ req[q].pc = "insert"
    /\ IF Exists
       THEN \E new \in SUBSET {r \in Recipient : row[r] = "none"} :
              /\ new # {}
              /\ row' = [r \in Recipient |-> IF r \in new THEN "pending" ELSE row[r]]
              /\ late' = IF status = "draft" /\ ~Listed THEN late
                         ELSE late \union new
              /\ GoOn(q, "tally")
       ELSE Respond(q) /\ UNCHANGED <<row, late>>
    /\ UNCHANGED <<status, total, counts, hasWamid, job, faults, events, retried, overrun,
                   unchecked, unqueued>>

\* DELETE /recipients/:id
UnlinkRow(q) ==
    /\ req[q].pc = "unlink"
    /\ \/ \E r \in Recipient :
            /\ Present(r)
            /\ row' = [row EXCEPT ![r] = "gone"]
            /\ GoOn(q, "tally")
       \/ Respond(q) /\ UNCHANGED row
    /\ LeftUnchecked
    /\ UNCHANGED <<status, total, counts, hasWamid, job, faults, events, late, retried,
                   overrun, unqueued>>

\* Both recipient handlers then count the rows and store the number.
Tally(q) ==
    /\ req[q].pc = "tally"
    /\ req' = [req EXCEPT ![q].pc = "total",
                          ![q].n = Cardinality({r \in Recipient : Present(r)})]
    /\ UNCHANGED <<db, job, faults, events, history>>

StoreTotal(q) ==
    /\ req[q].pc = "total"
    /\ total' = IF Exists THEN req[q].n ELSE total
    /\ Respond(q)
    /\ UNCHANGED <<status, counts, row, hasWamid, job, faults, events, history>>

AllGone == [r \in Recipient |-> IF Present(r) THEN "gone" ELSE row[r]]

\* DELETE /campaigns/:id: the rows, then the campaign, which cascades.
ClearRows(q) ==
    /\ req[q].pc = "clear"
    /\ row' = AllGone
    /\ GoOn(q, "drop")
    /\ LeftUnchecked
    /\ UNCHANGED <<status, total, counts, hasWamid, job, faults, events, late, retried,
                   overrun, unqueued>>

DropCampaign(q) ==
    /\ req[q].pc = "drop"
    /\ status' = IF Exists THEN "deleted" ELSE status
    /\ row' = IF Exists THEN AllGone ELSE row
    /\ Respond(q)
    /\ UNCHANGED <<total, counts, hasWamid, job, faults, events, history>>

-----------------------------------------------------------------------------
(* POST /webhooks/whatsapp: handleStatusUpdate, for one status.            *)

\* A status names a message that WhatsApp accepted.  Its Message row is looked
\* for and updated first, and the columns of 'sent', 'delivered' and 'read' that
\* the update sets do not exist: of a message that a run has stored by now, only a
\* 'failed' gets any further.
FindMessage(q) ==
    /\ req[q].pc = "find"
    /\ \/ \E r \in Recipient, e \in Outcomes :
            /\ Accepted(r)
            /\ e = "failed" \/ \E j \in JobId : job[j].to = r /\ job[j].pc = "store"
            /\ req' = [req EXCEPT ![q] = [@ EXCEPT !.pc = "match", !.who = {r},
                                                   !.event = e]]
       \/ Respond(q)    \* the update throws
    /\ UNCHANGED <<db, job, faults, events, history>>

\* The row whose whatsappMessageId is the status's; none if that is not stored yet
\* or is another message's.
FindRow(q) ==
    /\ req[q].pc = "match"
    /\ \/ /\ \E r \in req[q].who : Present(r) /\ hasWamid[r]
          /\ GoOn(q, "event")
       \/ Respond(q)
    /\ UNCHANGED <<db, job, faults, events, history>>

ApplyEvent(q) ==
    /\ req[q].pc = "event"
    /\ \E r \in req[q].who :
         IF Present(r)
         THEN row' = [row EXCEPT ![r] = req[q].event] /\ GoOn(q, "bump")
         ELSE Respond(q) /\ UNCHANGED row
    /\ LeftUnchecked
    /\ UNCHANGED <<status, total, counts, hasWamid, job, faults, events, late, retried,
                   overrun, unqueued>>

CountEvent(q) ==
    /\ req[q].pc = "bump"
    /\ counts' = IF Exists THEN [counts EXCEPT ![req[q].event] = @ + 1] ELSE counts
    /\ Respond(q)
    /\ UNCHANGED <<status, total, row, hasWamid, job, faults, events, history>>

\* A database or Redis call fails, or the server stops: the rest is not done.
RequestFails(q) ==
    /\ req[q].pc # "idle"
    /\ faults < MaxFaults
    /\ faults' = faults + 1
    /\ Respond(q)
    /\ unqueued' = (unqueued \/ req[q].pc = "enqueue")
    /\ UNCHANGED <<db, job, events, late, retried, overrun, unchecked>>
-----------------------------------------------------------------------------
(* RecipientWorker: a run of job j, one call per step.                      *)

To(j, pc) == job' = [job EXCEPT ![j].pc = pc]

Deliver(j) ==
    /\ job[j].pc = "waiting"
    /\ Cardinality(Running) < Concurrency
    /\ To(j, "fetch")
    /\ UNCHANGED <<db, req, faults, events, history>>

\* An account that is missing or a contact that opted out end the run early,
\* without a completion check; so does a campaign that is gone.
EndEarly(j) == job' = [job EXCEPT ![j].pc = "mark", ![j].path = "early"]

\* Mutant of Fetch: the status of the campaign is not looked at.
FetchAnyStatus(j) ==
    /\ job[j].pc = "fetch"
    /\ IF Exists THEN To(j, "send") ELSE EndEarly(j)
    /\ UNCHANGED <<db, req, faults, events, history>>

\* Mutant of Fetch: the job of a paused campaign goes back to the queue.
FetchRequeue(j) ==
    /\ job[j].pc = "fetch"
    /\ CASE ~Exists              -> EndEarly(j)
         [] status = "processing" -> To(j, "send") \/ EndEarly(j)
         [] OTHER                 -> To(j, "waiting")
    /\ UNCHANGED <<db, req, faults, events, history>>

Fetch(j) ==
    /\ job[j].pc = "fetch"
    /\ CASE ~Exists                -> EndEarly(j)
         [] status = "processing"   -> To(j, "send") \/ EndEarly(j)
         [] OTHER                   -> To(j, "done")
    /\ UNCHANGED <<db, req, faults, events, history>>

Overrun == IF status = "processing" THEN overrun ELSE overrun + 1

\* sendTemplateMessage, accepted by WhatsApp.
Send(j) ==
    /\ job[j].pc = "send"
    /\ job' = [job EXCEPT ![j].pc = "store", ![j].copies = @ + 1]
    /\ overrun' = Overrun
    /\ UNCHANGED <<db, req, faults, events, late, retried, unchecked, unqueued>>

\* An exception: to the catch block, and out of it to BullMQ, which tries the
\* job again up to Attempts times.
Thrown(run) ==
    IF run.path # "catch"
    THEN [run EXCEPT !.pc = "mark", !.path = "catch"]
    ELSE [run EXCEPT !.pc = IF run.tries + 1 < Attempts THEN "waiting" ELSE "dead",
                     !.path = "ok", !.tries = @ + 1]
Throw(j) == job' = [job EXCEPT ![j] = Thrown(job[j])]

\* Mutant of SendRefused: an accepted message is taken for a refused one.
SendMisread(j) ==
    /\ job[j].pc = "send"
    /\ job' = [job EXCEPT ![j] = Thrown([job[j] EXCEPT !.copies = @ + 1])]
    /\ UNCHANGED <<db, req, faults, events, history>>

SendRefused(j) ==
    /\ job[j].pc = "send"
    /\ Throw(j)
    /\ UNCHANGED <<db, req, faults, events, history>>

\* WhatsApp accepts the message and the answer is lost.
SendLost(j) ==
    /\ job[j].pc = "send"
    /\ faults < MaxFaults
    /\ faults' = faults + 1
    /\ job' = [job EXCEPT ![j] = Thrown([job[j] EXCEPT !.copies = @ + 1])]
    /\ overrun' = Overrun
    /\ UNCHANGED <<db, req, events, late, retried, unchecked, unqueued>>

\* Mutant of Store: the message is sent again when it cannot be stored.
StoreOrResend(j) ==
    /\ job[j].pc = "store"
    /\ To(j, "mark") \/ To(j, "send")
    /\ UNCHANGED <<db, req, faults, events, history>>

\* prisma.message.create
Store(j) ==
    /\ job[j].pc = "store"
    /\ To(j, "mark")
    /\ UNCHANGED <<db, req, faults, events, history>>

\* Mutant of Mark: a run that ends early also reports 'sent'.
MarkEarlySent(j) ==
    /\ job[j].pc = "mark"
    /\ Present(job[j].to)
    /\ row' = [row EXCEPT ![job[j].to] = IF job[j].path = "catch" THEN "failed" ELSE "sent"]
    /\ To(j, "count")
    /\ UNCHANGED <<status, total, counts, hasWamid, req, faults, events, history>>

\* updateRecipientStatus: 'sent' with the wamid, or 'failed'.
Mark(j) ==
    /\ job[j].pc = "mark"
    /\ Present(job[j].to)
    /\ LET sent == job[j].path = "ok" IN
         /\ row' = [row EXCEPT ![job[j].to] = IF sent THEN "sent" ELSE "failed"]
         /\ hasWamid' = [hasWamid EXCEPT ![job[j].to] = @ \/ sent]
    /\ To(j, "count")
    /\ UNCHANGED <<status, total, counts, req, faults, events, history>>

\* Mutant of Count: an early return is not counted.
CountTried(j) ==
    /\ job[j].pc = "count"
    /\ Exists
    /\ LET c == IF job[j].path = "ok" THEN "sent" ELSE "failed" IN
         counts' = IF job[j].path = "early" THEN counts ELSE [counts EXCEPT ![c] = @ + 1]
    /\ To(j, IF job[j].path = "early" THEN "done" ELSE "check")
    /\ unchecked' = (job[j].path = "early")
    /\ UNCHANGED <<status, total, row, hasWamid, req, faults, events, late, retried, overrun,
                   unqueued>>

\* Mutant of Count: only a successful run checks for completion.
CountThenCheckIfSent(j) ==
    /\ job[j].pc = "count"
    /\ Exists
    /\ LET c == IF job[j].path = "ok" THEN "sent" ELSE "failed" IN
         counts' = [counts EXCEPT ![c] = @ + 1]
    /\ To(j, IF job[j].path = "ok" THEN "check" ELSE "done")
    /\ unchecked' = (job[j].path = "early")
    /\ UNCHANGED <<status, total, row, hasWamid, req, faults, events, late, retried, overrun,
                   unqueued>>

\* incrementCampaignCount; the early returns end here.
Count(j) ==
    /\ job[j].pc = "count"
    /\ Exists
    /\ LET c == IF job[j].path = "ok" THEN "sent" ELSE "failed" IN
         counts' = [counts EXCEPT ![c] = @ + 1]
    /\ To(j, IF job[j].path = "early" THEN "done" ELSE "check")
    /\ unchecked' = (job[j].path = "early")
    /\ UNCHANGED <<status, total, row, hasWamid, req, faults, events, late, retried, overrun,
                   unqueued>>

\* Mutant of Check: any run may complete the campaign.
CheckNothing(j) ==
    /\ job[j].pc = "check"
    /\ To(j, "recheck")
    /\ UNCHANGED <<db, req, faults, events, history>>

\* checkCampaignCompletion: count the pending rows, ...
Check(j) ==
    /\ job[j].pc = "check"
    /\ To(j, IF Pending = {} THEN "recheck" ELSE "done")
    /\ UNCHANGED <<db, req, faults, events, history>>

\* ... read the campaign, ...
Recheck(j) ==
    /\ job[j].pc = "recheck"
    /\ To(j, IF status = "processing" THEN "complete" ELSE "done")
    /\ UNCHANGED <<db, req, faults, events, history>>

\* ... and write 'completed'.
Complete(j) ==
    /\ job[j].pc = "complete"
    /\ Exists
    /\ status' = "completed"
    /\ To(j, "done")
    /\ UNCHANGED <<total, counts, row, hasWamid, req, faults, events, history>>

\* The row or the campaign to update no longer exists.
RecordMissing(j) ==
    /\ \/ job[j].pc = "mark" /\ ~Present(job[j].to)
       \/ job[j].pc \in {"count", "complete"} /\ ~Exists
    /\ Throw(j)
    /\ UNCHANGED <<db, req, faults, events, history>>

\* Another call of the run fails.
CallFails(j) ==
    /\ job[j].pc \in RunningPcs \ {"send"}
    /\ faults < MaxFaults
    /\ faults' = faults + 1
    /\ Throw(j)
    /\ UNCHANGED <<db, req, events, history>>

\* The worker process stops: BullMQ finds its jobs stalled and runs each of
\* them again, once.
Crash ==
    /\ Running # {}
    /\ faults < MaxFaults
    /\ faults' = faults + 1
    /\ job' = [j \in JobId |->
                IF j \notin Running THEN job[j]
                ELSE [job[j] EXCEPT !.pc = IF job[j].stalls = 0 THEN "waiting" ELSE "dead",
                                    !.path = "ok", !.stalls = @ + 1]]
    /\ UNCHANGED <<db, req, events, history>>
-----------------------------------------------------------------------------
Handler(q) ==
    \/ ListPending(q) \/ ListFailed(q) \/ ResetFailed(q) \/ WriteStatus(q)
    \/ Enqueue(q) \/ InsertRows(q) \/ UnlinkRow(q) \/ Tally(q) \/ StoreTotal(q)
    \/ ClearRows(q) \/ DropCampaign(q) \/ FindMessage(q) \/ FindRow(q) \/ ApplyEvent(q)
    \/ CountEvent(q)

RunJob(j) ==
    \/ Deliver(j) \/ Fetch(j) \/ Send(j) \/ SendRefused(j) \/ Store(j) \/ Mark(j)
    \/ Count(j) \/ Check(j) \/ Recheck(j) \/ Complete(j) \/ RecordMissing(j)

Next ==
    \/ Create
    \/ \E q \in Request, op \in Ops : Receive(q, op)
    \/ \E q \in Request : Handler(q) \/ RequestFails(q)
    \/ \E j \in JobId : RunJob(j) \/ SendLost(j) \/ CallFails(j)
    \/ Crash

Spec == Init /\ [][Next]_vars

\* A handler that has begun goes on and a worker runs its jobs; nobody has to
\* send a request, and nothing has to fail.
Fairness ==
    /\ \A q \in Request : WF_vars(Handler(q))
    /\ \A j \in JobId : WF_vars(RunJob(j))
FairSpec == Spec /\ Fairness

-----------------------------------------------------------------------------
TypeOK ==
    /\ status \in Statuses
    /\ total \in Nat
    /\ counts \in [Outcomes -> Nat]
    /\ row \in [Recipient -> RowStatuses]
    /\ hasWamid \in [Recipient -> BOOLEAN]
    /\ job \in [JobId -> JobType]
    /\ req \in [Request -> ReqType]
    /\ faults \in Nat /\ events \in Nat
    /\ late \subseteq Recipient /\ retried \in BOOLEAN /\ overrun \in Nat
    /\ unchecked \in BOOLEAN /\ unqueued \in BOOLEAN

\* A completed campaign leaves no recipient behind: a row of it that is still
\* pending became so after a start had read its rows, by a retry or by an add
\* whose guard was read before the start.  (checkCampaignCompletion counts,
\* reads and writes in three calls.)
CompletedLeavesNoneBehind ==
    status = "completed" => Pending \subseteq late

\* A job of r, whose row is pending, found the campaign paused and was skipped.
Skipped(r) == \E j \in JobId : job[j].to = r /\ job[j].pc = "done"

\* A running campaign forgets no recipient: a pending row has a live job, or a
\* request that is about to enqueue.  Exempt are the rows that became pending too
\* late; and a campaign that a retry resumed, which enqueues the failed rows alone,
\* forgets those rows whose jobs had been skipped, and no others.
NoRecipientForgotten ==
    /\ status = "processing" /\ faults = 0
    /\ \A q \in Request : req[q].pc # "enqueue"
    => \A r \in Pending \ late :
         (\E j \in Live : job[j].to = r) \/ (retried /\ Skipped(r))

\* A row says sent, delivered or read only if WhatsApp accepted a message of a
\* job of that recipient, whatever calls failed and whatever statuses came.
SentMeansAccepted ==
    \A r \in Recipient :
        row[r] \in {"sent", "delivered", "read"} => Accepted(r)

\* One delivery of a job to a worker sends at most one message: what is sent
\* beyond the first is paid for by a failed attempt or a stalled run, of which
\* BullMQ allows Attempts and one.
Deliveries(j) ==
    job[j].tries + job[j].stalls
    + (IF job[j].pc \in RunningPcs \union {"done"} THEN 1 ELSE 0)
OneSendPerDelivery ==
    \A j \in JobId : /\ job[j].copies <= Deliveries(j)
                     /\ Deliveries(j) <= Attempts + 1

\* A campaign created with a schedule can never be given recipients, so that
\* no request can start it: POST /recipients wants a draft.
ScheduledHasNoRecipients ==
    status = "scheduled" => /\ \A r \in Recipient : row[r] = "none"
                            /\ \A j \in JobId : job[j].pc = "free"

\* A recipient is reported failed although a message reached it only if a call
\* failed, WhatsApp reported it, or the recipient had been enqueued twice.
EnqueuedTwice(r) ==
    \E i, j \in JobId : i # j /\ job[i].to = r /\ job[j].to = r
FailedButSentHasCause ==
    \A r \in Recipient, j \in JobId :
        row[r] = "failed" /\ job[j].to = r /\ job[j].copies > 0 =>
            faults > 0 \/ events > 0 \/ EnqueuedTwice(r)

\* As long as no call fails, no status arrives, no row is removed and nobody is
\* enqueued twice, the counters and the rows differ only by the runs between
\* updateRecipientStatus and incrementCampaignCount.
Undisturbed ==
    /\ faults = 0 /\ events = 0 /\ late = {}
    /\ \A r \in Recipient : row[r] # "gone" /\ ~EnqueuedTwice(r)
Uncounted(outcome) ==
    {j \in Running : /\ job[j].pc = "count"
                     /\ (job[j].path = "ok") <=> (outcome = "sent")}
CountersMatchRows ==
    Undisturbed =>
        \A outcome \in {"sent", "failed"} :
            Cardinality({r \in Recipient : row[r] = outcome})
                = counts[outcome] + Cardinality(Uncounted(outcome))

\* A pause or a cancel is obeyed up to the runs that had already read
\* 'processing': however many jobs wait, at most Concurrency messages go out
\* until a request sets the campaign to 'processing' again.
PauseStopsSends == overrun <= Concurrency

\* docs/api/paths/campaigns.yaml: "Only campaigns in draft or paused status can
\* be started."  The handler checks the status of its first read, three calls
\* before it writes.
StartWrites ==
    \E q \in Request : /\ req[q].op = "start" /\ req[q].pc = "write"
                       /\ req'[q].pc = "enqueue"
StartsOnlyDraftOrPaused ==
    [][StartWrites => status \in {"draft", "paused"}]_vars

\* A run of a campaign ends: 'processing' does not last, unless all jobs are over
\* and the last addBulk failed; or a row is still pending that became so too late
\* to be enqueued, that a resuming retry forgot, or whose job is dead; or no row is
\* pending and what settled or removed the last one checks for no completion (an
\* early return, a removal, a callback), or a job is dead.
Stuck ==
    /\ Live = {} /\ \A q \in Request : req[q].pc # "enqueue"
    /\ \/ unqueued
       \/ \E r \in Pending : r \in late \/ (retried /\ Skipped(r))
       \/ \E j \in JobId : job[j].pc = "dead" /\ (job[j].to \in Pending \/ Pending = {})
       \/ Pending = {} /\ unchecked
RunEnds == status = "processing" ~> (status # "processing" \/ Stuck)

\* Every job ends, whatever fails.
JobsEnd == \A j \in JobId : job[j].pc = "waiting" ~> job[j].pc \in {"done", "dead"}
=============================================================================
