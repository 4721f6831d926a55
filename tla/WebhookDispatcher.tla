-------------------------- MODULE WebhookDispatcher --------------------------
(***************************************************************************)
(* packages/webhooks/src/dispatcher.ts: deliveries of events to the hooks of *)
(* an organization, at most MaxConcurrent at a time, the rest in a queue.    *)
(*                                                                         *)
(* JavaScript runs one piece of code at a time, so a step is what happens    *)
(* between two awaits: a fetch that settles, a timer that fires, a promise   *)
(* whose continuation runs.  A task taken from the queue is a closure that   *)
(* calls runWorker and is itself run by runWorker: activeWorkers counts it   *)
(* twice, and its end takes three steps.                                    *)
(***************************************************************************)
EXTENDS Naturals, Sequences, FiniteSets

CONSTANTS
    Dispatch,        \* calls of dispatchWebhook
    Webhook,         \* hooks an event may match
    Waiter,          \* calls of waitForWebhooks
    MaxConcurrent,   \* MAX_CONCURRENT
    MaxRetries       \* MAX_RETRIES

ASSUME DispatcherAssumption ==
    /\ IsFiniteSet(Dispatch) /\ IsFiniteSet(Webhook)
    /\ MaxConcurrent \in Nat \ {0}
    /\ MaxRetries \in Nat \ {0}

Task == Dispatch \X Webhook   \* one delivery: an event for one hook

VARIABLES
    activeWorkers,   \* the module's counter
    pendingQueue,    \* tasks whose closures wait in the module's queue
    task,            \* progress of every task
    dispatch,        \* progress of every call of dispatchWebhook
    results,         \* the results array of every call
    waiter           \* progress of every call of waitForWebhooks

vars == <<activeWorkers, pendingQueue, task, dispatch, results, waiter>>

InFlightPcs == {"fetch", "sleep", "log"}
\* "returned", "resolved": the closure of a task from the queue, before and
\* after its resolve().
Pcs == {"new", "queued", "returned", "resolved", "done"} \union InFlightPcs
TaskType == [pc: Pcs, wrapped: BOOLEAN, attempts: 0 .. MaxRetries]
ResultType == [webhookId: Webhook, success: BOOLEAN, attempts: 1 .. MaxRetries]

InFlight == {t \in Task : task[t].pc \in InFlightPcs}
Closures == {t \in Task : /\ task[t].wrapped
                          /\ task[t].pc \in InFlightPcs \union {"returned", "resolved"}}
Idle == activeWorkers = 0 /\ pendingQueue = <<>>

Init ==
    /\ activeWorkers = 0
    /\ pendingQueue = <<>>
    /\ task = [t \in Task |-> [pc |-> "new", wrapped |-> FALSE, attempts |-> 0]]
    /\ dispatch = [d \in Dispatch |-> "new"]
    /\ results = [d \in Dispatch |-> {}]
    /\ waiter = [x \in Waiter |-> "new"]

-----------------------------------------------------------------------------
\* Mutant of FreeSlots: an off-by-one in the test of activeWorkers.
FreeSlotsOneMore == IF activeWorkers <= MaxConcurrent
                    THEN MaxConcurrent + 1 - activeWorkers ELSE 0

\* runScheduled runs a worker itself as long as activeWorkers < MAX_CONCURRENT.
FreeSlots == IF activeWorkers < MaxConcurrent THEN MaxConcurrent - activeWorkers ELSE 0

\* dispatchWebhook, once it has the hooks: runScheduled for every matching one,
\* in the order of the list, without an await between them.
DispatchWebhook(d) ==
    /\ dispatch[d] = "new"
    /\ \E direct, rest \in SUBSET Webhook :
         /\ direct \intersect rest = {}
         /\ Cardinality(direct) <= FreeSlots
         /\ rest # {} => Cardinality(direct) = FreeSlots
         /\ dispatch' = [dispatch EXCEPT ![d] =
                            IF direct \union rest = {} THEN "returned" ELSE "open"]
         /\ activeWorkers' = activeWorkers + Cardinality(direct)
         /\ \E order \in [1 .. Cardinality(rest) -> {<<d, w>> : w \in rest}] :
              /\ \A i, j \in DOMAIN order : order[i] = order[j] => i = j
              /\ pendingQueue' = pendingQueue \o order
         /\ task' = [t \in Task |->
              IF t[1] = d /\ t[2] \in direct
              THEN [pc |-> "fetch", wrapped |-> FALSE, attempts |-> 1]
              ELSE IF t[1] = d /\ t[2] \in rest
              THEN [pc |-> "queued", wrapped |-> TRUE, attempts |-> 0]
              ELSE task[t]]
    /\ UNCHANGED <<results, waiter>>

\* Mutant of ScheduleNext: the waiters are told as soon as the queue is empty.
ScheduleNextEager(now, tasks) ==
    /\ IF pendingQueue # <<>> /\ now < MaxConcurrent
       THEN /\ activeWorkers' = now + 2
            /\ pendingQueue' = Tail(pendingQueue)
            /\ task' = [tasks EXCEPT ![Head(pendingQueue)].pc = "fetch",
                                     ![Head(pendingQueue)].attempts = 1]
       ELSE activeWorkers' = now /\ task' = tasks /\ UNCHANGED pendingQueue
    /\ waiter' = IF pendingQueue' = <<>>
                 THEN [x \in Waiter |-> IF waiter[x] = "waiting" THEN "released"
                                        ELSE waiter[x]]
                 ELSE waiter

\* scheduleNext, called with activeWorkers just lowered to `now`: the closure
\* it takes from the queue raises it once for itself and once for its worker.
ScheduleNext(now, tasks) ==
    /\ IF pendingQueue # <<>> /\ now < MaxConcurrent
       THEN /\ activeWorkers' = now + 2
            /\ pendingQueue' = Tail(pendingQueue)
            /\ task' = [tasks EXCEPT ![Head(pendingQueue)].pc = "fetch",
                                     ![Head(pendingQueue)].attempts = 1]
       ELSE activeWorkers' = now /\ task' = tasks /\ UNCHANGED pendingQueue
    /\ waiter' = IF activeWorkers' = 0 /\ pendingQueue' = <<>>
                 THEN [x \in Waiter |-> IF waiter[x] = "waiting" THEN "released"
                                        ELSE waiter[x]]
                 ELSE waiter

-----------------------------------------------------------------------------
(* dispatchToWebhook, for task t.                                           *)

Report(t, success) ==
    /\ results' = [results EXCEPT ![t[1]] = @ \union
            {[webhookId |-> t[2], success |-> success, attempts |-> task[t].attempts]}]
    /\ task' = [task EXCEPT ![t].pc = "log"]

\* response.ok
Delivered(t) ==
    /\ task[t].pc = "fetch"
    /\ Report(t, TRUE)
    /\ UNCHANGED <<activeWorkers, pendingQueue, dispatch, waiter>>

\* Another status, a network error or the timeout: sleep and try again, or
\* give up after MAX_RETRIES attempts.
Refused(t) ==
    /\ task[t].pc = "fetch"
    /\ IF task[t].attempts < MaxRetries
       THEN task' = [task EXCEPT ![t].pc = "sleep"] /\ UNCHANGED results
       ELSE Report(t, FALSE)
    /\ UNCHANGED <<activeWorkers, pendingQueue, dispatch, waiter>>

Awake(t) ==
    /\ task[t].pc = "sleep"
    /\ task' = [task EXCEPT ![t].pc = "fetch", ![t].attempts = @ + 1]
    /\ UNCHANGED <<activeWorkers, pendingQueue, dispatch, results, waiter>>

\* Mutant of Logged: not in a finally block, and skipped if the row is not
\* written.
LoggedUnlessThrown(t) ==
    /\ task[t].pc = "log"
    /\ LET tasks == [task EXCEPT ![t].pc = IF task[t].wrapped THEN "returned" ELSE "done"] IN
       \/ ScheduleNext(activeWorkers - 1, tasks)
       \/ task' = tasks /\ UNCHANGED <<activeWorkers, pendingQueue, waiter>>
    /\ UNCHANGED <<dispatch, results>>

\* logDelivery settles, whether or not the row was written, and with it the
\* worker: the finally block of runWorker.
Logged(t) ==
    /\ task[t].pc = "log"
    /\ ScheduleNext(activeWorkers - 1,
                    [task EXCEPT ![t].pc = IF task[t].wrapped THEN "returned" ELSE "done"])
    /\ UNCHANGED <<dispatch, results>>

\* The closure of a task from the queue resolves runScheduled's promise, ...
Resolve(t) ==
    /\ task[t].pc = "returned"
    /\ task' = [task EXCEPT ![t].pc = "resolved"]
    /\ UNCHANGED <<activeWorkers, pendingQueue, dispatch, results, waiter>>

\* Mutant of CloseClosure: the counter is lowered once per task.
CloseClosureUncounted(t) ==
    /\ task[t].pc = "resolved"
    /\ task' = [task EXCEPT ![t].pc = "done"]
    /\ UNCHANGED <<activeWorkers, pendingQueue, waiter, dispatch, results>>

\* Mutant of CloseClosure: the queue and the waiters are not looked at.
CloseClosureSilent(t) ==
    /\ task[t].pc = "resolved"
    /\ activeWorkers' = activeWorkers - 1
    /\ task' = [task EXCEPT ![t].pc = "done"]
    /\ UNCHANGED <<pendingQueue, waiter, dispatch, results>>

\* ... and the runWorker around it runs its own finally block.
CloseClosure(t) ==
    /\ task[t].pc = "resolved"
    /\ ScheduleNext(activeWorkers - 1, [task EXCEPT ![t].pc = "done"])
    /\ UNCHANGED <<dispatch, results>>

\* Mutant of Return: the promises of queued tasks are not waited for.
ReturnEarly(d) ==
    /\ dispatch[d] = "open"
    /\ \A w \in Webhook : task[<<d, w>>].pc \in {"new", "queued", "resolved", "done"}
    /\ dispatch' = [dispatch EXCEPT ![d] = "returned"]
    /\ UNCHANGED <<activeWorkers, pendingQueue, task, results, waiter>>

\* Promise.all: every promise of runScheduled is resolved.
Return(d) ==
    /\ dispatch[d] = "open"
    /\ \A w \in Webhook : task[<<d, w>>].pc \in {"new", "resolved", "done"}
    /\ dispatch' = [dispatch EXCEPT ![d] = "returned"]
    /\ UNCHANGED <<activeWorkers, pendingQueue, task, results, waiter>>

WaitForWebhooks(x) ==
    /\ waiter[x] = "new"
    /\ waiter' = [waiter EXCEPT ![x] = IF Idle THEN "released" ELSE "waiting"]
    /\ UNCHANGED <<activeWorkers, pendingQueue, task, dispatch, results>>

-----------------------------------------------------------------------------
Work(t) == \/ Delivered(t) \/ Refused(t) \/ Awake(t) \/ Logged(t)
           \/ Resolve(t) \/ CloseClosure(t)

Next ==
    \/ \E d \in Dispatch : DispatchWebhook(d) \/ Return(d)
    \/ \E t \in Task : Work(t)
    \/ \E x \in Waiter : WaitForWebhooks(x)

Spec == Init /\ [][Next]_vars

\* A fetch settles, because AbortSignal.timeout ends it, timers fire and
\* continuations run.  No receiver has to answer and nobody has to call.
FairSpec ==
    /\ Spec
    /\ \A t \in Task : WF_vars(Work(t))
    /\ \A d \in Dispatch : WF_vars(Return(d))

-----------------------------------------------------------------------------
TypeOK ==
    /\ activeWorkers \in Nat
    /\ pendingQueue \in Seq(Task)
    /\ task \in [Task -> TaskType]
    /\ dispatch \in [Dispatch -> {"new", "open", "returned"}]
    /\ results \in [Dispatch -> SUBSET ResultType]
    /\ waiter \in [Waiter -> {"new", "waiting", "released"}]

\* The counter is exact although it counts a queued task twice: it returns to
\* zero, neither leaking slots nor admitting more than MAX_CONCURRENT.
CounterExact == activeWorkers = Cardinality(InFlight) + Cardinality(Closures)

\* A task waits in the queue only while the counter is at its limit, so that
\* some worker is left whose end looks at the queue.
QueueHasWaker == pendingQueue # <<>> => activeWorkers >= MaxConcurrent

\* Counting queued tasks twice costs at most half of the slots: when no closure
\* is just ending, a task waits only while half of MAX_CONCURRENT are in flight.
HalfTheSlotsBusy ==
    pendingQueue # <<>> /\ (\A t \in Task : task[t].pc \notin {"returned", "resolved"})
        => 2 * Cardinality(InFlight) >= MaxConcurrent

\* waitForWebhooks misses no notification, and is not told too early: a call
\* waits only while there is work, and is released only when there is none.
NoWaiterForgotten == (\E x \in Waiter : waiter[x] = "waiting") => ~Idle
ReleasedWhenIdle ==
    [][\A x \in Waiter :
         (waiter[x] = "waiting" /\ waiter'[x] = "released") =>
             /\ Idle'
             /\ \A t \in Task : task'[t].pc \in {"new", "done"}]_vars

\* dispatchWebhook returns a complete array: one result for each hook that it
\* gave a task, and a failure only after MAX_RETRIES attempts.
ResultsComplete ==
    \A d \in Dispatch : dispatch[d] = "returned" =>
        \A w \in Webhook :
            task[<<d, w>>].pc # "new" =>
                \E r \in results[d] :
                    /\ r.webhookId = w
                    /\ \A s \in results[d] : s.webhookId = w => s = r
                    /\ ~r.success => r.attempts = MaxRetries

\* The dispatcher is a pool of workers.
Pool == INSTANCE WorkerPool WITH
            waiting <- {t \in Task : task[t].pc = "queued"},
            running <- InFlight,
            ended <- {t \in Task : task[t].pc \in {"returned", "resolved", "done"}}
PoolSpec == Pool!Spec
PoolAllEnd == Pool!AllEnd

\* Every call of dispatchWebhook returns and every call of waitForWebhooks is
\* released, whatever the receivers answer.
CallsReturn ==
    /\ \A d \in Dispatch : dispatch[d] = "open" ~> dispatch[d] = "returned"
    /\ \A x \in Waiter : waiter[x] = "waiting" ~> waiter[x] = "released"
=============================================================================
