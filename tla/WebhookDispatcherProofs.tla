----------------------- MODULE WebhookDispatcherProofs -----------------------
(***************************************************************************)
(* Proofs about WebhookDispatcher, for any numbers of calls and hooks and   *)
(* any limits.  One inductive invariant, Inv, carries them all: it adds to  *)
(* the properties what the queue and the attempts look like.                *)
(***************************************************************************)
EXTENDS WebhookDispatcher, FiniteSetTheorems, SequenceTheorems, TLAPS

-----------------------------------------------------------------------------
(* The inductive invariant.                                                *)

\* The same sets as InFlight and Closures, of any progress of the tasks.
InFlightOf(tasks) == {t \in Task : tasks[t].pc \in InFlightPcs}
ClosuresOf(tasks) ==
    {t \in Task : /\ tasks[t].wrapped
                  /\ tasks[t].pc \in InFlightPcs \union {"returned", "resolved"}}

\* Every entry of the queue is a task that waits, and no task is in it twice.
QueueSound ==
    /\ \A i \in 1 .. Len(pendingQueue) :
         /\ task[pendingQueue[i]].pc = "queued"
         /\ task[pendingQueue[i]].wrapped
    /\ \A i, j \in 1 .. Len(pendingQueue) : pendingQueue[i] = pendingQueue[j] => i = j

\* Only closures wind up in two more steps; a task that sleeps has an attempt
\* left, and one that fetches or reports has made one.
TaskSound(s) ==
    /\ s.pc \in {"returned", "resolved"} => s.wrapped
    /\ s.pc = "sleep" => s.attempts < MaxRetries
    /\ s.pc = "fetch" => s.attempts > 0

\* A call that has not begun has no tasks.
TasksSound ==
    /\ \A d \in Dispatch, w \in Webhook :
         dispatch[d] = "new" => task[<<d, w>>].pc = "new"
    /\ \A t \in Task : TaskSound(task[t])

Bounded == Cardinality(InFlight) <= MaxConcurrent

Inv ==
    /\ TypeOK /\ QueueSound /\ TasksSound
    /\ CounterExact /\ QueueHasWaker /\ NoWaiterForgotten /\ Bounded

-----------------------------------------------------------------------------
(* Counting tasks.                                                         *)

LEMMA TaskFinite == IsFiniteSet(Task)
  BY FS_Product, DispatcherAssumption DEF Task

LEMMA CountType ==
  ASSUME NEW S \in SUBSET Task
  PROVE  IsFiniteSet(S) /\ Cardinality(S) \in Nat
  BY TaskFinite, FS_Subset, FS_CardinalityType

LEMMA CountAdd ==
  ASSUME NEW S \in SUBSET Task, NEW t \in Task, t \notin S
  PROVE  Cardinality(S \union {t}) = Cardinality(S) + 1
  BY CountType, FS_AddElement

LEMMA CountRemove ==
  ASSUME NEW S \in SUBSET Task, NEW t \in S
  PROVE  Cardinality(S \ {t}) = Cardinality(S) - 1
  BY CountType, FS_RemoveElement

LEMMA CountEmpty ==
  ASSUME NEW S \in SUBSET Task
  PROVE  Cardinality(S) = 0 <=> S = {}
  BY CountType, FS_EmptySet

\* The tasks of one call for some hooks are as many as the hooks.
LEMMA CountCall ==
  ASSUME NEW d \in Dispatch, NEW S \in SUBSET Webhook
  PROVE  /\ {d} \X S \subseteq Task
         /\ Cardinality({d} \X S) = Cardinality(S)
         /\ Cardinality(S) \in Nat
<1>1. IsFiniteSet(S) /\ Cardinality(S) \in Nat
  BY FS_Subset, FS_CardinalityType, DispatcherAssumption
<1>2. IsFiniteSet({d}) /\ Cardinality({d}) = 1
  BY FS_Singleton
<1>3. Cardinality({d} \X S) = Cardinality({d}) * Cardinality(S)
  BY <1>1, <1>2, FS_Product
<1> QED
  BY <1>1, <1>2, <1>3 DEF Task

LEMMA CountUnion ==
  ASSUME NEW S \in SUBSET Task, NEW T \in SUBSET Task, S \intersect T = {}
  PROVE  Cardinality(S \union T) = Cardinality(S) + Cardinality(T)
<1>1. IsFiniteSet(S) /\ IsFiniteSet(T) /\ Cardinality(S) \in Nat /\ Cardinality(T) \in Nat
  BY CountType
<1>2. Cardinality(S \union T)
        = Cardinality(S) + Cardinality(T) - Cardinality(S \intersect T)
  BY <1>1, FS_Union
<1>3. Cardinality(S \intersect T) = 0
  BY FS_EmptySet
<1> QED
  BY <1>1, <1>2, <1>3

-----------------------------------------------------------------------------
(* scheduleNext.                                                           *)

\* If the counter is exact when scheduleNext is called, and a queue that is not
\* empty finds it one below its limit at worst, scheduleNext leaves it exact, at
\* its limit, with a waiter released if nothing is left to do.
LEMMA ScheduleNextSound ==
  ASSUME NEW now \in Nat, NEW tasks \in [Task -> TaskType],
         TypeOK, ScheduleNext(now, tasks),
         \A i \in 1 .. Len(pendingQueue) : /\ tasks[pendingQueue[i]].pc = "queued"
                                           /\ tasks[pendingQueue[i]].wrapped,
         \A i, j \in 1 .. Len(pendingQueue) :
            pendingQueue[i] = pendingQueue[j] => i = j,
         \A t \in Task : TaskSound(tasks[t]),
         now = Cardinality(InFlightOf(tasks)) + Cardinality(ClosuresOf(tasks)),
         Cardinality(InFlightOf(tasks)) <= MaxConcurrent,
         pendingQueue # <<>> => now + 1 >= MaxConcurrent
  PROVE  /\ activeWorkers' \in Nat /\ pendingQueue' \in Seq(Task)
         /\ task' \in [Task -> TaskType]
         /\ waiter' \in [Waiter -> {"new", "waiting", "released"}]
         /\ QueueSound' /\ (\A t \in Task : TaskSound(task'[t]))
         /\ CounterExact' /\ QueueHasWaker' /\ NoWaiterForgotten' /\ Bounded'
         /\ \A t \in Task : tasks[t].pc = "new" => task'[t].pc = "new"
<1> MaxConcurrent \in Nat \ {0} /\ MaxRetries \in Nat \ {0}
  BY DispatcherAssumption
<1>1. waiter' \in [Waiter -> {"new", "waiting", "released"}] /\ NoWaiterForgotten'
  <2>1. waiter' = IF activeWorkers' = 0 /\ pendingQueue' = <<>>
                  THEN [x \in Waiter |-> IF waiter[x] = "waiting" THEN "released"
                                         ELSE waiter[x]]
                  ELSE waiter
    BY DEF ScheduleNext
  <2> QED
    BY <2>1 DEF TypeOK, NoWaiterForgotten, Idle
<1>2. CASE pendingQueue # <<>> /\ now < MaxConcurrent
  <2> DEFINE h == Head(pendingQueue)
  <2>1. /\ activeWorkers' = now + 2
        /\ pendingQueue' = Tail(pendingQueue)
        /\ task' = [tasks EXCEPT ![h].pc = "fetch", ![h].attempts = 1]
    BY <1>2 DEF ScheduleNext
  <2>2. /\ h \in Task /\ pendingQueue' \in Seq(Task)
        /\ Len(pendingQueue') = Len(pendingQueue) - 1
        /\ \A i \in 1 .. Len(pendingQueue') : pendingQueue'[i] = pendingQueue[i + 1]
        /\ Len(pendingQueue) \in Nat \ {0}
        /\ h = pendingQueue[1]
    BY <1>2, <2>1, HeadTailProperties DEF TypeOK
  <2>3. tasks[h].pc = "queued" /\ tasks[h].wrapped
    BY <2>2
  <2> HIDE DEF h
  <2>4. task' \in [Task -> TaskType]
    <3>1. 1 \in 0 .. MaxRetries
      OBVIOUS
    <3>2. "fetch" \in Pcs
      BY DEF Pcs, InFlightPcs
    <3> DEFINE s == [tasks[h] EXCEPT !.pc = "fetch", !.attempts = 1]
    <3>3. tasks[h] \in TaskType
      BY <2>2
    <3>4. s \in TaskType
      BY <3>1, <3>2, <3>3 DEF TaskType
    <3>5. task' = [tasks EXCEPT ![h] = s]
      BY <2>1, <2>2, <3>3 DEF TaskType
    <3> HIDE DEF s
    <3> QED
      BY <3>4, <3>5
  <2>5. /\ task'[h].pc = "fetch" /\ task'[h].attempts = 1
        /\ task'[h].wrapped = tasks[h].wrapped
        /\ \A t \in Task : t # h => task'[t] = tasks[t]
    BY <2>1, <2>2 DEF TaskType
  <2>6. QueueSound'
    <3>1. \A i \in 1 .. Len(pendingQueue') :
            pendingQueue'[i] # h /\ pendingQueue'[i] \in Task
      BY <2>2
    <3>2. \A i \in 1 .. Len(pendingQueue') : task'[pendingQueue'[i]] = tasks[pendingQueue[i + 1]]
      BY <2>2, <2>5, <3>1
    <3>3. \A i \in 1 .. Len(pendingQueue') : i + 1 \in 1 .. Len(pendingQueue)
      BY <2>2
    <3>4. \A i \in 1 .. Len(pendingQueue') :
            task'[pendingQueue'[i]].pc = "queued" /\ task'[pendingQueue'[i]].wrapped
      <4> SUFFICES ASSUME NEW i \in 1 .. Len(pendingQueue')
                   PROVE  task'[pendingQueue'[i]].pc = "queued" /\ task'[pendingQueue'[i]].wrapped
        OBVIOUS
      <4>1. i + 1 \in 1 .. Len(pendingQueue)
        BY <3>3
      <4>2. tasks[pendingQueue[i + 1]].pc = "queued" /\ tasks[pendingQueue[i + 1]].wrapped
        BY <4>1
      <4>3. task'[pendingQueue'[i]] = tasks[pendingQueue[i + 1]]
        BY <3>2
      <4> QED
        BY <4>2, <4>3
    <3>5. \A i, j \in 1 .. Len(pendingQueue') : pendingQueue'[i] = pendingQueue'[j] => i = j
      <4> SUFFICES ASSUME NEW i \in 1 .. Len(pendingQueue'), NEW j \in 1 .. Len(pendingQueue'),
                          pendingQueue'[i] = pendingQueue'[j]
                   PROVE  i = j
        OBVIOUS
      <4>1. i + 1 = j + 1
        BY <2>2, <3>3
      <4> QED
        BY <4>1
    <3> QED
      BY <3>4, <3>5 DEF QueueSound
  <2>7. \A t \in Task : TaskSound(task'[t])
    BY <2>5 DEF TaskSound
  <2>8. InFlight' = InFlightOf(tasks) \union {h} /\ h \notin InFlightOf(tasks)
    BY <2>2, <2>3, <2>5 DEF InFlight, InFlightOf, InFlightPcs
  <2>9. Closures' = ClosuresOf(tasks) \union {h} /\ h \notin ClosuresOf(tasks)
    BY <2>2, <2>3, <2>5 DEF Closures, ClosuresOf, InFlightPcs
  <2>10. /\ Cardinality(InFlight') = Cardinality(InFlightOf(tasks)) + 1
         /\ Cardinality(Closures') = Cardinality(ClosuresOf(tasks)) + 1
         /\ Cardinality(InFlightOf(tasks)) \in Nat /\ Cardinality(ClosuresOf(tasks)) \in Nat
    BY <2>2, <2>8, <2>9, CountAdd, CountType DEF InFlightOf, ClosuresOf
  <2>11. CounterExact'
    BY <2>1, <2>10 DEF CounterExact
  <2>12. QueueHasWaker'
    BY <1>2, <2>1 DEF QueueHasWaker
  <2>13. Bounded'
    BY <1>2, <2>10 DEF Bounded
  <2>14. \A t \in Task : tasks[t].pc = "new" => task'[t].pc = "new"
    BY <2>3, <2>5
  <2>15. activeWorkers' \in Nat /\ pendingQueue' \in Seq(Task)
    BY <2>1, <2>2
  <2> QED
    BY <1>1, <2>4, <2>6, <2>7, <2>11, <2>12, <2>13, <2>14, <2>15
<1>3. CASE ~(pendingQueue # <<>> /\ now < MaxConcurrent)
  <2>1. activeWorkers' = now /\ task' = tasks /\ pendingQueue' = pendingQueue
    BY <1>3 DEF ScheduleNext
  <2>2. InFlight' = InFlightOf(tasks) /\ Closures' = ClosuresOf(tasks)
    BY <2>1 DEF InFlight, InFlightOf, Closures, ClosuresOf
  <2>3. QueueSound' /\ CounterExact' /\ Bounded'
    BY <2>1, <2>2 DEF QueueSound, CounterExact, Bounded
  <2>4. QueueHasWaker'
    BY <1>3, <2>1 DEF QueueHasWaker
  <2>5. pendingQueue \in Seq(Task)
    BY DEF TypeOK
  <2>6. \A t \in Task : TaskSound(task'[t]) /\ (tasks[t].pc = "new" => task'[t].pc = "new")
    BY <2>1
  <2>7. activeWorkers' \in Nat /\ pendingQueue' \in Seq(Task) /\ task' \in [Task -> TaskType]
    BY <2>1, <2>5
  <2> QED
    BY <1>1, <2>3, <2>4, <2>6, <2>7
<1> QED
  BY <1>2, <1>3

-----------------------------------------------------------------------------
(* The steps.                                                              *)

LEMMA InvInit == Init => Inv
<1> SUFFICES ASSUME Init PROVE Inv
  OBVIOUS
<1>0. MaxConcurrent \in Nat \ {0} /\ MaxRetries \in Nat \ {0}
  BY DispatcherAssumption
<1>1. \A t \in Task : task[t] = [pc |-> "new", wrapped |-> FALSE, attempts |-> 0]
  BY DEF Init
<1>2. TypeOK
  <2>1. [pc |-> "new", wrapped |-> FALSE, attempts |-> 0] \in TaskType
    BY <1>0 DEF TaskType, Pcs
  <2> QED
    BY <2>1 DEF Init, TypeOK
<1>3. TasksSound
  BY <1>1 DEF Init, TasksSound, TaskSound, Task
<1>4. QueueSound /\ QueueHasWaker /\ NoWaiterForgotten
  BY DEF Init, QueueSound, QueueHasWaker, NoWaiterForgotten
<1>5. InFlight = {} /\ Closures = {}
  BY <1>1 DEF InFlight, Closures, InFlightPcs
<1>6. Cardinality(InFlight) = 0 /\ Cardinality(Closures) = 0
  BY <1>5, FS_EmptySet
<1>7. CounterExact /\ Bounded
  BY <1>0, <1>6 DEF CounterExact, Bounded, Init
<1> QED
  BY <1>2, <1>3, <1>4, <1>7 DEF Inv

\* A step of one task that neither begins nor ends a worker or a closure.
LEMMA TaskMoves ==
  ASSUME Inv, NEW t \in Task, NEW s \in TaskType, TaskSound(s),
         task' = [task EXCEPT ![t] = s],
         task[t].pc \notin {"new", "queued"},
         s.wrapped = task[t].wrapped,
         s.pc \in InFlightPcs <=> task[t].pc \in InFlightPcs,
         s.pc \in InFlightPcs \union {"returned", "resolved"}
            <=> task[t].pc \in InFlightPcs \union {"returned", "resolved"},
         results' \in [Dispatch -> SUBSET ResultType],
         UNCHANGED <<activeWorkers, pendingQueue, dispatch, waiter>>
  PROVE  Inv'
<1> USE DEF Inv
<1>1. TypeOK'
  BY DEF TypeOK
<1>2. task'[t] = s /\ \A u \in Task : u # t => task'[u] = task[u]
  BY DEF TypeOK
<1>3. QueueSound'
  <2>1. \A i \in 1 .. Len(pendingQueue) : pendingQueue[i] \in Task /\ pendingQueue[i] # t
    BY DEF QueueSound, TypeOK
  <2> QED
    BY <1>2, <2>1 DEF QueueSound
<1>4. TasksSound'
  <2>1. \A u \in Task : TaskSound(task'[u])
    BY <1>2 DEF TasksSound
  <2>2. ASSUME NEW d \in Dispatch, NEW w \in Webhook, dispatch[d] = "new"
        PROVE  task'[<<d, w>>].pc = "new"
    <3>1. task[<<d, w>>].pc = "new" /\ <<d, w>> \in Task
      BY <2>2 DEF TasksSound, Task
    <3> QED
      BY <1>2, <3>1
  <2> QED
    BY <2>1, <2>2 DEF TasksSound
<1>5. InFlight' = InFlight
  BY <1>2 DEF InFlight
<1>6. Closures' = Closures
  BY <1>2 DEF Closures
<1>7. CounterExact' /\ Bounded' /\ QueueHasWaker' /\ NoWaiterForgotten'
  BY <1>5, <1>6 DEF CounterExact, Bounded, QueueHasWaker, NoWaiterForgotten, Idle
<1> QED
  BY <1>1, <1>3, <1>4, <1>7

LEMMA ReportSound ==
  ASSUME Inv, NEW t \in Task, NEW success \in BOOLEAN, task[t].pc = "fetch",
         Report(t, success), UNCHANGED <<activeWorkers, pendingQueue, dispatch, waiter>>
  PROVE  Inv'
<1>1. TypeOK /\ TaskSound(task[t]) /\ task[t] \in TaskType
  BY DEF Inv, TasksSound, TypeOK
<1> DEFINE s == [task[t] EXCEPT !.pc = "log"]
<1>2. /\ s \in TaskType /\ s.wrapped = task[t].wrapped /\ s.pc = "log"
      /\ task' = [task EXCEPT ![t] = s]
  BY <1>1 DEF Report, TaskType, Pcs, InFlightPcs
<1>3. TaskSound(s)
  BY <1>2 DEF TaskSound
<1>4. t[1] \in Dispatch /\ t[2] \in Webhook
  BY DEF Task
<1>5. task[t].attempts \in 1 .. MaxRetries
  BY <1>1 DEF TaskType, TaskSound
<1>6. results' \in [Dispatch -> SUBSET ResultType]
  BY <1>1, <1>4, <1>5 DEF Report, ResultType, TypeOK
<1> HIDE DEF s
<1> QED
  BY <1>2, <1>3, <1>6, TaskMoves DEF InFlightPcs

LEMMA WorkSound ==
  ASSUME Inv, NEW t \in Task, Work(t)
  PROVE  Inv'
<1>0. /\ MaxConcurrent \in Nat \ {0} /\ MaxRetries \in Nat \ {0}
      /\ TypeOK /\ QueueSound /\ TasksSound /\ CounterExact /\ QueueHasWaker /\ Bounded
      /\ task[t] \in TaskType /\ TaskSound(task[t])
  BY DispatcherAssumption DEF Inv, TypeOK, TasksSound
<1>1. CASE Delivered(t)
  BY <1>1, ReportSound DEF Delivered
<1>2. CASE Refused(t)
  <2>1. CASE task[t].attempts < MaxRetries
    <3> DEFINE s == [task[t] EXCEPT !.pc = "sleep"]
    <3>1. /\ s \in TaskType /\ s.wrapped = task[t].wrapped /\ s.pc = "sleep"
          /\ s.attempts = task[t].attempts /\ task' = [task EXCEPT ![t] = s]
      BY <1>0, <1>2, <2>1 DEF Refused, TaskType, Pcs, InFlightPcs
    <3>2. TaskSound(s)
      BY <2>1, <3>1 DEF TaskSound
    <3>3. results' \in [Dispatch -> SUBSET ResultType]
      BY <1>0, <1>2, <2>1 DEF Refused, TypeOK
    <3>4. task[t].pc = "fetch" /\ UNCHANGED <<activeWorkers, pendingQueue, dispatch, waiter>>
      BY <1>2 DEF Refused
    <3> HIDE DEF s
    <3> QED
      BY <3>1, <3>2, <3>3, <3>4, TaskMoves DEF InFlightPcs
  <2>2. CASE ~(task[t].attempts < MaxRetries)
    BY <1>2, <2>2, ReportSound DEF Refused
  <2> QED
    BY <2>1, <2>2
<1>3. CASE Awake(t)
  <2> DEFINE s == [task[t] EXCEPT !.pc = "fetch", !.attempts = @ + 1]
  <2>1. task[t].attempts + 1 \in 1 .. MaxRetries /\ "fetch" \in Pcs
    BY <1>0, <1>3 DEF Awake, TaskType, TaskSound, Pcs, InFlightPcs
  <2>2. s \in TaskType
    <3>1. task[t].attempts + 1 \in 0 .. MaxRetries
      BY <1>0, <2>1
    <3>2. s = [task[t] EXCEPT !.pc = "fetch", !.attempts = task[t].attempts + 1]
      BY <1>0 DEF TaskType
    <3> HIDE DEF s
    <3> QED
      BY <1>0, <2>1, <3>1, <3>2 DEF TaskType
  <2>3. /\ s.wrapped = task[t].wrapped /\ s.pc = "fetch"
        /\ s.attempts = task[t].attempts + 1
    BY <1>0 DEF TaskType
  <2>4. task' = [task EXCEPT ![t] = s]
    BY <1>0, <1>3 DEF Awake, TypeOK, TaskType
  <2>5. TaskSound(s)
    BY <2>1, <2>3 DEF TaskSound
  <2>6. /\ task[t].pc = "sleep" /\ UNCHANGED <<activeWorkers, pendingQueue, dispatch, waiter>>
        /\ results' \in [Dispatch -> SUBSET ResultType]
    BY <1>0, <1>3 DEF Awake, TypeOK
  <2> HIDE DEF s
  <2> QED
    BY <2>2, <2>3, <2>4, <2>5, <2>6, TaskMoves DEF InFlightPcs
<1>4. CASE Resolve(t)
  <2> DEFINE s == [task[t] EXCEPT !.pc = "resolved"]
  <2>1. /\ s \in TaskType /\ s.wrapped = task[t].wrapped /\ s.pc = "resolved"
        /\ task' = [task EXCEPT ![t] = s]
    BY <1>0, <1>4 DEF Resolve, TaskType, Pcs
  <2>2. task[t].pc = "returned" /\ UNCHANGED <<activeWorkers, pendingQueue, dispatch, waiter>>
    BY <1>4 DEF Resolve
  <2>3. TaskSound(s) /\ results' \in [Dispatch -> SUBSET ResultType]
    BY <1>0, <1>4, <2>1, <2>2 DEF TaskSound, Resolve, TypeOK
  <2> HIDE DEF s
  <2> QED
    BY <2>1, <2>2, <2>3, TaskMoves DEF InFlightPcs
<1>5. CASE Logged(t) \/ CloseClosure(t)
  <2> DEFINE over == IF task[t].pc = "log" /\ task[t].wrapped THEN "returned" ELSE "done"
             s == [task[t] EXCEPT !.pc = over]
             tasks == [task EXCEPT ![t] = s]
             now == activeWorkers - 1
  <2>1. over \in Pcs /\ over \notin InFlightPcs
    BY DEF Pcs, InFlightPcs
  <2>2. s \in TaskType /\ s.wrapped = task[t].wrapped /\ s.pc = over
    BY <1>0, <2>1 DEF TaskType
  <2>3. tasks \in [Task -> TaskType] /\ tasks[t] = s
        /\ \A u \in Task : u # t => tasks[u] = task[u]
    BY <1>0, <2>2 DEF TypeOK
  <2>4. ScheduleNext(now, tasks) /\ UNCHANGED <<dispatch, results>>
    BY <1>0, <1>5 DEF Logged, CloseClosure, TypeOK
  <2>5. /\ now = Cardinality(InFlightOf(tasks)) + Cardinality(ClosuresOf(tasks))
        /\ now \in Nat /\ Cardinality(InFlightOf(tasks)) <= MaxConcurrent
    <3>1. /\ activeWorkers = Cardinality(InFlight) + Cardinality(Closures)
          /\ Cardinality(InFlight) \in Nat /\ Cardinality(Closures) \in Nat
          /\ Cardinality(InFlight) <= MaxConcurrent
      BY <1>0, CountType DEF CounterExact, Bounded, InFlight, Closures
    <3>2. CASE task[t].pc = "log"
      <4>1. t \in InFlight /\ InFlightOf(tasks) = InFlight \ {t}
        BY <2>1, <2>2, <2>3, <3>2 DEF InFlight, InFlightOf, InFlightPcs
      <4>2. ClosuresOf(tasks) = Closures
        BY <2>1, <2>2, <2>3, <3>2 DEF Closures, ClosuresOf, InFlightPcs
      <4>3. /\ Cardinality(InFlightOf(tasks)) = Cardinality(InFlight) - 1
            /\ Cardinality(InFlightOf(tasks)) \in Nat
        BY <4>1, CountRemove, CountType DEF InFlight
      <4> QED
        BY <1>0, <3>1, <4>2, <4>3
    <3>3. CASE task[t].pc = "resolved"
      <4>1. t \in Closures /\ ClosuresOf(tasks) = Closures \ {t}
        BY <1>0, <2>1, <2>2, <2>3, <3>3 DEF Closures, ClosuresOf, InFlightPcs, TaskSound
      <4>2. InFlightOf(tasks) = InFlight
        BY <2>1, <2>2, <2>3, <3>3 DEF InFlight, InFlightOf, InFlightPcs
      <4>3. /\ Cardinality(ClosuresOf(tasks)) = Cardinality(Closures) - 1
            /\ Cardinality(ClosuresOf(tasks)) \in Nat
        BY <4>1, CountRemove, CountType DEF Closures
      <4> QED
        BY <1>0, <3>1, <4>2, <4>3
    <3> QED
      BY <1>5, <3>2, <3>3 DEF Logged, CloseClosure
  <2>6. \A u \in Task : TaskSound(tasks[u])
    BY <1>0, <2>2, <2>3 DEF TasksSound, TaskSound
  <2>7. /\ \A i \in 1 .. Len(pendingQueue) : /\ tasks[pendingQueue[i]].pc = "queued"
                                             /\ tasks[pendingQueue[i]].wrapped
        /\ \A i, j \in 1 .. Len(pendingQueue) :
              pendingQueue[i] = pendingQueue[j] => i = j
    <3>1. \A i \in 1 .. Len(pendingQueue) : pendingQueue[i] \in Task /\ pendingQueue[i] # t
      BY <1>0, <1>5 DEF QueueSound, TypeOK, Logged, CloseClosure
    <3> QED
      BY <1>0, <2>3, <3>1 DEF QueueSound
  <2>8. pendingQueue # <<>> => now + 1 >= MaxConcurrent
    BY <1>0 DEF QueueHasWaker, TypeOK
  <2>9. task[t].pc # "new"
    BY <1>5 DEF Logged, CloseClosure
  <2> HIDE DEF over, s, tasks, now
  <2>10. /\ activeWorkers' \in Nat /\ pendingQueue' \in Seq(Task)
         /\ task' \in [Task -> TaskType]
         /\ waiter' \in [Waiter -> {"new", "waiting", "released"}]
         /\ QueueSound' /\ (\A u \in Task : TaskSound(task'[u]))
         /\ CounterExact' /\ QueueHasWaker' /\ NoWaiterForgotten' /\ Bounded'
         /\ \A u \in Task : tasks[u].pc = "new" => task'[u].pc = "new"
    BY <1>0, <2>3, <2>4, <2>5, <2>6, <2>7, <2>8, ScheduleNextSound
  <2>11. TypeOK'
    BY <1>0, <2>4, <2>10 DEF TypeOK
  <2>12. TasksSound'
    <3>1. \A u \in Task : task[u].pc = "new" => task'[u].pc = "new"
      BY <2>3, <2>9, <2>10
    <3> QED
      BY <1>0, <2>4, <2>10, <3>1 DEF TasksSound, Task
  <2> QED
    BY <2>10, <2>11, <2>12 DEF Inv
<1> QED
  BY <1>1, <1>2, <1>3, <1>4, <1>5 DEF Work

\* dispatchWebhook begins what fits under the limit and queues the rest.
LEMMA DispatchSound ==
  ASSUME Inv, NEW d \in Dispatch, DispatchWebhook(d)
  PROVE  Inv'
<1>0. /\ MaxConcurrent \in Nat \ {0} /\ MaxRetries \in Nat \ {0}
      /\ TypeOK /\ QueueSound /\ TasksSound /\ CounterExact /\ QueueHasWaker
      /\ Bounded /\ NoWaiterForgotten /\ activeWorkers \in Nat
  BY DispatcherAssumption DEF Inv, TypeOK
<1>1. dispatch[d] = "new" /\ UNCHANGED <<results, waiter>>
  BY DEF DispatchWebhook
<1>2. PICK direct \in SUBSET Webhook, rest \in SUBSET Webhook :
         /\ direct \intersect rest = {}
         /\ Cardinality(direct) <= FreeSlots
         /\ rest # {} => Cardinality(direct) = FreeSlots
         /\ dispatch' = [dispatch EXCEPT ![d] =
                            IF direct \union rest = {} THEN "returned" ELSE "open"]
         /\ activeWorkers' = activeWorkers + Cardinality(direct)
         /\ \E order \in [1 .. Cardinality(rest) -> {<<d, w>> : w \in rest}] :
              /\ \A i, j \in DOMAIN order : order[i] = order[j] => i = j
              /\ pendingQueue' = pendingQueue \o order
         /\ task' = [t \in Task |->
              IF t[1] = d /\ t[2] \in direct
              THEN [pc |-> "fetch", wrapped |-> FALSE, attempts |-> 1]
              ELSE IF t[1] = d /\ t[2] \in rest
              THEN [pc |-> "queued", wrapped |-> TRUE, attempts |-> 0]
              ELSE task[t]]
  BY DEF DispatchWebhook
<1>3. PICK order \in [1 .. Cardinality(rest) -> {<<d, w>> : w \in rest}] :
         /\ \A i, j \in 1 .. Cardinality(rest) : order[i] = order[j] => i = j
         /\ pendingQueue' = pendingQueue \o order
  BY <1>2
<1> DEFINE D == {d} \X direct
<1>4. /\ D \subseteq Task /\ Cardinality(D) = Cardinality(direct)
      /\ Cardinality(direct) \in Nat /\ Cardinality(rest) \in Nat
  BY CountCall
<1>5. \A t \in Task : t[1] = d => task[t].pc = "new"
  BY <1>0, <1>1 DEF TasksSound, Task
<1>6. \A t \in Task :
        task'[t] = IF t[1] = d /\ t[2] \in direct
                   THEN [pc |-> "fetch", wrapped |-> FALSE, attempts |-> 1]
                   ELSE IF t[1] = d /\ t[2] \in rest
                   THEN [pc |-> "queued", wrapped |-> TRUE, attempts |-> 0]
                   ELSE task[t]
  BY <1>2
<1>7. order \in Seq(Task) /\ Len(order) = Cardinality(rest)
  BY <1>4 DEF Task
<1>8. /\ pendingQueue \in Seq(Task) /\ Len(pendingQueue) \in Nat
      /\ pendingQueue' \in Seq(Task)
      /\ Len(pendingQueue') = Len(pendingQueue) + Cardinality(rest)
      /\ \A i \in 1 .. Len(pendingQueue') :
            pendingQueue'[i] = IF i <= Len(pendingQueue) THEN pendingQueue[i]
                               ELSE order[i - Len(pendingQueue)]
  <2>1. pendingQueue \in Seq(Task)
    BY <1>0 DEF TypeOK
  <2>2. Len(pendingQueue) \in Nat /\ pendingQueue' = pendingQueue \o order
    BY <1>3, <2>1
  <2>3. /\ pendingQueue \o order \in Seq(Task)
        /\ Len(pendingQueue \o order) = Len(pendingQueue) + Len(order)
        /\ \A i \in 1 .. Len(pendingQueue) + Len(order) : (pendingQueue \o order)[i] =
              IF i <= Len(pendingQueue) THEN pendingQueue[i] ELSE order[i - Len(pendingQueue)]
    BY <1>7, <2>1, ConcatProperties
  <2> QED
    BY <1>7, <2>1, <2>2, <2>3
<1>9. TypeOK'
  <2>1. /\ [pc |-> "fetch", wrapped |-> FALSE, attempts |-> 1] \in TaskType
        /\ [pc |-> "queued", wrapped |-> TRUE, attempts |-> 0] \in TaskType
    BY <1>0 DEF TaskType, Pcs, InFlightPcs
  <2>2. task \in [Task -> TaskType]
    BY <1>0 DEF TypeOK
  <2>3. task' \in [Task -> TaskType]
    BY <1>2, <2>1, <2>2
  <2>4. activeWorkers' \in Nat
    BY <1>0, <1>2, <1>4
  <2>5. dispatch' \in [Dispatch -> {"new", "open", "returned"}]
    BY <1>0, <1>2 DEF TypeOK
  <2> QED
    BY <1>0, <1>1, <1>8, <2>3, <2>4, <2>5 DEF TypeOK
<1>10. QueueSound'
  <2>1. \A i \in 1 .. Len(pendingQueue) :
           /\ pendingQueue[i] \in Task
           /\ task[pendingQueue[i]].pc = "queued" /\ task[pendingQueue[i]].wrapped
           /\ pendingQueue[i][1] # d
    BY <1>0, <1>5, <1>8 DEF QueueSound
  <2>2. \A i \in 1 .. Cardinality(rest) :
           order[i] \in Task /\ order[i][1] = d /\ order[i][2] \in rest
    BY <1>3 DEF Task
  <2>3. ASSUME NEW i \in 1 .. Len(pendingQueue')
        PROVE  task'[pendingQueue'[i]].pc = "queued" /\ task'[pendingQueue'[i]].wrapped
    <3>1. CASE i <= Len(pendingQueue)
      <4>1. i \in 1 .. Len(pendingQueue) /\ pendingQueue'[i] = pendingQueue[i]
        BY <1>8, <3>1
      <4>2. task'[pendingQueue'[i]] = task[pendingQueue[i]]
        BY <1>6, <2>1, <4>1
      <4> QED
        BY <2>1, <4>1, <4>2
    <3>2. CASE ~(i <= Len(pendingQueue))
      <4>1. /\ i - Len(pendingQueue) \in 1 .. Cardinality(rest)
            /\ pendingQueue'[i] = order[i - Len(pendingQueue)]
        BY <1>4, <1>8, <3>2
      <4>2. task'[pendingQueue'[i]] = [pc |-> "queued", wrapped |-> TRUE, attempts |-> 0]
        BY <1>2, <1>6, <2>2, <4>1
      <4> QED
        BY <4>2
    <3> QED
      BY <3>1, <3>2
  <2>4. ASSUME NEW i \in 1 .. Len(pendingQueue'), NEW j \in 1 .. Len(pendingQueue'),
               pendingQueue'[i] = pendingQueue'[j]
        PROVE  i = j
    <3>1. CASE i <= Len(pendingQueue) /\ j <= Len(pendingQueue)
      <4>1. i \in 1 .. Len(pendingQueue) /\ j \in 1 .. Len(pendingQueue)
        BY <1>8, <3>1
      <4> QED
        BY <1>0, <1>8, <2>4, <3>1, <4>1 DEF QueueSound
    <3>2. CASE ~(i <= Len(pendingQueue)) /\ ~(j <= Len(pendingQueue))
      <4>1. /\ i - Len(pendingQueue) \in 1 .. Cardinality(rest)
            /\ j - Len(pendingQueue) \in 1 .. Cardinality(rest)
            /\ order[i - Len(pendingQueue)] = order[j - Len(pendingQueue)]
        BY <1>4, <1>8, <2>4, <3>2
      <4>2. i - Len(pendingQueue) = j - Len(pendingQueue)
        BY <1>3, <4>1
      <4> QED
        BY <1>8, <4>2
    <3>3. CASE (i <= Len(pendingQueue)) # (j <= Len(pendingQueue))
      <4>1. \A k \in 1 .. Len(pendingQueue') :
              (pendingQueue'[k][1] = d) <=> ~(k <= Len(pendingQueue))
        <5> SUFFICES ASSUME NEW k \in 1 .. Len(pendingQueue')
                     PROVE  (pendingQueue'[k][1] = d) <=> ~(k <= Len(pendingQueue))
          OBVIOUS
        <5>1. CASE k <= Len(pendingQueue)
          <6>1. k \in 1 .. Len(pendingQueue) /\ pendingQueue'[k] = pendingQueue[k]
            BY <1>8, <5>1
          <6> QED
            BY <2>1, <5>1, <6>1
        <5>2. CASE ~(k <= Len(pendingQueue))
          <6>1. /\ k - Len(pendingQueue) \in 1 .. Cardinality(rest)
                /\ pendingQueue'[k] = order[k - Len(pendingQueue)]
            BY <1>4, <1>8, <5>2
          <6> QED
            BY <2>2, <5>2, <6>1
        <5> QED
          BY <5>1, <5>2
      <4> QED
        BY <2>4, <3>3, <4>1
    <3> QED
      BY <3>1, <3>2, <3>3
  <2> QED
    BY <2>3, <2>4 DEF QueueSound
<1>11. TasksSound'
  <2>1. \A t \in Task : TaskSound(task'[t])
    BY <1>0, <1>6 DEF TasksSound, TaskSound
  <2>2. ASSUME NEW e \in Dispatch, NEW w \in Webhook, dispatch'[e] = "new"
        PROVE  task'[<<e, w>>].pc = "new"
    <3>1. e # d /\ dispatch[e] = "new"
      BY <1>0, <1>2, <2>2 DEF TypeOK
    <3>2. task'[<<e, w>>] = task[<<e, w>>]
      BY <1>6, <3>1 DEF Task
    <3> QED
      BY <1>0, <3>1, <3>2 DEF TasksSound
  <2> QED
    BY <2>1, <2>2 DEF TasksSound
<1>12. /\ Cardinality(InFlight') = Cardinality(InFlight) + Cardinality(direct)
       /\ Cardinality(InFlight) \in Nat
  <2>1. InFlight' = InFlight \union D
    <3>1. \A t \in D : t \in Task /\ task'[t].pc = "fetch"
      BY <1>4, <1>6
    <3>2. \A t \in Task \ D :
            task'[t].pc = task[t].pc \/ (task'[t].pc = "queued" /\ task[t].pc = "new")
      BY <1>5, <1>6 DEF Task
    <3> QED
      BY <1>4, <1>5, <3>1, <3>2 DEF InFlight, InFlightPcs
  <2>2. InFlight \intersect D = {}
    BY <1>5 DEF InFlight, InFlightPcs
  <2> HIDE DEF D
  <2>3. InFlight \subseteq Task
    BY DEF InFlight
  <2> QED
    BY <1>4, <2>1, <2>2, <2>3, CountUnion, CountType
<1>13. Closures' = Closures
  BY <1>5, <1>6 DEF Closures, InFlightPcs
<1>14. CounterExact'
  <2>1. activeWorkers = Cardinality(InFlight) + Cardinality(Closures) /\ Cardinality(Closures) \in Nat
    BY <1>0, CountType DEF CounterExact, Closures
  <2> QED
    BY <1>2, <1>4, <1>12, <1>13, <2>1 DEF CounterExact
<1>15. Bounded'
  <2>1. activeWorkers = Cardinality(InFlight) + Cardinality(Closures) /\ Cardinality(Closures) \in Nat
    BY <1>0, CountType DEF CounterExact, Closures
  <2> QED
    BY <1>0, <1>2, <1>4, <1>12, <2>1 DEF Bounded, FreeSlots
<1>16. QueueHasWaker'
  <2>1. CASE rest = {}
    <3>1. Cardinality(rest) = 0
      BY <2>1, FS_EmptySet
    <3>2. Len(pendingQueue') = Len(pendingQueue)
      BY <1>8, <3>1
    <3>3. pendingQueue' # <<>> => pendingQueue # <<>>
      BY <1>8, <3>2
    <3> QED
      BY <1>0, <1>2, <1>4, <3>3 DEF QueueHasWaker
  <2>2. CASE rest # {}
    BY <1>0, <1>2, <1>4, <2>2 DEF QueueHasWaker, FreeSlots
  <2> QED
    BY <2>1, <2>2
<1>17. NoWaiterForgotten'
  <2>1. pendingQueue' = <<>> => pendingQueue = <<>>
    BY <1>4, <1>8
  <2>2. activeWorkers' = 0 => activeWorkers = 0
    BY <1>0, <1>2, <1>4
  <2> QED
    BY <1>0, <1>1, <2>1, <2>2 DEF NoWaiterForgotten, Idle
<1> QED
  BY <1>9, <1>10, <1>11, <1>14, <1>15, <1>16, <1>17 DEF Inv

LEMMA InvStep == Inv /\ [Next]_vars => Inv'
<1> SUFFICES ASSUME Inv, [Next]_vars PROVE Inv'
  OBVIOUS
<1> USE DEF Inv
<1>1. ASSUME NEW d \in Dispatch, DispatchWebhook(d) PROVE Inv'
  BY <1>1, DispatchSound
<1>2. ASSUME NEW d \in Dispatch, Return(d) PROVE Inv'
  <2>1. TypeOK' /\ TasksSound'
    BY <1>2 DEF Return, TypeOK, TasksSound
  <2>2. /\ QueueSound' /\ CounterExact' /\ QueueHasWaker' /\ NoWaiterForgotten' /\ Bounded'
    BY <1>2 DEF Return, QueueSound, CounterExact, QueueHasWaker, NoWaiterForgotten,
                Idle, Bounded, InFlight, Closures
  <2> QED
    BY <2>1, <2>2
<1>3. ASSUME NEW t \in Task, Work(t) PROVE Inv'
  BY <1>3, WorkSound
<1>4. ASSUME NEW x \in Waiter, WaitForWebhooks(x) PROVE Inv'
  <2>1. TypeOK' /\ NoWaiterForgotten'
    BY <1>4 DEF WaitForWebhooks, TypeOK, NoWaiterForgotten, Idle
  <2>2. /\ QueueSound' /\ CounterExact' /\ QueueHasWaker' /\ TasksSound' /\ Bounded'
    BY <1>4 DEF WaitForWebhooks, QueueSound, CounterExact, QueueHasWaker, TasksSound,
                Bounded, InFlight, Closures
  <2> QED
    BY <2>1, <2>2
<1>5. CASE UNCHANGED vars
  BY <1>5 DEF vars, TypeOK, QueueSound, TasksSound, CounterExact, QueueHasWaker,
              NoWaiterForgotten, Idle, Bounded, InFlight, Closures
<1> QED
  BY <1>1, <1>2, <1>3, <1>4, <1>5 DEF Next

-----------------------------------------------------------------------------
(* Theorems.                                                               *)

\* The counters, tasks and results keep their types.
THEOREM DispatcherTypes == Spec => []TypeOK
<1>1. Inv => TypeOK
  BY DEF Inv
<1> QED
  BY <1>1, InvInit, InvStep, PTL DEF Spec

\* activeWorkers is exact: no slot leaks and none is given twice.
THEOREM CounterCorrect == Spec => []CounterExact
<1>1. Inv => CounterExact
  BY DEF Inv
<1> QED
  BY <1>1, InvInit, InvStep, PTL DEF Spec

\* The queue is never left without a worker that will look at it.
THEOREM QueueWoken == Spec => []QueueHasWaker
<1>1. Inv => QueueHasWaker
  BY DEF Inv
<1> QED
  BY <1>1, InvInit, InvStep, PTL DEF Spec

\* No call of waitForWebhooks waits for work that is already over.
THEOREM WaitersSound == Spec => []NoWaiterForgotten
<1>1. Inv => NoWaiterForgotten
  BY DEF Inv
<1> QED
  BY <1>1, InvInit, InvStep, PTL DEF Spec

\* At any limit, counting queued tasks twice costs at most half of the slots.
THEOREM HalfCorrect == Spec => []HalfTheSlotsBusy
<1>1. Inv => HalfTheSlotsBusy
  <2> SUFFICES ASSUME Inv, pendingQueue # <<>>,
                      \A t \in Task : task[t].pc \notin {"returned", "resolved"}
               PROVE  2 * Cardinality(InFlight) >= MaxConcurrent
    BY DEF HalfTheSlotsBusy
  <2>1. Closures \subseteq InFlight
    BY DEF Closures, InFlight
  <2>2. /\ Cardinality(Closures) <= Cardinality(InFlight)
        /\ Cardinality(InFlight) \in Nat /\ Cardinality(Closures) \in Nat
    BY <2>1, CountType, FS_Subset DEF Closures, InFlight
  <2>3. /\ activeWorkers = Cardinality(InFlight) + Cardinality(Closures)
        /\ activeWorkers >= MaxConcurrent
    BY DEF Inv, CounterExact, QueueHasWaker
  <2> QED
    BY <2>2, <2>3, DispatcherAssumption
<1> QED
  BY <1>1, InvInit, InvStep, PTL DEF Spec

-----------------------------------------------------------------------------
(* The dispatcher is a pool of workers.                                    *)

Waiting == {t \in Task : task[t].pc = "queued"}
Ended == {t \in Task : task[t].pc \in {"returned", "resolved", "done"}}

\* scheduleNext is called by a worker or closure that activeWorkers counts, ...
LEMMA EndCounted ==
  ASSUME Inv, NEW t \in Task, task[t].pc \in {"log", "resolved"}
  PROVE  activeWorkers - 1 \in Nat
<1>1. t \in InFlight \/ t \in Closures
  BY DEF InFlight, InFlightPcs, Closures, Inv, TasksSound, TaskSound
<1>2. /\ Cardinality(InFlight) \in Nat /\ Cardinality(Closures) \in Nat
      /\ Cardinality(InFlight) # 0 \/ Cardinality(Closures) # 0
  BY <1>1, CountEmpty, CountType DEF InFlight, Closures
<1> QED
  BY <1>2 DEF Inv, CounterExact

\* ... and takes a task that waits.
LEMMA HeadWaits ==
  ASSUME Inv, pendingQueue # <<>>
  PROVE  Head(pendingQueue) \in Task /\ task[Head(pendingQueue)].pc = "queued"
<1>1. pendingQueue \in Seq(Task)
  BY DEF Inv, TypeOK
<1>2. Head(pendingQueue) \in Task /\ Head(pendingQueue) = pendingQueue[1]
      /\ 1 \in 1 .. Len(pendingQueue)
  BY <1>1, HeadTailProperties
<1> QED
  BY <1>2 DEF Inv, QueueSound

\* What scheduleNext does to the pool: it begins a task that waits, or nothing.
LEMMA ScheduleNextBegins ==
  ASSUME Inv, NEW now \in Nat, NEW tasks \in [Task -> TaskType],
         ScheduleNext(now, tasks),
         pendingQueue # <<>> => tasks[Head(pendingQueue)].pc = "queued"
  PROVE  \/ task' = tasks
         \/ \E h \in Task :
              /\ tasks[h].pc = "queued" /\ task[h].pc = "queued"
              /\ task'[h].pc = "fetch"
              /\ \A u \in Task \ {h} : task'[u] = tasks[u]
<1>1. CASE ~(pendingQueue # <<>> /\ now < MaxConcurrent)
  BY <1>1 DEF ScheduleNext
<1>2. CASE pendingQueue # <<>> /\ now < MaxConcurrent
  <2>1. pendingQueue \in Seq(Task) /\ QueueSound
    BY DEF Inv, TypeOK
  <2>2. Head(pendingQueue) \in Task /\ Head(pendingQueue) = pendingQueue[1]
        /\ 1 \in 1 .. Len(pendingQueue)
    BY <1>2, <2>1, HeadTailProperties
  <2>3. task[Head(pendingQueue)].pc = "queued"
    BY <2>1, <2>2 DEF QueueSound
  <2>4. task' = [tasks EXCEPT ![Head(pendingQueue)].pc = "fetch",
                              ![Head(pendingQueue)].attempts = 1]
    BY <1>2 DEF ScheduleNext
  <2>5. /\ task'[Head(pendingQueue)].pc = "fetch"
        /\ \A u \in Task \ {Head(pendingQueue)} : task'[u] = tasks[u]
    BY <2>2, <2>4 DEF TaskType
  <2> QED
    BY <1>2, <2>2, <2>3, <2>5
<1> QED
  BY <1>1, <1>2

LEMMA PoolStep ==
  ASSUME Inv, Inv', [Next]_vars
  PROVE  [Pool!Next]_(Pool!poolVars)
<1> DEFINE Stutter == Waiting' = Waiting /\ InFlight' = InFlight /\ Ended' = Ended
<1> USE DEF Waiting, Ended
<1>0. Cardinality(InFlight') <= MaxConcurrent
  BY DEF Inv, Bounded
<1>1. Stutter => [Pool!Next]_(Pool!poolVars)
  BY DEF Pool!poolVars
<1>2. ASSUME NEW d \in Dispatch, DispatchWebhook(d) PROVE Pool!Submit
  <2>1. PICK direct \in SUBSET Webhook, rest \in SUBSET Webhook :
          /\ direct \intersect rest = {}
          /\ task' = [t \in Task |->
              IF t[1] = d /\ t[2] \in direct
              THEN [pc |-> "fetch", wrapped |-> FALSE, attempts |-> 1]
              ELSE IF t[1] = d /\ t[2] \in rest
              THEN [pc |-> "queued", wrapped |-> TRUE, attempts |-> 0]
              ELSE task[t]]
    BY <1>2 DEF DispatchWebhook
  <2> DEFINE begun == {d} \X direct
             held == {d} \X rest
  <2>2. \A t \in Task : t[1] = d => task[t].pc = "new"
    BY <1>2 DEF DispatchWebhook, Inv, TasksSound, Task
  <2>3. /\ begun \subseteq Task /\ held \subseteq Task /\ begun \intersect held = {}
        /\ \A t \in begun : task'[t].pc = "fetch" /\ task[t].pc = "new"
        /\ \A t \in held : task'[t].pc = "queued" /\ task[t].pc = "new"
        /\ \A t \in Task \ (begun \union held) : task'[t] = task[t]
    BY <2>1, <2>2 DEF Task
  <2> HIDE DEF begun, held
  <2>4. InFlight' = InFlight \union begun
    BY <2>3 DEF InFlight, InFlightPcs
  <2>5. Waiting' = Waiting \union held
    BY <2>3
  <2>6. Ended' = Ended
    BY <2>3
  <2>7. /\ begun \in SUBSET (Task \ (Waiting \union InFlight \union Ended))
        /\ held \in SUBSET (Task \ (Waiting \union InFlight \union Ended))
    BY <2>3 DEF InFlight, InFlightPcs
  <2> QED
    BY <2>3, <2>4, <2>5, <2>6, <2>7 DEF Pool!Submit
<1>3. ASSUME NEW t \in Task, Delivered(t) \/ Refused(t) \/ Awake(t) \/ Resolve(t)
      PROVE  Stutter
  <2>1. task \in [Task -> TaskType]
    BY DEF Inv, TypeOK
  <2>2. \/ task[t].pc \in InFlightPcs /\ task'[t].pc \in InFlightPcs
        \/ task[t].pc = "returned" /\ task'[t].pc = "resolved"
    BY <1>3, <2>1 DEF Delivered, Refused, Awake, Resolve, Report, InFlightPcs, TaskType
  <2>3. \A u \in Task \ {t} : task'[u] = task[u]
    BY <1>3, <2>1 DEF Delivered, Refused, Awake, Resolve, Report
  <2> QED
    BY <2>2, <2>3 DEF InFlight, InFlightPcs
<1>4. ASSUME NEW t \in Task, Logged(t) PROVE Pool!End(t)
  <2> DEFINE over == IF task[t].wrapped THEN "returned" ELSE "done"
             tasks == [task EXCEPT ![t].pc = over]
  <2>1. task \in [Task -> TaskType] /\ task[t].pc = "log" /\ QueueSound
        /\ pendingQueue \in Seq(Task)
    BY <1>4 DEF Inv, TypeOK, Logged
  <2>2. over \in {"returned", "done"} /\ over \in Pcs
    BY DEF Pcs
  <2>3. tasks \in [Task -> TaskType] /\ tasks[t].pc = over
        /\ \A u \in Task \ {t} : tasks[u] = task[u]
    BY <2>1, <2>2 DEF TaskType
  <2>4. ScheduleNext(activeWorkers - 1, tasks)
    BY <1>4 DEF Logged
  <2>5. activeWorkers - 1 \in Nat
    BY <2>1, EndCounted
  <2>6. pendingQueue # <<>> => tasks[Head(pendingQueue)].pc = "queued"
    BY <2>1, <2>3, HeadWaits
  <2> HIDE DEF over, tasks
  <2>7. \/ task' = tasks
        \/ \E h \in Task :
              /\ tasks[h].pc = "queued" /\ task[h].pc = "queued"
              /\ task'[h].pc = "fetch"
              /\ \A u \in Task \ {h} : task'[u] = tasks[u]
    BY <2>3, <2>4, <2>5, <2>6, ScheduleNextBegins
  <2>8. t \in InFlight
    BY <2>1 DEF InFlight, InFlightPcs
  <2>9. CASE task' = tasks
    <3>1. /\ Waiting' = Waiting /\ InFlight' = InFlight \ {t} /\ Ended' = Ended \union {t}
      BY <2>1, <2>2, <2>3, <2>9 DEF InFlight, InFlightPcs
    <3> QED
      BY <2>8, <3>1 DEF Pool!End
  <2>10. ASSUME NEW h \in Task, tasks[h].pc = "queued", task[h].pc = "queued",
                task'[h].pc = "fetch", \A u \in Task \ {h} : task'[u] = tasks[u]
         PROVE  Pool!End(t)
    <3>1. h # t /\ h \in Waiting
      BY <2>1, <2>10
    <3>2. task'[t].pc = over /\ \A u \in Task \ {h, t} : task'[u] = task[u]
      BY <2>3, <2>10, <3>1
    <3>3. Waiting' = Waiting \ {h}
      BY <2>1, <2>2, <2>10, <3>2
    <3>4. InFlight' = (InFlight \ {t}) \union {h}
      BY <2>1, <2>2, <2>10, <3>2 DEF InFlight, InFlightPcs
    <3>5. Ended' = Ended \union {t}
      BY <2>1, <2>2, <2>10, <3>2
    <3> QED
      BY <2>8, <3>1, <3>3, <3>4, <3>5 DEF Pool!End
  <2> QED
    BY <2>7, <2>9, <2>10
<1>5. ASSUME NEW t \in Task, CloseClosure(t)
      PROVE  Stutter \/ \E h \in Task : Pool!Begin(h)
  <2> DEFINE tasks == [task EXCEPT ![t].pc = "done"]
  <2>1. task \in [Task -> TaskType] /\ task[t].pc = "resolved" /\ QueueSound
        /\ pendingQueue \in Seq(Task) /\ TaskSound(task[t])
    BY <1>5 DEF Inv, TypeOK, TasksSound, CloseClosure
  <2>2. tasks \in [Task -> TaskType] /\ tasks[t].pc = "done"
        /\ \A u \in Task \ {t} : tasks[u] = task[u]
    BY <2>1 DEF TaskType, Pcs
  <2>3. ScheduleNext(activeWorkers - 1, tasks)
    BY <1>5 DEF CloseClosure
  <2>4. activeWorkers - 1 \in Nat
    BY <2>1, EndCounted
  <2>5. pendingQueue # <<>> => tasks[Head(pendingQueue)].pc = "queued"
    BY <2>1, <2>2, HeadWaits
  <2> HIDE DEF tasks
  <2>6. \/ task' = tasks
        \/ \E h \in Task :
              /\ tasks[h].pc = "queued" /\ task[h].pc = "queued"
              /\ task'[h].pc = "fetch"
              /\ \A u \in Task \ {h} : task'[u] = tasks[u]
    BY <2>2, <2>3, <2>4, <2>5, ScheduleNextBegins
  <2>7. CASE task' = tasks
    BY <2>1, <2>2, <2>7 DEF InFlight, InFlightPcs
  <2>8. ASSUME NEW h \in Task, tasks[h].pc = "queued", task[h].pc = "queued",
               task'[h].pc = "fetch", \A u \in Task \ {h} : task'[u] = tasks[u]
        PROVE  Pool!Begin(h)
    <3>1. h # t /\ h \in Waiting
      BY <2>1, <2>8
    <3>2. task'[t].pc = "done" /\ \A u \in Task \ {h, t} : task'[u] = task[u]
      BY <2>2, <2>8, <3>1
    <3>3. Waiting' = Waiting \ {h}
      BY <2>1, <2>8, <3>2
    <3>4. InFlight' = InFlight \union {h}
      BY <2>1, <2>8, <3>2 DEF InFlight, InFlightPcs
    <3>5. Ended' = Ended
      BY <2>1, <2>8, <3>2
    <3> QED
      BY <3>1, <3>3, <3>4, <3>5 DEF Pool!Begin
  <2> QED
    BY <2>6, <2>7, <2>8
<1>6. CASE \/ \E d \in Dispatch : Return(d)
           \/ \E x \in Waiter : WaitForWebhooks(x)
           \/ UNCHANGED vars
  <2>1. task' = task
    BY <1>6 DEF Return, WaitForWebhooks, vars
  <2>2. Stutter
    BY <2>1 DEF InFlight
  <2> QED
    BY <1>1, <2>2
<1> HIDE DEF Stutter
<1>7. (Pool!Submit \/ \E t \in Task : Pool!Begin(t) \/ Pool!End(t)) => Pool!Next
  BY <1>0 DEF Pool!Next, Pool!Cardinality, Cardinality
<1> QED
  BY <1>1, <1>2, <1>3, <1>4, <1>5, <1>6, <1>7 DEF Next, Work

\* The dispatcher implements the pool: whatever is asked for when, at most
\* MAX_CONCURRENT deliveries are in flight, and none is begun twice or lost.
THEOREM PoolImplemented == Spec => PoolSpec
<1>1. Init => Pool!Init
  BY DEF Init, Pool!Init, InFlight, InFlightPcs
<1> QED
  BY <1>1, InvInit, InvStep, PoolStep, PTL DEF Spec, PoolSpec, Pool!Spec

-----------------------------------------------------------------------------
(* Complete results, and waiters released in time.                          *)

\* A task has its one result from its report on, and none before; no call has
\* returned before its tasks are over; and every task that waits is in the queue.
Reported(t) ==
    \E r \in results[t[1]] :
        /\ r.webhookId = t[2]
        /\ \A s \in results[t[1]] : s.webhookId = t[2] => s = r
        /\ ~r.success => r.attempts = MaxRetries
Unreported(t) == \A r \in results[t[1]] : r.webhookId # t[2]
BeforeReport == {"new", "queued", "fetch", "sleep"}

ReportsSound ==
    \A t \in Task : IF task[t].pc \in BeforeReport THEN Unreported(t) ELSE Reported(t)
ReturnedOver ==
    \A t \in Task : dispatch[t[1]] = "returned" => task[t].pc \in {"new", "resolved", "done"}

InQueue(t) == \E i \in 1 .. Len(pendingQueue) : pendingQueue[i] = t
QueueHolds == \A t \in Task : task[t].pc = "queued" => InQueue(t)

Complete == ReportsSound /\ ReturnedOver /\ QueueHolds

\* What a step does to the progress of a task, ...
Moves(t) ==
    \/ task'[t].pc = task[t].pc
    \/ task[t].pc = "new" /\ dispatch[t[1]] = "new" /\ task'[t].pc \in {"fetch", "queued"}
    \/ <<task[t].pc, task'[t].pc>> \in
         {<<"queued", "fetch">>, <<"fetch", "sleep">>, <<"sleep", "fetch">>,
          <<"log", "returned">>, <<"log", "done">>, <<"returned", "resolved">>,
          <<"resolved", "done">>}
\* ... to its results, ...
ResultsKept(t) ==
    \A r \in ResultType :
        r.webhookId = t[2] => (r \in results'[t[1]] <=> r \in results[t[1]])
Reports(t) ==
    /\ task[t].pc = "fetch" /\ task'[t].pc = "log"
    /\ \E success \in BOOLEAN :
         /\ success \/ task[t].attempts = MaxRetries
         /\ results'[t[1]] = results[t[1]] \union
              {[webhookId |-> t[2], success |-> success, attempts |-> task[t].attempts]}
\* ... and to its place in the queue.
PlaceKept(t) ==
    task'[t].pc = "queued" => (task[t].pc = "queued" /\ ~InQueue(t)) \/ InQueue(t)'
TaskChanges(t) == ((Moves(t) /\ ResultsKept(t)) \/ Reports(t)) /\ PlaceKept(t)

LEMMA ScheduleNextKeeps ==
  ASSUME Inv, NEW now \in Nat, NEW tasks \in [Task -> TaskType],
         ScheduleNext(now, tasks),
         pendingQueue # <<>> => tasks[Head(pendingQueue)].pc = "queued",
         NEW t \in Task
  PROVE  /\ \/ task'[t].pc = tasks[t].pc
            \/ tasks[t].pc = "queued" /\ task'[t].pc = "fetch"
         /\ task'[t].pc = "queued" /\ InQueue(t) => InQueue(t)'
<1>1. CASE ~(pendingQueue # <<>> /\ now < MaxConcurrent)
  BY <1>1 DEF ScheduleNext, InQueue
<1>2. CASE pendingQueue # <<>> /\ now < MaxConcurrent
  <2> DEFINE h == Head(pendingQueue)
  <2>1. /\ pendingQueue' = Tail(pendingQueue)
        /\ task' = [tasks EXCEPT ![h].pc = "fetch", ![h].attempts = 1]
    BY <1>2 DEF ScheduleNext
  <2>2. /\ h \in Task /\ h = pendingQueue[1] /\ Len(pendingQueue) \in Nat \ {0}
        /\ Len(pendingQueue') = Len(pendingQueue) - 1
        /\ \A i \in 1 .. Len(pendingQueue') : pendingQueue'[i] = pendingQueue[i + 1]
    BY <1>2, <2>1, HeadTailProperties DEF Inv, TypeOK
  <2>3. tasks[h].pc = "queued"
    BY <1>2
  <2> HIDE DEF h
  <2>4. task'[h].pc = "fetch" /\ \A u \in Task : u # h => task'[u] = tasks[u]
    BY <2>1, <2>2 DEF TaskType
  <2>5. ASSUME t # h, InQueue(t) PROVE InQueue(t)'
    <3>1. PICK i \in 1 .. Len(pendingQueue) : pendingQueue[i] = t
      BY <2>5 DEF InQueue
    <3>2. i # 1 /\ i - 1 \in 1 .. Len(pendingQueue') /\ i - 1 + 1 = i
      BY <2>2, <2>5, <3>1
    <3>3. pendingQueue'[i - 1] = t
      BY <2>2, <3>1, <3>2
    <3> QED
      BY <3>2, <3>3 DEF InQueue
  <2> QED
    BY <2>3, <2>4, <2>5
<1> QED
  BY <1>1, <1>2

\* dispatchWebhook puts every task that it does not begin into the queue.
LEMMA DispatchChanges ==
  ASSUME Inv, NEW d \in Dispatch, DispatchWebhook(d), NEW t \in Task
  PROVE  TaskChanges(t)
<1>1. PICK direct \in SUBSET Webhook, rest \in SUBSET Webhook :
        /\ direct \intersect rest = {}
        /\ \E order \in [1 .. Cardinality(rest) -> {<<d, w>> : w \in rest}] :
             /\ \A i, j \in DOMAIN order : order[i] = order[j] => i = j
             /\ pendingQueue' = pendingQueue \o order
        /\ task' = [u \in Task |->
             IF u[1] = d /\ u[2] \in direct
             THEN [pc |-> "fetch", wrapped |-> FALSE, attempts |-> 1]
             ELSE IF u[1] = d /\ u[2] \in rest
             THEN [pc |-> "queued", wrapped |-> TRUE, attempts |-> 0]
             ELSE task[u]]
  BY DEF DispatchWebhook
<1> DEFINE held == {d} \X rest
<1>2. PICK order \in [1 .. Cardinality(rest) -> held] :
        /\ \A i, j \in 1 .. Cardinality(rest) : order[i] = order[j] => i = j
        /\ pendingQueue' = pendingQueue \o order
  <2>1. {<<d, w>> : w \in rest} = held
    OBVIOUS
  <2> QED
    BY <1>1, <2>1
<1>3. /\ held \in SUBSET Task /\ Cardinality(held) = Cardinality(rest)
      /\ Cardinality(rest) \in Nat
  BY CountCall
<1>4. order \in Seq(Task) /\ Len(order) = Cardinality(rest) /\ pendingQueue \in Seq(Task)
  <2>1. order \in [1 .. Cardinality(rest) -> Task]
    BY <1>3
  <2> HIDE DEF held
  <2>2. order \in Seq(Task)
    BY <1>3, <2>1, SeqDef
  <2> QED
    BY <1>3, <2>1, <2>2, LenProperties DEF Inv, TypeOK
<1>5. \A u \in held : \E i \in 1 .. Cardinality(rest) : order[i] = u
  <2> DEFINE I == 1 .. Cardinality(rest)
  <2>1. IsFiniteSet(held) /\ IsFiniteSet(I) /\ Cardinality(I) = Cardinality(held)
    BY <1>3, CountType, FS_Interval
  <2>2. order \in Injection(I, held)
    BY <1>2 DEF Injection, IsInjective
  <2> HIDE DEF held, I
  <2>3. order \in Surjection(I, held)
    BY <2>1, <2>2, FS_Injection
  <2> QED
    BY <2>3 DEF Surjection, I
<1>6. /\ Len(pendingQueue') = Len(pendingQueue) + Cardinality(rest)
      /\ \A i \in 1 .. Len(pendingQueue) : pendingQueue'[i] = pendingQueue[i]
      /\ \A i \in 1 .. Cardinality(rest) : pendingQueue'[i + Len(pendingQueue)] = order[i]
      /\ Len(pendingQueue) \in Nat
  <2>1. Len(pendingQueue) \in Nat
    BY <1>4, LenProperties
  <2>2. /\ Len(pendingQueue \o order) = Len(pendingQueue) + Len(order)
        /\ \A i \in 1 .. Len(pendingQueue) + Len(order) : (pendingQueue \o order)[i] =
             IF i <= Len(pendingQueue) THEN pendingQueue[i] ELSE order[i - Len(pendingQueue)]
    BY <1>4, ConcatProperties
  <2>3. /\ Len(pendingQueue') = Len(pendingQueue) + Cardinality(rest)
        /\ \A i \in 1 .. Len(pendingQueue) + Cardinality(rest) : pendingQueue'[i] =
             IF i <= Len(pendingQueue) THEN pendingQueue[i] ELSE order[i - Len(pendingQueue)]
    BY <1>2, <1>4, <2>2
  <2>4. \A i \in 1 .. Len(pendingQueue) : pendingQueue'[i] = pendingQueue[i]
    BY <1>3, <2>1, <2>3
  <2>5. ASSUME NEW i \in 1 .. Cardinality(rest)
        PROVE  pendingQueue'[i + Len(pendingQueue)] = order[i]
    <3>1. /\ i + Len(pendingQueue) \in 1 .. Len(pendingQueue) + Cardinality(rest)
          /\ ~(i + Len(pendingQueue) <= Len(pendingQueue))
          /\ i + Len(pendingQueue) - Len(pendingQueue) = i
      BY <1>3, <2>1
    <3> QED
      BY <2>3, <3>1
  <2> QED
    BY <2>1, <2>3, <2>4, <2>5
<1>7. results' = results /\ dispatch[d] = "new"
  BY DEF DispatchWebhook
<1>8. t[1] \in Dispatch /\ t[2] \in Webhook /\ t = <<t[1], t[2]>>
  BY DEF Task
<1>9. ResultsKept(t)
  BY <1>7 DEF ResultsKept
<1>10. t[1] = d => task[t].pc = "new"
  BY <1>7, <1>8 DEF Inv, TasksSound
<1>11. InQueue(t) => InQueue(t)'
  <2> SUFFICES ASSUME NEW i \in 1 .. Len(pendingQueue), pendingQueue[i] = t PROVE InQueue(t)'
    BY DEF InQueue
  <2>1. i \in 1 .. Len(pendingQueue') /\ pendingQueue'[i] = t
    BY <1>3, <1>6
  <2> QED
    BY <2>1 DEF InQueue
<1>12. CASE t \in held
  <2>1. task[t].pc = "new" /\ t[1] = d /\ t[2] \in rest /\ t[2] \notin direct
    BY <1>1, <1>10, <1>12
  <2>2. task'[t].pc = "queued"
    BY <1>1, <2>1
  <2>3. PICK i \in 1 .. Cardinality(rest) : order[i] = t
    BY <1>5, <1>12
  <2>4. /\ i + Len(pendingQueue) \in 1 .. Len(pendingQueue')
        /\ pendingQueue'[i + Len(pendingQueue)] = t
    BY <1>3, <1>6, <2>3
  <2>5. InQueue(t)'
    BY <2>4 DEF InQueue
  <2>6. Moves(t)
    BY <1>7, <2>1, <2>2 DEF Moves
  <2> QED
    BY <1>9, <2>5, <2>6 DEF TaskChanges, PlaceKept
<1>13. CASE t \notin held
  <2>1. \/ task'[t] = task[t]
        \/ t[1] = d /\ task[t].pc = "new" /\ task'[t].pc = "fetch"
    BY <1>1, <1>8, <1>10, <1>13
  <2>2. Moves(t)
    BY <1>7, <2>1 DEF Moves
  <2>3. PlaceKept(t)
    BY <1>11, <2>1 DEF PlaceKept
  <2> QED
    BY <1>9, <2>2, <2>3 DEF TaskChanges
<1> QED
  BY <1>12, <1>13

LEMMA WorkChanges ==
  ASSUME Inv, NEW u \in Task, Work(u), NEW t \in Task
  PROVE  TaskChanges(t) /\ dispatch' = dispatch
<1>0. /\ task \in [Task -> TaskType] /\ task[u].pc \in Pcs
      /\ results \in [Dispatch -> SUBSET ResultType]
      /\ pendingQueue \in Seq(Task) /\ QueueSound /\ TaskSound(task[u])
      /\ task[u].attempts \in 0 .. MaxRetries
  BY DEF Inv, TypeOK, TasksSound, TaskType
<1>1. t[1] \in Dispatch /\ t[2] \in Webhook /\ t = <<t[1], t[2]>>
      /\ u[1] \in Dispatch /\ u[2] \in Webhook /\ u = <<u[1], u[2]>>
  BY DEF Task
<1>2. ASSUME NEW success \in BOOLEAN, success \/ task[u].attempts = MaxRetries,
             task[u].pc = "fetch", Report(u, success), pendingQueue' = pendingQueue
      PROVE  TaskChanges(t)
  <2> DEFINE new == [webhookId |-> u[2], success |-> success, attempts |-> task[u].attempts]
  <2>1. /\ results' = [results EXCEPT ![u[1]] = @ \union {new}]
        /\ task' = [task EXCEPT ![u].pc = "log"]
    BY <1>2 DEF Report
  <2>2. new.webhookId = u[2]
    OBVIOUS
  <2>3. CASE t = u
    <3>1. results'[t[1]] = results[t[1]] \union {new}
      BY <1>0, <1>1, <2>1, <2>3
    <3>2. task'[t].pc = "log"
      BY <1>0, <2>1, <2>3 DEF TaskType
    <3> QED
      BY <1>2, <2>3, <3>1, <3>2 DEF TaskChanges, Reports, PlaceKept
  <2>4. CASE t # u
    <3>1. task'[t] = task[t]
      BY <1>0, <2>1, <2>4
    <3>2. ResultsKept(t)
      <4>1. CASE t[1] # u[1]
        BY <1>0, <1>1, <2>1, <4>1 DEF ResultsKept
      <4>2. CASE t[1] = u[1]
        <5>1. t[2] # u[2]
          BY <1>1, <2>4, <4>2
        <5>2. results'[t[1]] = results[t[1]] \union {new}
          BY <1>0, <1>1, <2>1, <4>2
        <5> HIDE DEF new
        <5> QED
          BY <2>2, <5>1, <5>2 DEF ResultsKept
      <4> QED
        BY <4>1, <4>2
    <3> QED
      BY <1>2, <3>1, <3>2 DEF TaskChanges, Moves, PlaceKept, InQueue
  <2> QED
    BY <2>3, <2>4
<1>3. CASE Delivered(u)
  BY <1>2, <1>3 DEF Delivered
<1>4. CASE Refused(u)
  <2>1. CASE task[u].attempts < MaxRetries
    <3>1. task[u].pc = "fetch" /\ task' = [task EXCEPT ![u].pc = "sleep"] /\ results' = results
          /\ pendingQueue' = pendingQueue /\ dispatch' = dispatch
      BY <1>4, <2>1 DEF Refused
    <3> QED
      BY <1>0, <3>1 DEF TaskChanges, Moves, ResultsKept, PlaceKept, InQueue, TaskType
  <2>2. CASE ~(task[u].attempts < MaxRetries)
    <3>1. task[u].attempts = MaxRetries
      BY <1>0, <2>2, DispatcherAssumption
    <3> QED
      BY <1>2, <1>4, <2>2, <3>1 DEF Refused
  <2> QED
    BY <2>1, <2>2
<1>5. CASE Awake(u)
  <2>1. task[u].pc = "sleep" /\ results' = results /\ pendingQueue' = pendingQueue
        /\ dispatch' = dispatch
        /\ task' = [task EXCEPT ![u].pc = "fetch", ![u].attempts = @ + 1]
    BY <1>5 DEF Awake
  <2>2. task'[u].pc = "fetch" /\ \A s \in Task \ {u} : task'[s] = task[s]
    BY <1>0, <2>1 DEF TaskType
  <2> QED
    BY <1>0, <2>1, <2>2 DEF TaskChanges, Moves, ResultsKept, PlaceKept, InQueue
<1>6. CASE Resolve(u)
  BY <1>0, <1>6 DEF Resolve, TaskChanges, Moves, ResultsKept, PlaceKept, InQueue, TaskType
<1>7. CASE Logged(u) \/ CloseClosure(u)
  <2>1. PICK over \in {"returned", "done"} :
          /\ ScheduleNext(activeWorkers - 1, [task EXCEPT ![u].pc = over])
          /\ task[u].pc = "log" \/ (task[u].pc = "resolved" /\ over = "done")
    BY <1>7 DEF Logged, CloseClosure
  <2> DEFINE tasks == [task EXCEPT ![u].pc = over]
  <2>2. tasks \in [Task -> TaskType] /\ tasks[u].pc = over
        /\ \A s \in Task : s # u => tasks[s] = task[s]
    BY <1>0 DEF TaskType, Pcs
  <2>3. activeWorkers - 1 \in Nat
    BY <2>1, EndCounted
  <2>4. pendingQueue # <<>> => tasks[Head(pendingQueue)].pc = "queued"
    BY <2>1, <2>2, HeadWaits
  <2>5. results' = results /\ dispatch' = dispatch
    BY <1>7 DEF Logged, CloseClosure
  <2>6. ScheduleNext(activeWorkers - 1, tasks)
    BY <2>1
  <2> HIDE DEF tasks
  <2>7. /\ \/ task'[t].pc = tasks[t].pc
           \/ tasks[t].pc = "queued" /\ task'[t].pc = "fetch"
        /\ task'[t].pc = "queued" /\ InQueue(t) => InQueue(t)'
    BY <2>2, <2>3, <2>4, <2>6, ScheduleNextKeeps
  <2>8. tasks[t].pc = IF t = u THEN over ELSE task[t].pc
    BY <2>2
  <2>9. Moves(t)
    BY <2>1, <2>7, <2>8 DEF Moves
  <2>10. PlaceKept(t)
    BY <2>1, <2>7, <2>8 DEF PlaceKept
  <2> QED
    BY <2>5, <2>9, <2>10 DEF TaskChanges, ResultsKept
<1> QED
  <2>1. dispatch' = dispatch
    BY DEF Work, Delivered, Refused, Awake, Resolve, Logged, CloseClosure
  <2>2. pendingQueue' = pendingQueue \/ Logged(u) \/ CloseClosure(u)
    BY DEF Work, Delivered, Refused, Awake, Resolve
  <2> QED
    BY <1>3, <1>4, <1>5, <1>6, <1>7, <2>1 DEF Work

LEMMA CompleteStep ==
  ASSUME Inv, Inv', Complete, [Next]_vars
  PROVE  Complete'
<1>0. \A t \in Task : TaskChanges(t)
  <2>1. CASE \/ \E d \in Dispatch : Return(d)
             \/ \E x \in Waiter : WaitForWebhooks(x)
             \/ UNCHANGED vars
    <3>1. task' = task /\ results' = results /\ pendingQueue' = pendingQueue
      BY <2>1 DEF Return, WaitForWebhooks, vars
    <3> QED
      BY <3>1 DEF TaskChanges, Moves, ResultsKept, PlaceKept, InQueue
  <2> QED
    BY <2>1, DispatchChanges, WorkChanges DEF Next
<1>1. ReportsSound'
  <2> SUFFICES ASSUME NEW t \in Task
               PROVE  IF task'[t].pc \in BeforeReport THEN Unreported(t)' ELSE Reported(t)'
    BY DEF ReportsSound
  <2>0. /\ t[1] \in Dispatch /\ t[2] \in Webhook
        /\ results[t[1]] \subseteq ResultType /\ results'[t[1]] \subseteq ResultType
    BY DEF Inv, TypeOK, Task
  <2>1. IF task[t].pc \in BeforeReport THEN Unreported(t) ELSE Reported(t)
    BY DEF Complete, ReportsSound
  <2>2. CASE Moves(t) /\ ResultsKept(t)
    <3>1. task'[t].pc \in BeforeReport <=> task[t].pc \in BeforeReport
      BY <2>2 DEF Moves, BeforeReport
    <3>2. Unreported(t) => Unreported(t)'
      BY <2>0, <2>2 DEF ResultsKept, Unreported
    <3>3. Reported(t) => Reported(t)'
      BY <2>0, <2>2 DEF ResultsKept, Reported
    <3> QED
      BY <2>1, <3>1, <3>2, <3>3
  <2>3. CASE Reports(t)
    <3>1. Unreported(t) /\ task'[t].pc \notin BeforeReport
      BY <2>1, <2>3 DEF Reports, BeforeReport
    <3>2. PICK success \in BOOLEAN :
            /\ success \/ task[t].attempts = MaxRetries
            /\ results'[t[1]] = results[t[1]] \union
                 {[webhookId |-> t[2], success |-> success, attempts |-> task[t].attempts]}
      BY <2>3 DEF Reports
    <3> DEFINE new == [webhookId |-> t[2], success |-> success, attempts |-> task[t].attempts]
    <3>3. new.webhookId = t[2] /\ (~new.success => new.attempts = MaxRetries)
      BY <3>2
    <3>4. results'[t[1]] = results[t[1]] \union {new}
      BY <3>2
    <3> HIDE DEF new
    <3>5. Reported(t)'
      BY <3>1, <3>3, <3>4 DEF Reported, Unreported
    <3> QED
      BY <3>1, <3>5
  <2> QED
    BY <1>0, <2>2, <2>3 DEF TaskChanges
<1>2. ReturnedOver'
  <2> SUFFICES ASSUME NEW t \in Task, dispatch'[t[1]] = "returned"
               PROVE  task'[t].pc \in {"new", "resolved", "done"}
    BY DEF ReturnedOver
  <2>0. t[1] \in Dispatch /\ t[2] \in Webhook /\ t = <<t[1], t[2]>>
        /\ dispatch \in [Dispatch -> {"new", "open", "returned"}]
    BY DEF Inv, TypeOK, Task
  <2>1. CASE dispatch[t[1]] = "returned"
    <3>1. task[t].pc \in {"new", "resolved", "done"}
      BY <2>1 DEF Complete, ReturnedOver
    <3>2. Moves(t)
      BY <1>0, <3>1 DEF TaskChanges, Reports
    <3> QED
      BY <2>1, <3>1, <3>2 DEF Moves
  <2>2. CASE dispatch[t[1]] # "returned"
    <3>1. CASE \E d \in Dispatch : DispatchWebhook(d)
      <4>1. PICK d \in Dispatch : DispatchWebhook(d)
        BY <3>1
      <4>2. PICK direct \in SUBSET Webhook, rest \in SUBSET Webhook :
              /\ dispatch' = [dispatch EXCEPT ![d] =
                      IF direct \union rest = {} THEN "returned" ELSE "open"]
              /\ task' = [u \in Task |->
                   IF u[1] = d /\ u[2] \in direct
                   THEN [pc |-> "fetch", wrapped |-> FALSE, attempts |-> 1]
                   ELSE IF u[1] = d /\ u[2] \in rest
                   THEN [pc |-> "queued", wrapped |-> TRUE, attempts |-> 0]
                   ELSE task[u]]
        BY <4>1 DEF DispatchWebhook
      <4>3. t[1] = d /\ direct \union rest = {}
        BY <2>0, <2>2, <4>2
      <4>4. task'[t] = task[t]
        BY <4>2, <4>3
      <4>5. task[t].pc = "new"
        BY <2>0, <4>1, <4>3 DEF DispatchWebhook, Inv, TasksSound
      <4> QED
        BY <4>4, <4>5
    <3>2. CASE \E d \in Dispatch : Return(d)
      <4>1. PICK d \in Dispatch : Return(d)
        BY <3>2
      <4>2. t[1] = d /\ task' = task
        BY <2>0, <2>2, <4>1 DEF Return
      <4> QED
        BY <2>0, <4>1, <4>2 DEF Return
    <3>3. CASE (\E u \in Task : Work(u)) \/ (\E x \in Waiter : WaitForWebhooks(x)) \/ UNCHANGED vars
      <4>1. dispatch' = dispatch
        BY <3>3, WorkChanges DEF WaitForWebhooks, vars
      <4> QED
        BY <2>2, <4>1
    <3> QED
      BY <3>1, <3>2, <3>3 DEF Next
  <2> QED
    BY <2>1, <2>2
<1>3. QueueHolds'
  <2> SUFFICES ASSUME NEW t \in Task, task'[t].pc = "queued" PROVE InQueue(t)'
    BY DEF QueueHolds
  <2> QED
    BY <1>0 DEF TaskChanges, PlaceKept, Complete, QueueHolds
<1> QED
  BY <1>1, <1>2, <1>3 DEF Complete

LEMMA CompleteInit == Init => Complete
<1> SUFFICES ASSUME Init PROVE Complete
  OBVIOUS
<1>1. \A t \in Task : task[t].pc = "new" /\ results[t[1]] = {} /\ t[1] \in Dispatch
                      /\ dispatch[t[1]] = "new"
  BY DEF Init, Task
<1> QED
  BY <1>1 DEF Complete, ReportsSound, ReturnedOver, QueueHolds, BeforeReport, Unreported

\* Whatever the receivers answer, dispatchWebhook returns one result for each hook
\* it gave a task, and a failure only after MAX_RETRIES attempts.
THEOREM ResultsCorrect == Spec => []ResultsComplete
<1>1. Inv /\ Complete => ResultsComplete
  <2> SUFFICES ASSUME Inv, Complete, NEW d \in Dispatch, dispatch[d] = "returned",
                      NEW w \in Webhook, task[<<d, w>>].pc # "new"
               PROVE  \E r \in results[d] :
                        /\ r.webhookId = w
                        /\ \A s \in results[d] : s.webhookId = w => s = r
                        /\ ~r.success => r.attempts = MaxRetries
    BY DEF ResultsComplete
  <2> DEFINE t == <<d, w>>
  <2>1. t \in Task /\ t[1] = d /\ t[2] = w
    BY DEF Task
  <2>2. task[t].pc \in {"resolved", "done"}
    BY <2>1 DEF Complete, ReturnedOver
  <2>3. Reported(t)
    BY <2>1, <2>2 DEF Complete, ReportsSound, BeforeReport
  <2> QED
    BY <2>1, <2>3 DEF Reported
<1> QED
  BY <1>1, InvInit, InvStep, CompleteInit, CompleteStep, PTL DEF Spec

\* A call of waitForWebhooks is released only when no task is left anywhere.
LEMMA ReleaseStep ==
  ASSUME Inv, Inv', Complete', [Next]_vars, NEW x \in Waiter,
         waiter[x] = "waiting", waiter'[x] = "released"
  PROVE  Idle' /\ \A t \in Task : task'[t].pc \in {"new", "done"}
<1>1. Idle'
  <2>1. PICK now \in {activeWorkers - 1} : \E tasks : ScheduleNext(now, tasks)
    <3>1. \E t \in Task : Logged(t) \/ CloseClosure(t)
      BY DEF Inv, TypeOK, Next, vars, DispatchWebhook, Return, WaitForWebhooks, Work,
             Delivered, Refused, Awake, Resolve
    <3> QED
      BY <3>1 DEF Logged, CloseClosure
  <2> QED
    BY <2>1 DEF ScheduleNext, Idle
<1>2. Cardinality(InFlight') = 0 /\ Cardinality(Closures') = 0
  <2>1. Cardinality(InFlight') \in Nat /\ Cardinality(Closures') \in Nat
    BY CountType DEF InFlight, Closures
  <2>2. 0 = Cardinality(InFlight') + Cardinality(Closures')
    BY <1>1 DEF Idle, Inv, CounterExact
  <2> QED
    BY <2>1, <2>2
<1>3. InFlight' = {} /\ Closures' = {}
  BY <1>2, CountEmpty DEF InFlight, Closures
<1>4. ASSUME NEW t \in Task PROVE task'[t].pc \in {"new", "done"}
  <2>1. task'[t].pc \in Pcs /\ TaskSound(task'[t])
    BY DEF Inv, TypeOK, TaskType, TasksSound
  <2>2. task'[t].pc # "queued"
    <3>1. Len(pendingQueue') = 0
      BY <1>1 DEF Idle
    <3> QED
      BY <3>1 DEF Complete, QueueHolds, InQueue
  <2>3. task'[t].pc \notin InFlightPcs
    BY <1>3 DEF InFlight
  <2>4. task'[t].pc \notin {"returned", "resolved"}
    BY <1>3, <2>1 DEF Closures, TaskSound
  <2> QED
    BY <2>1, <2>2, <2>3, <2>4 DEF Pcs
<1> QED
  BY <1>1, <1>4

\* waitForWebhooks is not told too early: in no step is a call released while a
\* task is queued, in flight or winding up.
THEOREM ReleaseCorrect == Spec => ReleasedWhenIdle
<1>1. Inv /\ Inv' /\ Complete' /\ [Next]_vars =>
        [\A x \in Waiter :
           (waiter[x] = "waiting" /\ waiter'[x] = "released") =>
               /\ Idle'
               /\ \A t \in Task : task'[t].pc \in {"new", "done"}]_vars
  BY ReleaseStep
<1> QED
  BY <1>1, InvInit, InvStep, CompleteInit, CompleteStep, PTL DEF Spec, ReleasedWhenIdle
=============================================================================
