# Verification of the WhatsApp marketing platform

TLA+ models of the parts of this repository whose correctness depends on the
order of steps: several HTTP handlers, workers, timers and callbacks that act on
the same rows. TLC checks the models on small instances; TLAPS proves the main
theorems for every value of the constants. Definitions keep the names of the
source where TLA+ allows it, and `PROJECT.json` maps each of them to its lines.

Paths below are relative to the repository (`src/`).

## 1. The system

A multi-tenant platform for WhatsApp marketing: a Next.js application
(`apps/web`, 135 API routes and the user interface), a BullMQ worker process
(`apps/worker`), a WebSocket server (`apps/ws-server`) and 20 packages. State
lives in PostgreSQL (through Prisma), in Redis (queues, caches, limits) and, for
the webhook dispatcher and the WebSocket hub, in the memory of a process.

No handler uses a transaction: each `await` on the database is a step of its own,
and what a handler read before it may be out of date after it. Almost every hard
behaviour of the system has this shape.

| Part | State | Operations | Talks to | What makes it correct |
|---|---|---|---|---|
| Bulk campaigns (`apps/web/app/api/campaigns`, `packages/queue/src/queue.ts`, `apps/worker/src/workers/recipient.worker.ts`) | campaign status, total, four counters; recipient rows; queue `recipient-jobs` | create, edit, delete, start, send, pause, cancel, retry, add and remove recipients; one job per recipient | database, BullMQ, WhatsApp | a completed campaign left nobody behind; a running one forgets nobody; duplicates are bounded; a pause stops the sending; every job ends |
| WhatsApp callbacks (`apps/web/app/api/webhooks/whatsapp`) and readers of a conversation (`contacts/[id]/messages`, `contacts/[id]/read`) | messages, the contact with its unread flag, recipient rows, counters | incoming messages, status reports, call events; open, mark read | database, dispatcher, hub | what was answered with 200 is stored; an unread message shows; a row says sent only if WhatsApp accepted a message |
| Webhook dispatcher (`packages/webhooks/src/dispatcher.ts`) | `activeWorkers`, `pendingQueue`, `waiters` in memory | dispatch an event, retry a delivery, wait until idle | receivers' HTTP servers, delivery log | at most MAX_CONCURRENT in flight; nothing waits forever; complete results |
| Message sender (`packages/messaging/src/sender.ts`, called by `api/messages/template`) | one message row, its background job | create pending, send, finalize | WhatsApp, dispatcher | sent was taken, failed has a cause, pending has a job |
| Agent transfers (`apps/web/app/api/transfers`, `users/me/availability`) | transfer status and agent, contact's agent, availability | create, pick, assign, resume, go away, come back | database | one active transfer per contact; who is away keeps no chat |
| Call transfers and call log (`apps/web/app/api/call-transfers`, `webhooks/whatsapp/call`) | transfer status and agent, call log | create, connect, hang up, call events | database, hub | a transfer is accepted once |
| Agent assignment (`packages/assignment`) | `lastAssignedAt`, cached team configuration | round robin, load balanced | database, Redis | fairness, only available members |
| Tokens and sessions (`apps/web/app/api/auth`, `packages/auth`) | refresh tokens, sessions | login, refresh, logout, switch organization | database | a token is redeemed once, logout ends the chain |
| WebSocket hub (`packages/websocket`) | clients by organization and user, each client's connection | connect, authenticate, register, broadcast, close | sockets | a registered client is open, a closed one is not registered |
| Cache-aside (`packages/cache`) and WhatsApp accounts (`api/accounts`) | Redis keys with a TTL; accounts with their default flags | getOrFetch, del; create, change, delete an account | Redis, database | a stale value has a cause and does not last; one default account |
| IVR and audio (`packages/calling`) | flow position, digit listeners, player and bridge sequence numbers | run a flow, push a digit, stop, transfer, forward RTP | HTTP callbacks, RTP | a flow ends; sequence numbers continue |
| Rate limiters (`packages/auth/src/rate-limit.ts`, `middleware/rate-limit.ts`) | counters with an expiry | hit | Redis | at most `limit` hits a window, and windows end |
| Other workers (`apps/worker/src/workers`) | contacts, audit logs, sessions | import, maintenance, educational messages, stats, webhooks, LinkedIn | database, HTTP | one read and one write per item |
| CRUD routes, clients of external services, database layer, audit, analytics, configuration, permissions, frontend | rows of one table | one request each | database, HTTP | validation and permissions |

Two parts exist twice. `packages/worker/src/campaign-worker.ts` is an older
campaign worker that is exported and never instantiated. The producers import
`createQueue` and `enqueueRecipientJobs` from `packages/queue/src/queue.ts`
(`packages/queue/src/index.ts` does not re-export that file); `QueueManager`,
which would give the jobs an id per recipient, is not used for them. The start, send
and retry handlers import `enqueueRecipientJobs` from `@repo/queue`, which is that
index. Built as committed, the call throws after `processing` has been written, so that
every start ends like a failed `addBulk` (`RequestFails` at `enqueue`, which leaves
`unqueued`): the campaign stays `processing` without a job. The module models the
function of `queue.ts` that the handlers mean to call.

The hazards of each part, with their lines, are listed in `PROJECT.json`.

## 2. Modules

### Campaign (with CampaignProofs, MCCampaign)

One campaign and everything that acts on it.

* State: `status`, `total`, `counts` are the row of `BulkMessageCampaign`; `row`
  and `hasWamid` the rows of `BulkMessageRecipient`; `job` the queue, with the
  progress of each run; `req` the requests being served. `late`, `retried`, `overrun`,
  `unchecked` and `unqueued` are history variables, read by the properties alone.
* A request is received (`Receive`) when its first read finds a status its guard
  accepts (`Guard`), and then takes one step per call: `ListPending`,
  `WriteStatus`, `Enqueue` for start and send; `ListFailed`, `ResetFailed`,
  `WriteStatus`, `Enqueue` for retry; `WriteStatus` for pause and cancel;
  `InsertRows` or `UnlinkRow`, then `Tally`, `StoreTotal`; `ClearRows`,
  `DropCampaign`; `FindMessage`, `FindRow`, `ApplyEvent`,
  `CountEvent` for a status callback. The status written does not depend on the status at
  that time, as in the code. A report of progress on a message that is stored throws at its
  update (see Conversation), so that `FindMessage` lets it through only if the run had not
  stored the message yet; a `failed` report always goes on.
* A job is delivered (`Deliver`, at most `Concurrency` at a time) and takes one step
  per call of `processRecipientJob`: `Fetch`, `Send`, `Store`, `Mark`, `Count`,
  `Check`, `Recheck`, `Complete`. `path` says whether it is on the normal path, in
  an early return or in the catch block; an exception leads from the try block to the
  catch block (`Thrown`) and from there to BullMQ, which tries `Attempts` times.
* Faults: `RequestFails` (a call of a handler fails or the server stops), `CallFails`
  (a call of a job fails), `SendLost` (WhatsApp accepts and the answer is lost),
  `Crash` (the worker stops, its jobs stall and run again, once). `MaxFaults` bounds
  them together. A refusal by WhatsApp (`SendRefused`) is not a fault.
* Abstracted: names, templates, message contents, organizations, audit entries and
  webhooks. The limiter of 50 jobs a second and the stalling of a worker that is
  alive are not modelled. `ListPending` may respond at once because the template is
  gone; the foreign key makes that rare but a handler that was told so changes nothing.

What the model says of the code, and the properties name as exemptions because
the code behaves so:

* a row added, or reset by a retry, after a start has read its rows has no job (`late`);
* a retry of a paused campaign resumes it and enqueues the failed rows alone: the rows
  whose jobs were skipped during the pause are forgotten (`retried`, `Skipped`), and
  `NoRecipientForgotten` says that no others are;
* a run may stand still in `processing` (`Stuck`) when all jobs are over and the last
  `addBulk` failed (`unqueued`), or a pending row is late, skipped or has a dead job, or no
  row is pending and what settled or removed the last one checks for no completion: an
  early return, a removal, a status callback (`unchecked`), or a dead job. Each is a cause
  of that standstill, not something that happened some time before;
* a campaign created `scheduled` can be given no recipients, so it can never be
  started (`ScheduledHasNoRecipients`);
* a second start enqueues again who is still pending, and an exception after the send
  is reported as a failure (`FailedButSentHasCause`).

### WebhookDispatcher (with WorkerPool, WebhookDispatcherProofs, MCWebhookDispatcher)

`packages/webhooks/src/dispatcher.ts`. A step is what runs between two awaits.

* State: `activeWorkers`, `pendingQueue` and `waiter` are the module's variables;
  `task` is the progress of one delivery, `dispatch` and `results` those of one call
  of `dispatchWebhook`.
* `DispatchWebhook` runs `runScheduled` for every matching hook: the first
  `FreeSlots` of them start, the rest are queued. `Delivered`, `Refused`, `Awake`
  are the retry loop, `Logged` the end of a worker with its `finally` block
  (`ScheduleNext`: take a task from the queue, tell the waiters).
* A task from the queue is a closure that calls `runWorker` and is itself run by
  `runWorker`. `activeWorkers` counts it twice, and its end takes three steps:
  `Logged` (the inner worker), `Resolve` (its promise), `CloseClosure` (the outer
  worker). So the counter may reach MAX_CONCURRENT + 1 and at worst half of the slots
  are used; the deliveries in flight stay within MAX_CONCURRENT.
* `WorkerPool` is what callers are promised: deliveries that wait, run and end, at
  most `MaxConcurrent` running. `PoolSpec` is the refinement.
* Abstracted: payloads, signatures, delays, response codes (a failed result may carry
  the response code of an earlier attempt); `getWebhooksCached` is a reader of
  module CacheAside. An exception in
  `dispatchToWebhook` outside its try blocks (a payload that cannot be serialised)
  does not occur in the model.

### CallTransfer (with CallOffer, CallTransferProofs, MCCallTransfer)

One incoming voice call: the events WhatsApp reports of it
(`api/webhooks/whatsapp/call`) and the routes that offer it to a team
(`api/call-transfers`, `connect`, `hangup`).

* State: `callLog` and `transfer` are the rows of `CallLog` and `CallTransfer`,
  `request` the progress of each request. Of a call log its status and agent are kept.
* `CreateTransfer`, `MarkTransferring` are the POST; `FindWaiting`, `Accept`,
  `RecordAgent` the three calls of connect, of which `Accept` is the conditional
  `updateMany`; `Hangup` completes a row whatever its status. `FindLog`, `CreateLog`,
  `Handle`, `WriteEnd`, `WriteError` are an event: `getOrCreateCallLog`, the switch
  with its unconditional writes, the end that reads first and writes later, and the
  update an error makes.
* `CallOffer` is what the agents are promised: an offer is taken by at most one
  member, who keeps it, and a closed one is not taken any more. `OfferSpec` is the
  refinement; who took an offer is its agent once `connectedAt` is set, for an offer
  may name a member before anybody took it.
* Abstracted: whom a ringing event notifies, the sticky agent in the cache, the
  contact it creates, outgoing calls, times, durations, `disconnectedBy`. A rejected
  offer does not exist in the code: an offer with a team may be taken by any member.

What the model says of the code: two first events at once open two logs of one call
(`LogsBounded` bounds them by the requests in flight); an end that has read its row
before the agent was recorded stores `missed` over an accepted call
(`MissedOnlyIfUnseen` pins it to that overlap); a failure between the two writes of an
acceptance leaves a taken call without agent (`TakenIsRecorded` exempts nothing else).

### RefreshTokens (with LoginSession, RefreshTokensProofs, MCRefreshTokens)

The refresh tokens of one user: `api/auth/login`, the SSO callback, `switch-org`,
`refresh`, `logout`, and the deactivation of the user.

* State: `row` the rows of `RefreshToken`, `request` the requests, `isActive` the
  user's flag, `now` the clock in seconds. `begun` and `loggedOut` are history
  variables, and so is the `login` of a row: the login that began its chain.
* `Find`, `ReadUser`, `Rotate`, `Create` are a refresh, one step per call; `Revoke` the
  delete of an expired row or of a deactivated user. `SignIn`, `Create` are a login.
  `SignInWithJti` creates a row whose token is unlike any other. `Logout`,
  `LogoutAll` are the two deletes of a logout.
* A token is a JWT without a nonce: two tokens of the same second for the same role
  and organization are the same string and the UNIQUE column refuses the second. A
  refresh whose create is refused has already deleted its old row, and the session is
  over. That is what the code does; the model keeps the clash.
* `LoginSession` is the promise: a session is opened by its login alone and stays over
  once it is over. A session goes on (`Going`) while a stored row or a request about
  to create one carries it.
* Abstracted: passwords, cookies, access tokens (nothing stores them), the `Session`
  rows, the user's other fields. A clash of the `jti` of two creates of one
  millisecond is one of the failures of `CallFails`.

### AgentTransfer (with AgentTransferProofs, MCAgentTransfer)

Chats handed from the bot to agents: `api/transfers` (create, `pick`, `assign`,
`resume`), `users/me/availability` and `contacts/[id]/assign`.

* State: `transfer` the rows of `AgentTransfer`, `available` and `assigned` the columns
  `User.isAvailable` and `Contact.assignedUserId`, `request` the progress of each
  request. History: `vouched` of a row (whoever wrote the agent had seen him available
  and he has not gone since), `cut` (agents whose going away failed half way),
  `overlapped` (contacts with two creates at a time).
* `FindNoActive`, `CheckTarget`, `Insert` are the POST; `FindUnassigned`, `Take` a
  pick; `ReadTransfer`, `CheckTarget`, `WriteAgent` an assignment, by agents with and
  without full access; `Stick` and `Clear` what both write to the contact;
  `FindActive`, `Resume`; `GoAway`, `ListHeld`, `Release` (one per chat), `Released`
  and `ComeBack`. `RequestFails` ends any of them where it is.
* Abstracted: the team of a transfer (a pick may find any unassigned one), the rows
  that are only written, the chatbot sessions a create cancels (nothing makes one).

What the model says of the code: the look for an active transfer and the create are
two calls, so a contact may get two (`SecondActiveOnlyByOverlap` pins it to that
overlap); a pick does not ask whether the caller is available, and its update takes a
chat from whoever holds it by then; deactivating a user releases nothing.

### Inbox, Conversation (with MessageLife, ConversationProofs, MCConversation)

The messages of one customer. `Inbox` is what he writes and who has read it
(`handleIncomingMessage`, `contacts/[id]/messages`, `contacts/[id]/read`);
`Conversation` extends it with the template messages he is sent
(`messages/template`, `packages/messaging/src/sender.ts`) and `handleStatusUpdate`,
whose reports come by the same callbacks.

* State: `contacts`, `isRead`, `inbox` the rows; `message` the outgoing rows, `job`
  their background jobs; `acked` and `taken` what WhatsApp knows of messages in
  and out; `request` the progress of each. History: `raced` (unread messages whose
  flag was lost), `skipped` (messages acknowledged without an account), `blamed` (messages refused, reported failed or hit by an error).
* A callback (`Deliver`, `DeliverReport`) brings a batch of messages and one report. For
  each message it runs `FindContact`, `CreateContact`, `Store`, `Flag`; for the report
  `ReportUnmatched`, `ReportFailed` or `ReportThrows`; then `Answer`. A callback
  without `phone_number_id`, or for a number whose account is not found, is answered with
  200 and its messages are passed over (`Skip`). WhatsApp delivers it
  again until it is answered with 200, also while the first is being handled.
* `Open`, `MarkRead`, `ClearFlag` are a reader. `RequestTemplate`, `FindContact`,
  `CreateContact`, `CreatePending` are the route, `Accept` or `Refuse`, `StoreSent` or
  `StoreFailed` the job. `JobFails` loses an answer of WhatsApp or of the database,
  after the fact or before; `Crash` loses requests and jobs.
* `MessageLife` is the promise of one message: pending until an answer, sent only if
  it was taken, failed only for a cause, and then for good. `LifeSpec` is the refinement.
* Abstracted: a callback has one change, for one number; texts, media, times, the fields of a contact, how a type of message
  becomes a request to WhatsApp. Rows of one message in one contact are not told
  apart. The synchronous path of the sender and `markIncomingRead` have no caller.

What the model says of the code: `Message` has no column `sentAt`, `deliveredAt` or
`readAt`, so that the update for any report of progress is refused by the database client
(`ReportThrows`): the callback is answered with 500 and comes again, no message becomes
`delivered` or `read`, and the webhook `message.delivered` of
`docs/api/webhooks/message-delivered.yaml` is not dispatched for it. A report that
comes before its wamid is stored is dropped. A message whose `sent` could not be stored
is stored as `failed`. A row whose job was lost stays `pending`. Messages for a number
without an account, among them those that come before it is created, are acknowledged and
lost; `AckedIsStored` says that no other message of a known type is.

### CacheAside, Accounts (with AccountsProofs, MCAccounts)

`CacheAside` is `packages/cache/src/cache.ts` with those who read through it and those
who write the rows; `Accounts` extends it with the WhatsApp accounts
(`api/accounts`) and their default flag.

* State: `row` a version of what the database holds for a key (0: no row), `cached`
  the version in Redis, `connected` the flag of the service, `default` the accounts with
  `isDefaultIncoming`. History: `excused`, `crowded`.
* `Hit`, `Miss`, `Fetch`, `Put` are `getOrFetch`; `Write` changes a row and goes on to
  `Drop` or does not; `Submit`, `ClearOthers`, `StoreAccount`, `Refused` and
  `DeleteAccount` are the routes of accounts, which delete no key
  (`invalidateWhatsAppAccountCache` has no caller). `Expire`, `Connect`, `Disconnect`
  are Redis. A failing call of Redis is caught and the request goes on; a failing
  call of the database ends it.
* `Dropped` are keys every writer deletes, `Kept` keys no writer deletes, the others
  may be either; a key that is one row which may be missing is in `Single`.
* Left out: `deleteByPattern` and `setMany` of `cache.ts`; the component is partly modelled.

What the model says of the code: the four causes of a stale value are a reader that
stores what it fetched before a write, a delete that was lost or not made, a writer
that deletes nothing, and a delete still to come (`StaleHasCause`). Hooks are
cached for 600 seconds. Two accounts are the default only after two requests
overlapped, but none is after a failing second call.

### IvrFlow (with IvrFlowProofs, MCIvrFlow)

One call in an IVR flow: `packages/calling/src/ivr/executor.ts` and the player of
`audio-player.ts`, on one event loop. A step goes from one await to the next.

* State: `node`, `pc`, `attempt`, `gathered`, `current` are what `execute` is doing;
  `running` and `stopFlag` the two flags; `play` the calls of `playFile` that run,
  `used` whether a packet with the present number was written. History: `repeated`,
  `timedOut`, `behind` (the prompts a menu's timer left playing).
* The flow is a constant: `Config` gives the type of each node, `Edge` where each outcome
  leads. `EnterPrompt`, `Enter`, `Retry`, `GiveUp`, `StopSeen` are the walk; `Frame` and
  `PlayFails` a prompt; `Press`, `Collect` digits; `MenuTimer` (of a node
  that is `timed`: a timeout of 0 sets none), `GatherTimer`, `HttpAnswer` what has a timer, `HttpBody` and `TransferEnds` what has none; `Stop`.
* Abstracted: `AudioBridge`, `playSilence`, `playFileLoop`, the texts of requests, digits
  and variables, the clock of a timing node.

What the model says of the code: nothing resets the stop flag (`resetAfterInterrupt` has
no caller), so that after one interrupted prompt all later ones are silent and a menu
with a prompt uses up its retries at once. A menu whose timer fires during its prompt
starts the next one over it, and their packets may share a number. The prompt left
`behind` may go on when the flow has ended; no other does, unless it was told to stop
(`QuietWhenOver`). A menu without a prompt whose timeout is 0 waits for a digit for ever, as a
transfer and an HTTP body wait for others; `NodesEnd` names these three. `stop()` is seen
between nodes only.

## 3. Runs

| Run | Instance | Checks |
|---|---|---|
| `campaign_races` | 2 recipients, 4 jobs, 2 requests (start, pause, retry, add), 2 slots, no faults | `CompletedLeavesNoneBehind`, `NoRecipientForgotten`, `FailedButSentHasCause`, `CountersMatchRows`, `PauseStopsSends` |
| `campaign_faults` | 1 recipient, 2 jobs, 2 requests of every kind, 1 fault, 1 callback | `SentMeansAccepted`, `OneSendPerDelivery`, `ScheduledHasNoRecipients` |
| `campaign_live` | 2 recipients, 2 jobs, 2 requests (start, add), 2 slots, 1 fault, fair | `RunEnds`, `JobsEnd` |
| `campaign_docs` | 1 recipient, 2 requests (start, cancel, add) | expects the violation of `StartsOnlyDraftOrPaused` |
| `webhook_pool` | 2 calls of 2 hooks, 1 waiter, 2 slots, 2 attempts, fair | `CounterExact`, `QueueHasWaker`, `HalfTheSlotsBusy`, `NoWaiterForgotten`, `ResultsComplete`, `ReleasedWhenIdle`, refinement `PoolSpec`, `CallsReturn`, `PoolAllEnd` |
| `call_transfers` | 2 requests, 2 logs, 2 offers, 2 members and a stranger, 1 failing call | `OneWinner`, `LogAgentTookCall`, `TakenIsRecorded`, `LogsBounded`, `MissedOnlyIfUnseen`, refinement `OfferSpec` |
| `sessions` | 2 requests, 2 logins, 4 rows, 2 roles, 2 seconds, 1 failing call | `OneTokenPerSession`, refinement `SessionSpec` |
| `sessions_docs` | 2 requests, 1 login, 3 rows | expects the violation of `LogoutEndsSession` |
| `agent_transfers` | 2 agents (one with full access), 1 contact, 2 transfers, 2 requests, 1 failing call | `AwayHoldsOnlyUnseen`, `SecondActiveOnlyByOverlap` |
| `conversation` | 2 messages in (one of unknown type), 1 out, 3 contacts, 2 requests, 1 failure | `AckedIsStored`, `UnreadIsFlagged`, `ContactsBounded`, `PendingHasJob`, refinement `LifeSpec` |
| `accounts` | 4 keys (one deleted by all writers, one by some, two accounts), 2 requests, 2 writes, 2 failures, fair | `StaleHasCause`, `OneDefault`, `EventuallyFresh` |
| `ivr_flow` | a flow of eleven nodes with every type, three menus (one without prompt and timeout) and ways back, 2 digits, 3 prompts at a time of 2 packets, fair | `NumbersUnique`, `QuietWhenOver`, `NodesEnd` |

The types (`TypeOK` of each module) are in no run: TLAPS proves them for every
instance.

Bounds. Two handlers and two runs at a time are what every race listed needs: each
relates one read and one write of one process to one write of another. Four jobs
let both recipients be enqueued twice. One fault reaches every error path once. A
retry loop of two attempts has a first, a middle (sleep) and a last one. Four
deliveries over two slots fill the queue and let the counter exceed its limit. Two
requests at once suffice for calls and tokens: each race there is between two requests
(and a hang-up, which is not one of them). Two logs are what two requests can create,
and four rows are two sessions with a rotation each. Two transfers of one contact are what
two overlapping creates leave, and what one agent has to release in two steps. Three
contacts are one more than the requests can create; two messages let a callback stop
between them, and a callback and a reader
are the two requests of every race. In `campaign_live` one start enqueues two jobs, the other
request adds or starts around it, and the fault may be the failing `addBulk`. TLC has no
symmetry for liveness: `OrderedSpec` gives the jobs their numbers in order instead, which
loses no behaviour but renumberings. Two writes and
two requests are a reader that fetched before the first write and stores after the second.
Three prompts are the one that is heard, one left over by a timer and one more; a third
packet adds nothing to two. `CHECK_DEADLOCK FALSE`: a system whose users are silent stops, rightly.

`campaign_docs`: `docs/api/paths/campaigns.yaml:154` says that only a draft or paused
campaign can be started. The handler checks that, goes on for two more reads, and
writes `processing` whatever the status is by then. The run shows a campaign that is
cancelled in between and started all the same.

`sessions_docs`: `docs/api/paths/auth.yaml:95` says of logout that it ends the current
session and removes the refresh token. A logout that runs between the delete and the
create of a rotation finds no row of the session, which goes on with the row created
after it.

Fairness. A handler or a job that has begun goes on (`WF` of `Handler`, `RunJob`,
`Work`, `Return`): Node runs continuations, and a `fetch` of the dispatcher settles
because `AbortSignal.timeout` ends it. In `accounts` the calls of a reader or writer go on
(`RequestStep`) and Redis drops what has lived its time (`Expire`); nothing says that a lost
connection comes back, or that a request for an account ends. In `ivr_flow` the walk goes
on, files are read and packets written (`Frame`, `PlayFails`), and timers fire (`Timers`).
No user has to send a request, no receiver has to answer, no key has to be pressed (a menu
without a timer may wait for ever), no transfer or HTTP body has to end, and no fault has to
happen. `agent_transfers` and
`conversation` state no liveness: the code retries nothing there, so that what is cut short
stays so, and the invariants name it.

## 4. Proofs

TLAPS proves, for every finite set of recipients, hooks and calls, every number of
jobs, requests, slots, attempts, faults, agents, offers, logs, logins, rows, transfers,
contacts, messages, cached keys, and every IVR flow:

| Theorem | States |
|---|---|
| `CampaignProofs!TypeCorrect` | `Spec => []TypeOK` |
| `CampaignProofs!CompletionCorrect` | `Spec => []CompletedLeavesNoneBehind` |
| `CampaignProofs!RememberCorrect` | `Spec => []NoRecipientForgotten` |
| `CampaignProofs!PauseCorrect` | `Spec => []PauseStopsSends` |
| `CampaignProofs!OneSendCorrect` | `Spec => []OneSendPerDelivery` |
| `CampaignProofs!SentCorrect` | `Spec => []SentMeansAccepted` |
| `CampaignProofs!CauseCorrect` | `Spec => []FailedButSentHasCause` |
| `CampaignProofs!CountersCorrect` | `Spec => []CountersMatchRows` |
| `CampaignProofs!ScheduledCorrect` | `Spec => []ScheduledHasNoRecipients` |
| `WebhookDispatcherProofs!DispatcherTypes` | `Spec => []TypeOK` |
| `WebhookDispatcherProofs!CounterCorrect` | `Spec => []CounterExact` |
| `WebhookDispatcherProofs!QueueWoken` | `Spec => []QueueHasWaker` |
| `WebhookDispatcherProofs!WaitersSound` | `Spec => []NoWaiterForgotten` |
| `WebhookDispatcherProofs!HalfCorrect` | `Spec => []HalfTheSlotsBusy` |
| `WebhookDispatcherProofs!ResultsCorrect` | `Spec => []ResultsComplete` |
| `WebhookDispatcherProofs!ReleaseCorrect` | `Spec => ReleasedWhenIdle` |
| `WebhookDispatcherProofs!PoolImplemented` | `Spec => PoolSpec` |
| `CallTransferProofs!CallTypes` | `Spec => []TypeOK` |
| `CallTransferProofs!WinnerCorrect` | `Spec => []OneWinner` |
| `CallTransferProofs!LogAgentCorrect` | `Spec => []LogAgentTookCall` |
| `CallTransferProofs!RecordedCorrect` | `Spec => []TakenIsRecorded` |
| `CallTransferProofs!LogsCorrect` | `Spec => []LogsBounded` |
| `CallTransferProofs!MissedCorrect` | `Spec => MissedOnlyIfUnseen` |
| `CallTransferProofs!CallImplementsOffer` | `Spec => OfferSpec` |
| `RefreshTokensProofs!TokenTypes` | `Spec => []TypeOK` |
| `RefreshTokensProofs!OneTokenCorrect` | `Spec => []OneTokenPerSession` |
| `RefreshTokensProofs!SessionsCorrect` | `Spec => SessionSpec` |
| `AgentTransferProofs!TypesHold` | `Spec => []TypeOK` |
| `AgentTransferProofs!AwayReleases` | `Spec => []AwayHoldsOnlyUnseen` |
| `AgentTransferProofs!OneActiveTransfer` | `Spec => []SecondActiveOnlyByOverlap` |
| `ConversationProofs!TypesHold` | `Spec => []TypeOK` |
| `ConversationProofs!AckedAreStored` | `Spec => []AckedIsStored` |
| `ConversationProofs!UnreadAreFlagged` | `Spec => []UnreadIsFlagged` |
| `ConversationProofs!FewContacts` | `Spec => []ContactsBounded` |
| `ConversationProofs!PendingHaveJobs` | `Spec => []PendingHasJob` |
| `ConversationProofs!LifeImplemented` | `Spec => LifeSpec` |
| `AccountsProofs!TypesHold` | `Spec => []TypeOK` |
| `AccountsProofs!NoStaleWithoutCause` | `Spec => []StaleHasCause` |
| `AccountsProofs!OneDefaultAccount` | `Spec => []OneDefault` |
| `IvrFlowProofs!TypesHold` | `Spec => []TypeOK` |
| `IvrFlowProofs!PacketsNumbered` | `Spec => []NumbersUnique` |
| `IvrFlowProofs!QuietInTheEnd` | `Spec => []QuietWhenOver` |

The assumptions are those the modules name (`CampaignAssumption` and the like): finite
sets, positive numbers, members who are agents, accounts whose key no writer deletes, a
flow whose edges lead to its nodes, a `None` outside the other sets, and that `"nobody"`,
the recipient of a job that is not there, is no recipient.

Campaign. All its proofs rest on four lemmas that say, for any step of the module, what it
can do to one job (`JobChanges`: nothing, a first run, or a step that `Advances` it), to one
row (`RowStep`), to the status (`StatusWrites`) and to one request (`RequestProceeds`). They
go through the actions once; most invariants then argue about one job, row or request at a
time, and look at an action only where they depend on what it does.

Completion. `CompletedLeavesNoneBehind` is not inductive: a run decides in `Check`,
looks again in `Recheck` and writes in `Complete`. `CompletionInv` adds two parts:
`CountedNone`, that once a run has counted no pending row (its `pc` is `recheck` or
`complete`) the pending rows are within `late`, and `NotStartedIdle`, that before the
first start no job runs and no request is about to enqueue one. What makes it inductive
is that a row becomes pending in two actions alone (`PendingInTime`): `ResetFailed`,
whose rows are late by definition, and `InsertRows`, whose rows are late unless the
campaign is a draft that no start has listed, and then, by `NotStartedIdle`, no run
could have counted.

Recipients of a running campaign. `NoRecipientForgotten` is lost in three ways: a job ends
without its row being marked, a row becomes pending, or a campaign becomes `processing`
again. `JobEnds` lists why a job ends: it read another status than `processing`, it has
passed `Mark`, its row is gone, or a fault. `MarkedSettled` says that whoever passed
`Mark` left a row that is no longer pending in time. `StartsHoldAll` says that a start that
listed the rows holds all of those that are, from its list to its `Enqueue`, so that the jobs
it adds cover them; a row that a start cannot hold is late, by `PendingInTime`.
This is `Remembers`, for a campaign no retry has resumed. For one that was, `InTimeInv` keeps
less and keeps it through every pause: whoever is pending in time has been given a job since
the campaign was first begun, and without faults no job is dead unless its row is gone. So
that job is live, or it was skipped.

Sends after a pause. What was sent since the campaign left `processing` and the runs
that are in `send` are together no more than the slots (`SlotsBound`). A run gets to `send`
only by reading `processing`, when `overrun` is 0, and a send moves one unit from the
second summand to the first.

One send per delivery. `RunSound` bounds the attempts and stalls of a run by its state, `Paid`
its copies by its deliveries; a run in `send` has a delivery not yet spent, and what
throws or stalls it spends one. `SentMeansAccepted` follows the message: a row gets its
`wamid` from a run that has sent, a status report finds its message and its row by `wamid`, and a job's recipient never changes (`AcceptedInv`).

Failed but sent. Without faults and reports (`Clean`), `Blameless` says of the only job of a
recipient: while its try block has not marked the row, the row does not say failed; a row
that says failed has a job that sent nothing; a job that sent and threw did so because its
row is gone. A run may therefore throw before its send, when WhatsApp refuses, or because
there is nothing left to mark. `KnownInv` (jobs and requests name rows that were inserted) is
what makes a row that is missing one that is gone for good.

Counters. `CountersMatchRows` compares cardinalities. `PendingUntilMarked` says that a row is
pending until its job marks it, so that `Mark` moves exactly one row into an outcome and one
run into `Uncounted`, and `Count` takes the run out as it adds to the counter. Both sets are
finite: recipients by assumption, runs by `SlotsBound`. No retry can interfere, because the
rows it resets are late.

Scheduled campaigns. `Unfilled` adds to `ScheduledHasNoRecipients` that no request is at a call
that would give a scheduled campaign rows or jobs: `Editable` lets only a draft have them, and
no request writes `scheduled`.

Dispatcher. `Inv` joins types, what the state of a task says of it (`TasksSound`), that
the queue holds queued tasks and each once (`QueueSound`), `CounterExact`,
`QueueHasWaker`, `Bounded` (at most MaxConcurrent in flight), the half-used bound and
the waiters. The counter needs the double count spelled out: a step of a task moves
one element of `InFlight` or `Closures`, and each lemma of the module says by how much
a cardinality changes. `PoolStep` maps each step to one of the pool's or a stutter.
`Complete` adds the results: a task has no result before its report and afterwards one that no
other step touches (`ReportsSound`), a call returns after the tasks it began (`ReturnedOver`),
and a queued task is in `pendingQueue` (`QueueHolds`). When waiters are released the queue is
empty and the counter 0; by `CounterExact` nothing is then in flight or in a closure, and by
`QueueHolds` nothing is queued, which is `ReleasedWhenIdle`.

Calls. `WinnerInv` joins the types, what the status of a transfer says of its fields
(`RowsSound`: an offer that waits was not connected, one that is there has a log),
what a request holds (`RequestsSound`) and `OneWinner`, which is inductive only with
them: `Accept` alone sets `connectedAt`, from `waiting`, so a request that records
cannot exist for that offer yet. The refinement and the remaining properties follow
from it: `LogAgentTookCall` and `TakenIsRecorded` because the agent a request records is
the one its transfer names, `LogsBounded` because a request is about to create only
when it found no log, and `MissedOnlyIfUnseen` because an end that decided `missed` read
a log without agent, so that an agent there now makes it stale (`EndsSound`).

Tokens. `Inv` adds to the types that a row or request has a login that has begun
(`RowsSound`, `RequestsSound`) and that no two rows, no two requests and no row and
request carry one session on (`Unforked`). Most steps only take carriers away and are
proved once (`Shrinks`); a login brings a session nobody carries, `Rotate` exchanges
the one row for its request, `Create` the request for its row. The refinement uses that
a step opens a session (`Opens`) or takes none up.

Agent transfers. `AwayHoldsOnlyUnseen` needs `VouchersTrue`, that a request which vouches
for an agent does so of one who is available now (going away takes the word of all of them
at once), and then every step either gives an agent who is away nothing (`AwayKept`) or is
his own going away. `OneCreate` is the inductive form of `SecondActiveOnlyByOverlap`: of a
contact without overlap there is one active transfer at most, one create at most, and not
both.

Conversation. The types of what requests hold (`RecordSound`), that a callback for an account has stored
what it no longer has to handle (`Settled`), which makes `AckedIsStored` inductive, that a reader between his two writes has left
nothing unread that `raced` does not name (`ReadersRace`), that contacts and requests about
to create one are no more than the requests (`CreatorsBounded`), what the state of a job
says of its message (`JobSound`) and that a failure is reported only of a message to blame
(`ReportsSound`).
`LifeStep` maps each step to one of MessageLife or a stutter.

Accounts. `StaleHasCause` is inductive by itself over the types. `OneAtATime` is the
inductive form of `OneDefault`: as long as nothing was crowded, one request at most makes an
account the default, and while it is about to, no other account is.

IVR. As long as the player was not stopped and no timer of a menu fired during its prompt,
one prompt plays at most, and it is the one that `execute` waits for (`OnePrompt`); the
present number is then used only while it plays, or once it broke off and the flow with it.
With timers, `Accounted` is what stays: until a digit stops the player, a prompt that plays is
the awaited one or `behind`; at the end none is awaited, which is `QuietWhenOver`.

Only model-checked: the liveness properties `RunEnds`, `JobsEnd`, `CallsReturn`, `PoolAllEnd`,
`EventuallyFresh` and `NodesEnd`, which rest on fairness and so on ENABLED, out of the prover's
reach. The two claims of the documentation that runs refute (`StartsOnlyDraftOrPaused` and the
one of `MCRefreshTokens_docs`) are no theorems. Every other property of the runs is one.

## 5. Not modelled

The parts of the last rows of the table in section 1: handlers that read and write one
row, clients of external services, rendering. `apps/worker`'s other workers are in the
same class. `CampaignStatsWorker` would overwrite the counters of a campaign with
absolute numbers, but nothing enqueues its jobs. Most of the repository's lines are
the user interface and such clients, which keep no state that steps could reorder.

Of modelled parts: the outgoing default flag of accounts (handled as the incoming one is),
`AudioBridge` and the loops of the player, the teams of transfers, the synchronous path of
the sender, which nothing calls. What is left out is listed with each component in
`PROJECT.json`.

Some code is exported and has no caller: `packages/assignment`, `QueueManager`,
`getUserPermissionsCached`, `packages/worker`. Of those the assigner is worth a model
once it is used: round robin reads the least recently assigned member and stamps it later,
passes over members never assigned (`NULL`s sort last), and its team configuration is cached
for six hours without a delete.

## 6. Plan

In this order:

1. Hub and clients: registration against connections that close while they authenticate.
2. Rate limiters: INCR and EXPIRE against a failure between them.
3. Assignment: round robin and load balancing over a team.
4. Roles and users: the last administrator is counted and then deleted, in two calls.
