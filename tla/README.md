# A TLA+ model of sms_kakao_server

This directory holds the specification of the message server beside it: TLA+
modules translated from the TypeScript sources, TLC configurations that check
them on small instances, and proofs, checked by TLAPS, of what matters most for
every instance. Paths are relative to the repository.

Run, in this directory:

    tlc -workers 2 -config MCSendDispatch.cfg MCSendDispatch.tla
    tlc -workers 2 -config MCMessageServer.cfg MCMessageServer.tla
    tlapm SendDispatch_proofs.tla
    tlapm SendServices_proofs.tla
    tlapm ResultPolling_proofs.tla
    tlapm Sessions_proofs.tla
    tlapm Registry_proofs.tla
    tlapm MessageServer_proofs.tla

and in the same way the other configurations of the table under "The runs".

## The system

External clients (companies) send text messages (SMS, LMS), Kakao alimtalk and
brand talk messages through an HTTP API. The server keeps a row per message and
hands the message to a provider, prcompany, at once or with a reserved time. A
second process, the scheduler, asks the provider later what became of the Kakao
messages and tells the client's own server by an HTTP PATCH, the webhook. Both
processes are one Node.js event loop each (`docker-compose.yml`: `message-server`,
`message-scheduler`, restarted unless stopped) over one MySQL database; they
talk to each other through nothing but its tables.

### Inventory

| Component | State | Operations | Interacts with |
|---|---|---|---|
| Send services, six of them: `src/api/v1/client/{messages,kakao,kakao/brand}/{send,schedule}` | `Message`, `ProviderDispatch`, `MessageEvent`; in memory, a handler per request | authenticate, check client, sender and template or profile, look up the idempotency key, create, call the provider, record the outcome | the provider by HTTP; the scheduler through `Message.deliveryPollStatus` and `nextPollAt` |
| Result polling: `src/jobs/send-result-polling`, `src/libs/send-results.ts` | `Message`, `DeliveryResult`, `MessageEvent`; in memory `isRunning`, the batch | cron callback, batch query, query of one message, save, mark not found | the provider; calls the webhook |
| Webhook: `src/libs/send-result-webhook.ts` | `ClientDeliveryCallbackAttempt` | read the result, PATCH, record the attempt | the client's server |
| prcompany client: `src/libs/integrations/prcompany` | none | send endpoints, `/rslt/cnt`, normalisation of counts | the provider |
| Login sessions: `src/api/v1/client/auth`, `src/libs/auth` | `ClientUser`, `ClientRefreshToken` | login, refresh (rotation), logout, access check, user-me | the browser's cookie |
| Sign-up, client creation | `Client`, `ClientUser` | check and insert | read by every service |
| Kakao registry: `src/api/system/kakao/templates`, `src/api/v1/client/kakao/{templates,profile,...}` | `KakaoProfile`, `KakaoTemplate`, `ClientKakaoTemplate` | one transaction of upserts; reads | read by the Kakao services as a gate |
| Validation, header authentication | none | filters and reads | |
| Test endpoints: `src/api/v1/test` | as polling and webhook | the same calls by hand | 404 in production |
| HTTP shell, health, Swagger, configuration | none | wiring | |
| Billing, snapshots, request log, health log | tables in `prisma/schema.prisma` | none: no code writes them | |

What is hard in each, and what makes it correct:

* **Send services.** Every handler interleaves with every other at its awaits.
  Two copies of one request both pass the lookup; keys are unique over all
  clients but looked up per client; the process may die between the transaction
  that records a call and the call, and between the call and the transaction
  that records its outcome; the provider may take a message after the 180 s
  timeout. Correct means: a key reaches the provider once, nothing reaches it
  unrecorded, the three tables agree at every moment a query can see, a recorded
  outcome or an answer is never untrue, and every handler ends.
* **Result polling and webhook.** A job takes up to a hundred rows and spends up
  to 240 s on each, while its rows, read once, may age, the provider's counts
  change and the next tick comes; each await may fail or be the last before a
  crash; the attempt counter is written by two different statements. Correct
  means: the columns of the polling agree, a job's memory is never stale, a
  result once stored is final, a client hears of it at most once and what is on
  record about that is true, jobs end, and so does the polling of a message.
* **The two processes together.** A handler writes a row until its acceptance,
  the scheduler from then on; nothing but two columns hands it over. Correct
  means: never both, answers about a row stay true when the other process goes on
  with it, and what the client is told at the end is about a message that was sent.
* **Sessions.** A refresh checks, inserts and revokes in three statements
  without a transaction; a second refresh, a logout or a crash fit between them,
  and a browser gets its answers late, out of order or never. Correct means: a
  rotation that was answered has replaced its token, a revoked token stays
  revoked, who was out of service when asking gets nothing, what was answered
  is so in the tables.
* **Sign-up, registry.** Check-then-insert under unique indexes, alone or in a
  transaction of many upserts. Correct means: the tables fit in every state a
  query can see, nothing changes hands, nobody is told of rows that are not there.

`PROJECT.json` lists every hazard at its line, with the properties that guard it.

## The modules

| Module | What it is |
|---|---|
| `SendServices` | the constants in which the six send services differ: two records a service, one for the half up to the provider call and one for the half after it |
| `SendDispatch` | a send request, from the HTTP call to the outcome transaction, for any of the services |
| `MCSendDispatch` | values of its constants for TLC |
| `SendDispatch_proofs` | theorems about `SendDispatch` |
| `SendServices_proofs` | the same theorems for the code's six services, by INSTANCE of `SendDispatch_proofs` |
| `ResultPolling` | the scheduler process with its webhook |
| `MCResultPolling` | values of its constants for TLC |
| `ResultPolling_proofs` | theorems about `ResultPolling` |
| `ResultNormalization` | how counts are got out of a JSON reply; operators, evaluated in `MCResultPolling` |
| `MessageLifecycle` | abstract: what the tables promise whoever reads them |
| `MessageServer` | both processes over one database, by INSTANCE of `SendDispatch` and `ResultPolling`; refinements |
| `MCMessageServer` | values of its constants for TLC |
| `MessageServer_proofs` | theorems about `MessageServer`, from those about its halves |
| `Sessions`, `MCSessions`, `Sessions_proofs` | login, refresh, logout, access |
| `SessionBook` | abstract: what the sessions promise to whoever holds tokens, a rotation in one step |
| `Registry`, `MCRegistry`, `Registry_proofs` | clients, users, profiles, templates and their gates |
| `RegistryBook` | abstract: what the registry promises to its callers, a request in one step |

### SendDispatch

The six services are one handler written six times, and are modelled as one,
with `Service[s]` and `Reply[s]` saying what differs: the sender check (absent in
SMS schedule), the gate (a template in alimtalk send, a profile in brand talk),
the first event, what an acceptance is written as, whether it starts the polling
and which `ResCd` values are final: six tables, one at the head of each service file,
no two files of one channel alike (`SmsSendFatal` and its siblings).

A request creates at most one `Message`, so rows are named by their request.

| Variable | Code |
|---|---|
| `pc`, `input` | where the handler is; client, key and service of the body, and so the row's columns that are never updated |
| `status`, `poll` | `Message.status`, `Message.deliveryPollStatus` |
| `dispatch` | the `ProviderDispatch` row: not there, open, or with one of three verdicts |
| `events` | `MessageEvent` in the order of the ids |
| `wire`, `taken`, `code` | the HTTP exchange with the provider and what the provider really did |
| `answer` | what the client got |

| Action | Code (SMS send as the example) |
|---|---|
| `Receive`, `RejectUnauthenticated` | `clientBodyApiKeyAuth`, before that the body's validation |
| `PassChecks`, `FailChecks` | `send.service.ts` 71-85, and the template or profile query of the Kakao services |
| `LookupMisses`, `LookupHits` | 88-109 |
| `CreateMessage`, `RequestThrows` | the transaction of 112-165; its failure (P2002 or the database), or that of a query before it |
| `CallProvider`, `CallThrows` | 167-185, and a missing `SEND_URL` or `PR_AUTH_TOKEN` |
| `ProviderTakes`, `ProviderRefuses` | the provider, at any time after the call has left |
| `RecordAccepted`, `RecordRetryable`, `RecordFatal` | `handleProviderBusinessResponse` |
| `RecordNetworkError` | the `isAxiosError` branch of the catch |
| `OutcomeThrows` | the rethrow: the row stays DISPATCHING |
| `Crash` | every running handler is gone; what has left for the provider is not |

Abstractions. Client row and gate are read in two queries and are one action:
no code of the repository changes a client, so there is nothing to interleave
with the first, and the gate's answer is nondeterministic. A reply without a
`ResCd` is `NoCode`, any number outside all the tables. SMS and LMS are one
channel. `requestedAt`, delays, payloads and messages are left out; so is
`finalizedAt`, set with FAILED. A database call that fails has changed nothing
(a commit whose acknowledgement is lost looks, to the model, like a crash right
after it). An answer is delivered.

`TablesAgree` is what a query can rely on: `Message.status` is what the last event
says, it fits the verdict of the `ProviderDispatch`, and WAITING are exactly the
messages that were accepted for a service that polls, none left out. It takes the code
at its word where an accepted SMS reservation is SCHEDULED (see "What the violations
mean").

### ResultPolling

| Variable | Code |
|---|---|
| `isRunning` | the module variable of `send-result-polling.job.ts` |
| `step`, `batch`, `found`, `reply` | a call of the cron callback: its await, `dueMessages` with the attempt each row had, the counts and the client's reply in its locals |
| `status`, `poll`, `attempt`, `reason` | columns of `Message` |
| `due` | the rows `findMany` would return, in its order |
| `result`, `finals`, `callbacks` | `DeliveryResult`, the DELIVERED and FAILED events, `ClientDeliveryCallbackAttempt.success` |
| `report`, `told` | the provider's counts; what the client's server has received |

Time is abstracted into `due`. A `nextPollAt` to come is any moment to come
(`TimePasses`), so the sequence in which moments pass is the order of
`nextPollAt` the query asks for. A row whose moment is written as past already, as
a reservation with a past `reservedTime` can have, enters anywhere
(`AcceptOverdue`). A row whose query threw keeps its `nextPollAt`, and its place.

| Action | Code |
|---|---|
| `Accept`, `AcceptOverdue` | the polled acceptances of the send services |
| `Tick` | the cron callback up to its await; a tick while `isRunning` changes nothing |
| `Select`, `SelectThrows` | `findMany` |
| `QueryFinds`, `QueryFindsNothing`, `QueryThrows` | `syncSendResultForMessage` up to its transaction |
| `Save`, `SaveThrows` | its transaction |
| `MarkNotFound`, `MarkThrows` | `markSendResultNotFound`, with the `WHERE` of its `updateMany` |
| `Hook`, `HookThrows` | the reads of `sendKakaoSendStatusWebhook`; no URL |
| `PatchAnswered`, `PatchFails` | the PATCH; a failure may come before or after it arrived |
| `RecordAttempt`, `RecordAttemptAgain`, `RecordThrows` | the attempt row, from the try or from the catch |
| `Crash` | memory is new, the tables are not |

`EndJob` is the `finally`, `NextRow` the loop with its `catch` and `continue`,
`FirstDue` what the query returns, `NoLongerDue` a row that leaves it.

Abstractions. One scheduler process, as the compose file runs: `isRunning` is
memory of the process, and two of them would poll the same rows. `Tag` is the
ketc1 a message went to the provider with; in `MCResultPolling.cfg` and
`MCPollingEnds.cfg` it is the key, which is what the documents ask clients to do,
and `MCResultOwner.cfg` has it otherwise. `Records` is what a reply holds: what was
sent with the key, and the counts of `Unasked`, messages that are in a reply whoever it is
for. `Tagged` takes a record that carries the key if there is one, and any record if there
is none, the fallback of `normalizePrcompanyResultCountResponse`; `MCResultPolling.cfg` has
`Unasked = {m2}`, so what is checked there is checked with it, and the other configurations
have none. Counts are what the normalisation
returns with a total > 0; everything else is "not found". Whoever calls the
test endpoints is outside the model: they are not there in production.

`AwaitsLeft` counts the awaits a job can have before it, at most: five a row, and the
batch query. `JobRunsDown` says that each one that comes back leaves fewer, with an
answer or with an exception, and however many rows fall due meanwhile. It is the part
of "a job ends" that is safety, and unlike `JobEnds` needs no fairness.

### ResultNormalization

`Normalize` is `normalizePrcompanyResultCountResponse`: two searches through
arrays and objects, the choice between what they find, the defaults. A JSON value
is an object (its key under any of six names, its three counts under any of
theirs, its values in order), an array or something else; which name a field has,
and that a number may be text, is left out. The searches are recursive operators
and so stay out of the modules with theorems: `MCResultPolling` states
`NormalizationAssumption`, that over about three thousand replies (lists of up to two
objects, bare, in an object, or in an object with a key or counts of its own) they
take what a reader of all objects in order would take, and makes its `Reports` with
`Normalize`. Taking "the first counts there are" when no object carries the key is
part of what is shown: it is what the code does, and what `Tagged` of `ResultPolling`
does with it in the protocol.

### MessageServer and MessageLifecycle

`MessageServer` has the variables of both modules, `status`, `poll` and the
provider's `taken` and `report` once. Its rows are named by request in both.

| Action | Is |
|---|---|
| `ServeOther` | any action of a handler but a polled acceptance; the scheduler's variables stay |
| `ServeAcceptance` | one step of both: `RecordAccepted` of the handler is `Accept` or `AcceptOverdue` of the scheduler, one transaction in the code |
| `CountDelivery` | the provider counts what it has taken |
| `Schedule`, `TimePasses` | the scheduler |
| `ServerCrash`, `SchedulerCrash` | each container dies for itself |

`MessageEvent` is kept in two sequences, one a writer, which is sound because of
`SingleWriter`.

Three refinements, checked as temporal properties, and proved:

* `ServerImplementsSendDispatch`: with the scheduler's writes undone
  (`ServerStatus`, `ServerPoll`, and the same for the duplicate answers that report
  them), every behaviour is one of `SendDispatch`: what that module assumes of its
  environment, that nobody else changes its rows, holds beside the scheduler as
  far as a handler can tell.
* `SchedulerImplementsResultPolling`: with rows that are not yet polled masked
  (`SchedulerStatus`), every behaviour is one of `ResultPolling`: rows come to it
  as its `Accept` says, once, accepted and not before.
* `ImplementsLifecycle`: readers see the life of a message, created, handed over
  at most once, settled once, concluded once, told at most once, in that order.

`DatabaseAgrees` is about the tables themselves, without a view: a row says what its
last event says, whichever process wrote it, and in the polling, or through it, are
exactly the messages of polled services that the provider has accepted, and taken.

`ToldIsTaken` is about a provider that answers only what it is asked (`Unasked = {}`) and
clients that send their key as `ketc1`. The run has one value of a report; that a client
is never told more than the provider counted, with counts that grow between query and
webhook, is what the theorem `ToldAreTaken` adds.

The theorems about `SendDispatch` and `ResultPolling` are about each alone; the first
two refinements carry them over to both processes together.

### Sessions

A request creates at most one refresh token, so tokens, and the access token
issued with one, are named by their request.

| Variable | Code |
|---|---|
| `pc`, `asked` | where the handler is; its kind, browser, user and token |
| `status`, `owner`, `next` | `ClientRefreshToken.status` (with `revokedAt`), `clientUserId`, `replacedById` |
| `lastLogin` | which login wrote `ClientUser.lastLoginAt` |
| `active` | users who are ACTIVE and whose client is |
| `expired` | tokens past their `exp`, rows past `expiresAt` |
| `cookie`, `answer` | the browser's cookie; what a request was answered |
| `doomed` | history: requests that could get nothing from the moment they were made |

| Action | Code |
|---|---|
| `Ask`, `Deliver` | the browser: sends what it keeps, takes the answers' cookies in any order |
| `LoginReads`, `LoginRefused`, `LoginCreates` | `user-login.service.ts` 27-71, and its transaction 73-87 |
| `RefreshWithoutCookie`, `RefreshVerifies` | controller 26-32; `verifySignedToken` |
| `RefreshReads`, `RefreshCreates`, `RefreshRevokes` | `user-refresh.service.ts` 37-74, 92-100, 102-109 |
| `LogoutRevokes` | the `updateMany` of `user-logout.service.ts` |
| `MeAuthenticates`, `MeRefused`, `MeShows` | `clientUserAuth.ts`, `user-me.service.ts` |
| `Throws`, `Crash` | a query that fails; the process |
| `Expire`, `Deactivate` | time; somebody at the database, for no code does it |

Abstractions. A token is a signed text with a random `jti`: nobody makes one up.
The `exp` in a token and `expiresAt` in its row lie less than a second apart and
are one moment. Verifying an access token and reading its user is one step. A
failed login is one action, whatever the reason. Nobody is put back into service.
An access token expires only once it has been granted, and a crash that meets no
request changes nothing: neither could be told from not happening.

`SessionBook` is what a holder of tokens may rely on: a rotation is one step, in which
the old token dies and the new one comes to life, and at an earlier moment the
request was found to have a right to it (`AdmitRotation`, by a token that was
active and not past its time, of a user in service). It does not promise that a token is rotated once, for
the code checks and acts in two statements. `RotationsAreAtomic` says that `Sessions`
implements it, under a mapping: a token is `Seen` when a browser was granted it, so
the row a rotation has inserted is nobody's until the old one is revoked and the
answer given, and stays nobody's if an exception or a crash comes between. A
`Claim` is a handler that is past its check.

### Registry

| Variable | Code |
|---|---|
| `pc`, `asked`, `client`, `seen` | the handler, the body, the client it found, the snapshot its transaction reads |
| `code`, `standing`, `account` | `Client.clientCode`, `.status`, `ClientUser.account`; `Client.senderPhone`, which nothing updates, is the number in the body that created the row (`SenderPhone`) |
| `owner`, `pstatus` | `KakaoProfile.clientId`, `.status` |
| `home`, `tstatus`, `mapped` | `KakaoTemplate.profileId`, `.status`; `ClientKakaoTemplate` |
| `answer`, `shown` | what callers were told |

| Action | Code |
|---|---|
| `SignupLooksForCode`, `SignupLooksForAccount`, `SignupInserts` | `user-signup.service.ts` 22-29, 31-38, 45-87 |
| `CreateInserts` | `client.service.ts` 30-56 |
| `FindClient` | the client lookup of a registration (404), or of a Kakao service with the check of the sender's number (404 and 400, `PhoneFits`) |
| `Begin`, `Commit` | `templates.service.ts` 33-134: the reads with their checks, and the writes |
| `Gate` | `kakao/send` 84-115, `kakao/brand/*` 78-92; `kakao/schedule` has none |
| `RefuseUser` | `clientUserAuth.ts` without a user to speak for: 401 |
| `ListTemplates` | `listKakaoTemplates`, whose list may be empty |
| `ShowDetail` | `getKakaoTemplateDetail`: the template, or 404 |
| `Throws`, `Crash` | a query or transaction that fails, rolled back; the process |

Abstractions. The transaction runs at MySQL's default REPEATABLE READ: all its
reads are of the moment of the first, its writes meet the rows as they are. Prisma
makes an upsert on MySQL from a read and an insert or update, so an upsert that
read nothing inserts, and fails on the unique index if somebody was faster
(`Clash`); the writes of one transaction take effect in one step. A foreign
profile or template that is seen refuses the request before its writes; the
code interleaves the checks with the upserts, and the rollback makes that the
same. REJECTED stands for every template status but APPROVED. Names, buttons and
contents are left out, and so is the API key. A handler begins with its first query,
for before it nothing it does leaves a trace; a list's filters are the set of templates it
asks for.

`OnlyOwnersWrite` is about steps: the owner, home or status of a profile or template that
is there changes only when a registration under the owner's `clientCode`, for that very
profile, is answered as done. It is what the checks of the transaction (`Foreign`), its
unique indexes (`Clash`) and its rollback are for, and fails without any of them.

`RegistryBook` is the registry as a clerk with one book would keep it: every request is
one step, enrolled, registered, passed, shown, refused for a reason that holds at
that moment (a name that is taken, a client, number, profile or template that does not
fit, nobody logged in, nothing to show), or failed without a trace. `RequestsAreAtomic` says that `Registry`
implements it, with the same tables and answers: lookups before the transaction,
snapshots, clashes and rollbacks cannot be seen from outside.

## The runs

| Run | Module, configuration | Instance | Shows |
|---|---|---|---|
| `send_dispatch` | `MCSendDispatch.cfg` | 3 requests, 2 clients, 1 key or none, 1 service, 1 crash | the safety of the handler |
| `send_services` | `MCSendServices.cfg` | 2 requests, 1 client, 1 key or none, 6 services, the codes in which their tables differ | the six services, and that every request ends |
| `send_retry` | `MCSendRetry.cfg` | as before | violation: the promised retry |
| `result_polling` | `MCResultPolling.cfg` | 2 messages, 2 jobs, 4 attempts, a batch of 2, a reply that holds what was not asked for, 1 crash | the safety of polling and webhook, and that jobs run down; 409,328 states |
| `polling_ends` | `MCPollingEnds.cfg` | 2 messages, one without a key, a batch of 2, 3 attempts, 1 crash | jobs and polling end |
| `polling_starves` | `MCPollingStarves.cfg` | the same with a batch of 1, 2 attempts, no crash | violation: rows without a key starve the others |
| `webhook_retry` | `MCWebhookRetry.cfg` | 1 message | violation: nobody retries a webhook |
| `result_owner` | `MCResultOwner.cfg` | 2 messages, ketc1 chosen by the client | violation: another message's counts |
| `message_server` | `MCMessageServer.cfg` | 3 requests: a reserved alimtalk message and a reserved SMS of one key, a brand talk message; 1 job, 1 attempt, a batch of 1, a crash of each process; 262,888 states | the composition, its tables and its three refinements |
| `sessions` | `MCSessions.cfg` | 4 requests of 1 browser and 1 user, 1 crash; 1,030,759 states | rotations, refusals, answers, the login transaction, the refinement of `SessionBook` |
| `registry` | `MCRegistry.cfg` | 4 requests of any of 12 bodies, 2 clients, 2 profiles, 2 templates, 2 numbers, 1 account, 1 crash; 350,554 states | the tables, what callers are told, the refinement of `RegistryBook` |
| `schedule_gate` | `MCScheduleGate.cfg` (of `MCRegistry`) | 3 requests of 3 bodies, no crash | violation: a rejected template goes out by reservation |

**Why the bounds are enough.** A key conflict needs two requests; the third one
repeats after the other two have met, and with two clients each combination of
own and foreign duplicates occurs. One crash separates a request from its
repetition; a second one finds nothing new, a crash leaves nothing in memory, and
the theorems hold for any number. A service is chosen per request, so two requests
meet in every pair of services. The polling runs with the code's own limit of
four attempts. Two messages make a batch in which the second row ages while the
first one is dealt with; two jobs are the least that can overlap. The reports are
one of each kind the code tells apart: under way, delivered, failed, in part.
Four requests of a browser are a login, two rotations of its token and a logout
or an access, in every overlap, with the cookies delivered in every order; a second
user or browser meets the first in no table row but its own. In the registry the two
clients want the same profile with overlapping templates and one template for two
profiles, and a third and fourth request create the clients or look on. One number is
the clients' own and one is nobody's.
In the composition the polling has one attempt and a batch of one, for the runs of
`ResultPolling` have the counting; what is new is which process finds the row in
which state, so one key is used by a polled and by an unpolled service, and the
third message makes the job choose.
Named bounds: `MaxCrashes` in four modules, `MaxServerCrashes` and
`MaxSchedulerCrashes` in `MessageServer`; `MaxAttempts` and `BatchSize` are
parameters of the code. Requests, users and browsers are interchangeable in
`Sessions` and `Registry` (their constants are plain sets), and jobs in
`ResultPolling`: the symmetry is used in runs without liveness.

`send_*`, `sessions`, `registry` and `schedule_gate` do not check deadlock: when
all requests are answered nothing is left to do. The scheduler never stops, and
its runs, with `message_server`, check it.

**Fairness.** `SendDispatch!FairSpec` gives weak fairness to every handler: the
event loop continues it, queries return or throw, and the provider call ends by
reply or by its timeout. Clients, provider and crashes are not fair.
`ResultPolling!Scheduled` is the same for a job, with the cron and the passing of
`nextPollAt`. It is enough for `JobEnds`. `PollingEnds` needs `OutagesEnd` too, an
assumption about the environment and not about the code: the database and the
provider do not fail for ever on the same step of the same message, strong
fairness of the step's success. Without it a message whose query throws each time
is tried for ever, for `markSendResultNotFound` counts only queries that got an
answer.

## What the violations mean

Each is something a document says and the code does not do; `PROJECT.json`
quotes the lines under "findings".

* **A retry nobody makes.** PENDING and `nextRetryAt` are written, and nothing
  reads them (`RetryIsAttempted`). A repeated request gets the old row back.
* **Starvation.** A row without a key can never be asked about, is never marked,
  and stays first in the order (`PollingEnds` with a full batch).
* **A webhook nobody repeats** (`WebhookIsRetried`).
* **Counts of another message** (`ResultIsOwn`): the key of the query is the
  idempotency key, the tag of the message is a free field.
* **A reservation without a gate** (`ReservedTemplateIsApproved`): a template that was
  registered as rejected is reserved, and one that was never registered would be.

Met while modelling, without a run of their own. The first four are what the code does
every time, so no property that holds is against them; "hazards" lists them without one.

* An accepted SMS reservation goes back to SCHEDULED and stays there: it is with the
  provider, in the status of what is still to be handed over and may be canceled
  (the repository's `README.md` 156 and 166, `AGENT.md` 151-152). The diagram of states has no such arrow,
  ACCEPTED is where it leads (`README.md` 159). `OutcomeIsTrue`, `TablesAgree`,
  `DatabaseAgrees` and `MessageLifecycle` are stated about the code and accept it.
* A duplicate request is answered with the row of its key in whatever channel that was:
  the alimtalk service calls it ALIMTALK (`kakao/send/send.service.ts` 59), the SMS
  service casts what it finds (`messages/send/send.service.ts` 100), the documents have the
  endpoint's own `messageType`. `DuplicateIsOwnMessage` and `AnswersStayTrue` are about
  client, key and status, and cannot tell.
* Counts with a total and neither a success nor a failure conclude a message as FAILED, for
  good, where `README.md` 164 speaks of a final failure that was confirmed.
  `PollingAgrees`, `FinalIsFinal` and `DatabaseAgrees` have `FinalStatus` as the code
  computes it, and so endorse it.
* Counts are taken from the first record that has any when none carries the key. A provider
  whose replies held more than was asked for would have them stored for the wrong message;
  no document says whether it may.
* Two refreshes with one token that overlap both succeed, and one is no longer named by
  `replacedById`.
* A logout that meets a rotation revokes the old token and leaves the new one, of which
  the browser may never hear.

## The proofs

`SendDispatch_proofs` proves, for every value of the constants that satisfies the
named assumptions of `SendDispatch`:

| Theorem | Statement |
|---|---|
| `TypeCorrect` | `Spec => []TypeOK` |
| `ControlCorrect` | `Spec => []ControlInv` |
| `OneDispatch` | `Spec => []OneDispatchPerKey` |
| `TablesCorrect` | `Spec => []TablesAgree` |
| `OutcomesAreTrue` | `Spec => []OutcomeIsTrue` |
| `DispatchesAreRecorded` | `Spec => []NoUnrecordedDispatch` |
| `AnswersCorrect` | `Spec => [](AnswerMatchesRow /\ DuplicateIsOwnMessage)` |
| `DuplicatesAreOwn` | `Spec => []DuplicateIsOwnMessage` |
| `HistoryGrows` | `Spec => HistoryOnlyGrows` |

The assumptions are about tables that are fixed in the code: a service that
starts the polling writes ACCEPTED, the codes are integers, no final code is 0 and
a missing code is in no table, a missing key is not a key. Nothing is assumed of
the number of requests, clients, keys, services or crashes; `Requests` need not
be finite.

**The argument.** None of the properties is inductive. What is missing is where the
handler is: `ControlInv` ties `pc` to the row and to the wire (a handler before
its creating transaction has no row, one that is about to call has an open
dispatch and an idle wire, one that awaits has an open dispatch, and only a
finished handler has an outcome). `OneDispatchPerKey` needs beside it that two rows
never share a key, the unique index, which is `KeysInv`: what is on the wire has
a row, and rows have different keys. The lemma `StepCases` takes a step apart
into the few forms it can have for the database, and `RecordsAreOutcomes` and
`OutcomeForms` reduce the four recording actions to one; the later invariants are
shown from these instead of action by action. The answers need, beyond
that, that an outcome stays (`RowsStay`), which is also most of `HistoryGrows`.

`SendServices_proofs` leaves nothing of the services to assume. `SendServices` is the
table of the code; `ServicesFit` and `FatalCodes` show that it satisfies the assumptions
above, and by INSTANCE of `SendDispatch_proofs`:

| Theorem | Statement |
|---|---|
| `SixServices` | of `SendDispatch` with the six services, the seven invariants and `HistoryOnlyGrows` |
| `KakaoIsPolled` | a message is WAITING exactly when it was accepted in channel ALIMTALK or BRANDTALK, the two the scheduler's query takes |

What is left as a hypothesis is of names and numbers: a missing key is no key, codes
are integers and a missing one is written as a positive number, no code of the tables.

`ResultPolling_proofs` proves, under the named assumptions of `ResultPolling`:

| Theorem | Statement |
|---|---|
| `TypeCorrect` | `Spec => []TypeOK` |
| `RowsAgree` | `Spec => []PollingAgrees` |
| `BatchStaysFresh` | `Spec => []BatchIsFresh` |
| `FinalStays` | `Spec => FinalIsFinal` |
| `AtMostOneWebhook` | `Spec => []OneWebhook` |
| `WebhookTrue` | `Spec => []WebhookIsTrue` |
| `JobsRunDown` | `Spec => JobRunsDown` |

The assumptions: the counts are numbers with a total > 0, `NoReport` is none of
them, the attempt limit and the batch size are positive. That keys are unique is
not assumed. Nothing is assumed of the number of messages, invocations or crashes.

**The argument.** `TypeOK` is not inductive: that `attempt` stays within
`MAX_SEND_RESULT_POLL_ATTEMPT` rests on the protocol. `Types` is what is, and
`OneJob` says that `isRunning` is up while a job is at work and that there is one
such job. On these stands a circle of three, proved together as `RowsInv`:
`PollingAgrees`, because the row that `Save` or `MarkNotFound` changes is as the job
has read it; `BatchFresh`, because a query returns waiting rows, each once, and
the only job at work changes only its current one; `DueWaits`, because a
row that `Save` or `MarkNotFound` has changed is no longer due. The webhook is the second
layer, `WebInv`: between `Save` and the attempt on record, the job at work is the
only one that knows the row, and nothing has been told before. A crash there
empties the job's memory, so the webhook is dropped and cannot be doubled.
`JobsRunDown` needs that a batch is never longer than what the query may return
(`BatchBounded`, inductive by itself), and that a job can move in four ways only
(`JobMoves`): to its end, to the rows it selected, to the next row, to a later await
of the same row.

`Sessions_proofs` proves, for any requests, browsers, users and number of crashes,
of which only is assumed that `None` is none of them:

| Theorem | Statement |
|---|---|
| `TypeCorrect` | `Spec => []TypeOK` |
| `RotationsTrue` | `Spec => []RotationsAreTrue` |
| `DeadGetNothing` | `Spec => []NothingForTheDead` |
| `AnswersTrue` | `Spec => []AnswersAreTrue` |
| `LoginWhole` | `Spec => []LoginIsWhole` |
| `TokensLive` | `Spec => TokenLife` |
| `RotationsAtomic` | `Spec => RotationsAreAtomic` |

**The argument.** The inductive invariant `Inv` has nine parts. `Control` says what
a handler at each place may be (only a refresh is at `revoke`, only a login or a
refresh at `create`); `Created`, that a token exists exactly from the step that
inserts it and belongs to the user its request speaks for; `Carries`, that a request
carries only what a browser was granted; `Told`, `Rotated`, `Kept`, `LoggedIn` are the
answers, the successors, the cookies and the logins; and `Doomed`, that a doomed
request never gets past the check that stops it: the token that was revoked stays
so, the user does not come back, and the check is made after the request was. One
lemma a kind of handler (`LoginKeeps`, `RefreshKeeps`, `LogoutKeeps`, `MeKeeps`), one
for what all share (`ThrowsKeeps`, `AskKeeps`, `WorldKeeps`).

`RotationsAtomic` shows each step to be one of `SessionBook` or a stutter: the check is
`AdmitLogin` or `AdmitRotation`, the insert of a rotation a stutter, its revocation
(of a login, the insert) `Use`, a crash `Forget`. It needs one more invariant,
`Handed`: a token a request carries has been granted, and one that never was is
still ACTIVE, so neither a logout nor a second rotation can touch a row nobody has
been told of.

`Registry_proofs` proves, for any bodies, under the assumptions that a body names
known codes, keys and templates, that a registration names a template, that an alimtalk
message, a reservation and a request for details name one, and that `None` is nobody's name:

| Theorem | Statement |
|---|---|
| `TypeCorrect` | `Spec => []TypeOK` |
| `TablesFit` | `Spec => []RegistryIsWhole` |
| `AnswersTrue` | `Spec => []AnswersAreTrue` |
| `OwnersWrite` | `Spec => OnlyOwnersWrite` |
| `RequestsAtomic` | `Spec => RequestsAreAtomic` |

**The argument.** `Inv` has eight parts: types, `Control`, `Created` (a client row is
there exactly when its request was answered so), `ClientsAreApart`, `Found` (the
client a handler holds exists), `Seen`, `Kakao` (the part of `RegistryIsWhole` about
profiles and templates) and `Told`. `Seen` is the one that carries the
transaction: what a snapshot saw is still so, because nothing moves, so a
registration that is neither foreign at `Begin` nor clashes at `Commit` writes over
rows that are its client's own. `OwnersWrite` is that once more, of the step: `Seen` and
`StillFound` (below) say whose rows they are, and `Commit` is the only action that writes
them.

For `RequestsAtomic` the moment of a registration is its `Commit`: with `Seen`, what it
decided on its snapshot it would decide again. That needs the client looked up
before to be one that would be found now, with the number the message is sent from,
`StillFound`, which holds because no code changes a client's row. A refusal is a step of the moment of the read that
gave the reason, a client that meets a unique index is refused by it, and a
registration that clashes is a failure.

`MessageServer_proofs` proves, under the assumptions of the two halves, which
`MessageServer` repeats under names of its own, and so for any number of requests,
invocations and crashes of either process:

| Theorem | Statement |
|---|---|
| `OneWriter` | `Spec => []SingleWriter` |
| `ServerRefines` | `Spec => ServerImplementsSendDispatch` |
| `SchedulerRefines` | `Spec => SchedulerImplementsResultPolling` |
| `LifecycleRefines` | `Spec => ImplementsLifecycle` |
| `AnswersRemain` | `Spec => []AnswersStayTrue` |
| `DatabaseCorrect` | `Spec => []DatabaseAgrees` |
| `PromisesHold` | `Spec => []Promises` |
| `ToldAreTaken` | `Tag = RowKey` and `Unasked = {}` imply `Spec => []ToldIsTaken` |

**The argument.** No part can be shown first. The server does not disturb the
scheduler because a row in the polling has no handler any more, `SingleWriter`; the
scheduler keeps that because it writes only rows that are waiting, which is
`RowsInv` of `ResultPolling_proofs`; and `RowsInv` holds here because the server does
not disturb the scheduler. So one induction, `Invariance`, carries `Inv`: types,
`SingleWriter`, that a row with a result is accepted and over, and `RowsInv` of the
scheduler's view. The module takes the two proof modules by INSTANCE, with the
views for their variables, and their inductive steps as lemmas. A step of the
scheduler is a stutter of the server's view (`ScheduleStutters`), an action of a
handler is one of the view or a stutter (`ServerStep`, whose hard case is
a lookup that finds a row the scheduler has finished), and the acceptance is a
step of both (`AcceptanceSteps`). From the refinements the theorems of the halves come
back as facts about the whole. `DatabaseCorrect` is `TablesAgree` of the server's view
and `RowAgrees` of the scheduler's, put together row by row (`RowMatchesLog`).
`PromisesHold` is about the tables as they are, not about a view: `OneDispatchPerKey`,
`NoUnrecordedDispatch`, `DuplicateIsOwnMessage`, `OneWebhook` and `WebhookIsTrue`
hold of both processes together. `LifecycleRefines` uses `ControlInv` and `WebInv` of the
views. `ToldAreTaken` goes through both processes: the key on a row leads the
scheduler to the counts of a message that was on the wire with that key; the row
itself is accepted, so it was on the wire too (`OutcomeIsTrue`); and no two are with one
key (`OneDispatchPerKey`), so the counts are the row's own. What is stored of them
then stays a part of what the provider counts, for its counts do not fall.
`Tag = RowKey` says that clients send their key as `ketc1`; that without it the
statement is false is what the run `result_owner` shows. `Unasked = {}` says that a reply
holds no counts but those asked for; with others, the fallback of `Tagged` makes it false.

**Model-checked only.** Liveness (`EveryRequestEnds`, `JobEnds`, `PollingEnds`): TLAPS
has no ENABLED, and so no fairness. What can be proved of `JobEnds` is its measure,
`JobRunsDown`: a job that did not end would have to wait at one await for ever, which the
event loop excludes. `PollingEnds` has no such measure to prove, for a failing query
leaves everything as it was; its bound is the attempt limit of `RowsAgree`.
`ResultNormalization`: recursion over data. Every safety invariant and every
action property that a passing run checks is stated by a theorem.

## What is not modelled

* Validation and header authentication: stateless filters, whose outcome is
  nondeterministic in the models. The queries that only pass a template's buttons
  or a profile on.
* API keys, password hashes and signatures: taken for what they are for. The sender's
  number is checked in `Registry`; in `SendDispatch` the outcome of that check is
  nondeterministic, as that of the gate is.
* Generated code: two thirds of the TypeScript lines are the Prisma client under
  `src/generated/prisma`, which no source imports. The logic that is left, less
  formats, documents, routes and data transfer types, is what the modules cover;
  a larger share of the lines could be had only by mapping lines that no
  definition translates.
* Payload formats, delays and jitter, dates. A consequence worth knowing: a
  reservation's result is asked for on the day of the request, not of the sending
  (`prcompany.report.ts` 188), and the model sees this only as "not found".
* Two schedulers, a database that loses commits, the test endpoints.
* Billing, snapshots and logs have tables and no code.

## Plan

The order was that of importance: what sends a message twice or loses it, then
what a client is told, then what guards the gates. Done: `SendServices`,
`SendDispatch`, `ResultPolling`, `MessageServer` over `MessageLifecycle`,
`ResultNormalization`, `Sessions` over `SessionBook`, `Registry` over `RegistryBook`,
the proofs of the four component modules, of the composition, of all five
refinements and of the six services. What would come next, by use:

1. `Registry`'s gate in the place of the nondeterministic one of `SendDispatch`; the
   gate is read once, before the creating transaction, so what is to gain is the
   age of its answer.
2. Dates, if the day a reservation is asked about is to be more than a remark.
3. Proofs: an upper bound on the provider calls made for a message in the polling. It
   is `MaxAttempts` and one for every exception, and needs a history variable.
