---------------------------- MODULE ResultPolling ----------------------------
(***************************************************************************)
(* The scheduler process: from an ACCEPTED Kakao or brand talk message to  *)
(* its DeliveryResult and the webhook that tells the client.  Every five   *)
(* minutes a cron callback, here a job, takes the messages whose           *)
(* nextPollAt has passed, asks the provider for the counts of each one in  *)
(* turn, and stores the counts, or counts a fruitless attempt.             *)
(*                                                                         *)
(* A job is cut at its awaits; every await may fail, the process may crash *)
(* at each of them, and meanwhile messages are accepted, nextPollAt times  *)
(* pass and the provider's counts change.                                  *)
(*                                                                         *)
(* There is no clock.  A nextPollAt in the future is any moment to come,   *)
(* so the messages that are due are a sequence in the order in which their *)
(* moments passed, which is the order of nextPollAt the query asks for.    *)
(***************************************************************************)
EXTENDS Integers, Sequences, SequencesExt

CONSTANTS
    Messages,     \* ALIMTALK and BRANDTALK rows
    NoKey,        \* idempotencyKey or Ketc1 that was not given
    Key,          \* Message.idempotencyKey; a unique index keeps those of rows apart
    Tag,          \* the ketc1 the message went to the provider with
    Unasked,      \* messages whose counts are in a reply whatever key it is for
    Reports,      \* normalized counts of the provider, [total, success, failed]
    NoReport,     \* nothing there yet
    HasUrl,       \* messages of clients with a callback URL
    Jobs,         \* invocations of the cron callback
    MaxAttempts,  \* MAX_SEND_RESULT_POLL_ATTEMPT
    BatchSize,    \* DEFAULT_SEND_RESULT_POLL_BATCH_SIZE
    MaxCrashes    \* bound: how often the scheduler process dies

ASSUME ReportAssumption ==
    /\ Reports \subseteq [total: Nat \ {0}, success: Nat, failed: Nat]
    /\ NoReport \notin Reports
ASSUME BoundAssumption ==
    /\ MaxAttempts \in Nat \ {0}
    /\ BatchSize \in Nat \ {0}
    /\ MaxCrashes \in Nat

VARIABLES
    \* the scheduler process, in memory
    isRunning,  \* a job is at work
    step,       \* where a job is
    batch,      \* rows a job still has to do, with the attempt it read
    found,      \* counts a job holds
    reply,      \* how the client's server took a job's PATCH
    \* the database
    status,     \* Message.status
    poll,       \* Message.deliveryPollStatus
    attempt,    \* Message.deliveryPollAttempt
    reason,     \* Message.statusReasonCode
    due,        \* WAITING rows whose nextPollAt has passed, oldest first
    result,     \* the DeliveryResult row
    finals,     \* DELIVERED and FAILED events of a message
    callbacks,  \* success of its ClientDeliveryCallbackAttempt rows
    \* outside
    report,     \* what the provider answers about a message
    told,       \* counts the client's server has been sent
    crashes

job == <<isRunning, step, batch, found, reply>>
rows == <<status, poll, attempt, reason, due, result, finals>>
outside == <<report, told, crashes>>
vars == <<isRunning, step, batch, found, reply, status, poll, attempt, reason, due,
          result, finals, callbacks, report, told, crashes>>

Steps == {"idle", "select", "query", "save", "mark", "hook", "patch", "record"}
Statuses == {"DISPATCHING", "ACCEPTED", "DELIVERED", "FAILED"}
Entries == [of: Messages, attempt: Nat]

FinalStatus(c) == IF c.success > 0 THEN "DELIVERED" ELSE "FAILED"

StatusReason(c) ==
    CASE c.success > 0 /\ c.failed > 0 -> "partial"
      [] c.success = 0 /\ c.failed > 0 -> "failed"
      [] OTHER -> "none"

Init ==
    /\ isRunning = FALSE
    /\ step = [j \in Jobs |-> "idle"]
    /\ batch = [j \in Jobs |-> <<>>]
    /\ found = [j \in Jobs |-> NoReport]
    /\ reply = [j \in Jobs |-> "none"]
    /\ status = [m \in Messages |-> "DISPATCHING"]
    /\ poll = [m \in Messages |-> "NONE"]
    /\ attempt = [m \in Messages |-> 0]
    /\ reason = [m \in Messages |-> "none"]
    /\ due = <<>>
    /\ result = [m \in Messages |-> NoReport]
    /\ finals = [m \in Messages |-> <<>>]
    /\ callbacks = [m \in Messages |-> <<>>]
    /\ report = [m \in Messages |-> NoReport]
    /\ told = [m \in Messages |-> <<>>]
    /\ crashes = 0

IsDue(m) == \E i \in 1 .. Len(due) : due[i] = m

\* nextPollAt of m is moved to the future, or its poll status out of the query.
NoLongerDue(m) ==
    due' = IF IsDue(m) THEN RemoveAt(due, CHOOSE i \in 1 .. Len(due) : due[i] = m) ELSE due

-----------------------------------------------------------------------------
(* Outside the scheduler.                                                  *)

\* A send service records the acceptance, with nextPollAt to come ...
Accepted(m) ==
    /\ status[m] = "DISPATCHING"
    /\ status' = [status EXCEPT ![m] = "ACCEPTED"]
    /\ poll' = [poll EXCEPT ![m] = "WAITING"]
    /\ attempt' = [attempt EXCEPT ![m] = 0]
    /\ reason' = [reason EXCEPT ![m] = "none"]
    /\ UNCHANGED <<job, result, finals, callbacks, outside>>

Accept(m) == Accepted(m) /\ UNCHANGED due

\* ... or past already: a reservation is polled five minutes after its
\* reservedTime, which may be any time at all.
AcceptOverdue(m) ==
    /\ Accepted(m)
    /\ \E i \in 1 .. Len(due) + 1 : due' = InsertAt(due, i, m)

TimePasses(m) ==
    /\ poll[m] = "WAITING" /\ ~IsDue(m)
    /\ due' = Append(due, m)
    /\ UNCHANGED <<job, status, poll, attempt, reason, result, finals, callbacks, outside>>

\* The provider has counts for a message, and they may grow.
ProviderReports(m) ==
    /\ \E c \in Reports :
         /\ report[m] # NoReport => /\ report[m] # c
                                    /\ report[m].total = c.total
                                    /\ report[m].success <= c.success
                                    /\ report[m].failed <= c.failed
         /\ report' = [report EXCEPT ![m] = c]
    /\ UNCHANGED <<job, rows, callbacks, told, crashes>>

-----------------------------------------------------------------------------
(* A job: the cron callback, and pollDueSendResults inside it.             *)

Current(j) == batch[j][1].of

Goto(j, to) == step' = [step EXCEPT ![j] = to]

\* The job is over, by its return or by an exception: finally.
EndJob(j) ==
    /\ Goto(j, "idle")
    /\ batch' = [batch EXCEPT ![j] = <<>>]
    /\ isRunning' = FALSE

\* Mutant: after the last row the next batch is taken, until nothing is due.
NextRow_TakesMore(j) ==
    /\ IF Len(batch[j]) = 1
       THEN Goto(j, "select") /\ batch' = [batch EXCEPT ![j] = <<>>]
       ELSE Goto(j, "query") /\ batch' = [batch EXCEPT ![j] = Tail(@)]
    /\ UNCHANGED isRunning
    /\ found' = [found EXCEPT ![j] = NoReport]
    /\ reply' = [reply EXCEPT ![j] = "none"]

\* Done with the current row, for better or worse: the next iteration, with
\* locals of its own.
NextRow(j) ==
    /\ IF Len(batch[j]) = 1 THEN EndJob(j)
       ELSE /\ Goto(j, "query")
            /\ batch' = [batch EXCEPT ![j] = Tail(@)]
            /\ UNCHANGED isRunning
    /\ found' = [found EXCEPT ![j] = NoReport]
    /\ reply' = [reply EXCEPT ![j] = "none"]

\* Mutant: nothing keeps a job from starting while another one is at work.
Tick_Unguarded(j) ==
    /\ step[j] = "idle"
    /\ isRunning' = TRUE
    /\ Goto(j, "select")
    /\ UNCHANGED <<batch, found, reply, rows, callbacks, outside>>

\* Every five minutes, unless the previous job is still running.
Tick(j) ==
    /\ step[j] = "idle"
    /\ ~isRunning
    /\ isRunning' = TRUE
    /\ Goto(j, "select")
    /\ UNCHANGED <<batch, found, reply, rows, callbacks, outside>>

\* findMany: the first BatchSize due rows, each with its attempt as it is.
FirstDue ==
    [i \in 1 .. (IF Len(due) < BatchSize THEN Len(due) ELSE BatchSize)
       |-> [of |-> due[i], attempt |-> attempt[due[i]]]]

\* Mutant: a job that finds nothing to do returns without the finally.
Select_LeavesRunning(j) ==
    /\ step[j] = "select"
    /\ IF due = <<>> THEN Goto(j, "idle") /\ UNCHANGED batch
       ELSE /\ Goto(j, "query")
            /\ batch' = [batch EXCEPT ![j] = FirstDue]
    /\ UNCHANGED <<isRunning, found, reply, rows, callbacks, outside>>

\* The query's answer: rows to do, or none.
Select(j) ==
    /\ step[j] = "select"
    /\ IF due = <<>> THEN EndJob(j)
       ELSE /\ Goto(j, "query")
            /\ batch' = [batch EXCEPT ![j] = FirstDue]
            /\ UNCHANGED isRunning
    /\ UNCHANGED <<found, reply, rows, callbacks, outside>>

SelectThrows(j) ==
    /\ step[j] = "select"
    /\ EndJob(j)
    /\ UNCHANGED <<found, reply, rows, callbacks, outside>>

\* Mutant: the provider is asked without the key.
Tagged_AnyKey(key) == {n \in Messages : report[n] # NoReport}

\* The records in the provider's reply: it looks for the key in the Ketc1 the
\* messages were sent with.
Records(key) == {n \in Messages : report[n] # NoReport /\ (Tag[n] = key \/ n \in Unasked)}

\* The records the counts can be read from: those that carry the key, or any
\* of them when none does.
Tagged(key) ==
    LET own == {n \in Records(key) : Tag[n] = key}
    IN  IF own # {} THEN own ELSE Records(key)

\* syncSendResultForMessage up to its transaction: counts with a total > 0, ...
QueryFinds(j) ==
    /\ step[j] = "query"
    /\ Key[Current(j)] # NoKey
    /\ \E n \in Tagged(Key[Current(j)]) : found' = [found EXCEPT ![j] = report[n]]
    /\ Goto(j, "save")
    /\ UNCHANGED <<isRunning, batch, reply, rows, callbacks, outside>>

\* ... no counts, ...
QueryFindsNothing(j) ==
    /\ step[j] = "query"
    /\ Key[Current(j)] # NoKey
    /\ Tagged(Key[Current(j)]) = {}
    /\ Goto(j, "mark")
    /\ UNCHANGED <<isRunning, batch, found, reply, rows, callbacks, outside>>

\* Mutant: no try around an iteration, an exception ends the whole job.
QueryThrows_EndsJob(j) ==
    /\ step[j] = "query"
    /\ EndJob(j)
    /\ UNCHANGED <<found, reply, rows, callbacks, outside>>

\* ... or an exception: a row without a key, the provider, the database.
\* The row is left as it is, and due.
QueryThrows(j) ==
    /\ step[j] = "query"
    /\ NextRow(j)
    /\ UNCHANGED <<rows, callbacks, outside>>

\* Mutant: the polling is not completed with the result.
Save_StaysWaiting(j) ==
    LET m == Current(j) IN
    /\ step[j] = "save"
    /\ result' = [result EXCEPT ![m] = found[j]]
    /\ status' = [status EXCEPT ![m] = FinalStatus(found[j])]
    /\ reason' = [reason EXCEPT ![m] = StatusReason(found[j])]
    /\ attempt' = [attempt EXCEPT ![m] = @ + 1]
    /\ finals' = [finals EXCEPT ![m] = Append(@, FinalStatus(found[j]))]
    /\ Goto(j, "hook")
    /\ UNCHANGED <<isRunning, batch, found, reply, poll, due, callbacks, outside>>

\* The transaction of syncSendResultForMessage: DeliveryResult, the row and
\* its event.
Save(j) ==
    LET m == Current(j) IN
    /\ step[j] = "save"
    /\ result' = [result EXCEPT ![m] = found[j]]
    /\ status' = [status EXCEPT ![m] = FinalStatus(found[j])]
    /\ reason' = [reason EXCEPT ![m] = StatusReason(found[j])]
    /\ poll' = [poll EXCEPT ![m] = "COMPLETE"]
    /\ attempt' = [attempt EXCEPT ![m] = @ + 1]
    /\ NoLongerDue(m)
    /\ finals' = [finals EXCEPT ![m] = Append(@, FinalStatus(found[j]))]
    /\ Goto(j, "hook")
    /\ UNCHANGED <<isRunning, batch, found, reply, callbacks, outside>>

SaveThrows(j) ==
    /\ step[j] = "save"
    /\ NextRow(j)
    /\ UNCHANGED <<rows, callbacks, outside>>

\* Mutant: one attempt too many before the polling ends.
Exhausted_Late(n) == n > MaxAttempts

Exhausted(n) == n >= MaxAttempts

\* Mutant: a row that is given up is marked FAILED.
MarkNotFound_Fails(j) ==
    LET m == Current(j) IN
    /\ step[j] = "mark"
    /\ attempt' = [attempt EXCEPT ![m] = @ + 1]
    /\ NoLongerDue(m)
    /\ IF Exhausted(attempt[m] + 1)
       THEN /\ poll' = [poll EXCEPT ![m] = "COMPLETE"]
            /\ status' = [status EXCEPT ![m] = "FAILED"]
            /\ reason' = [reason EXCEPT ![m] = "notFound"]
       ELSE UNCHANGED <<poll, status, reason>>
    /\ NextRow(j)
    /\ UNCHANGED <<result, finals, callbacks, outside>>

\* markSendResultNotFound: a later nextPollAt, or the end of the polling.
MarkNotFound(j) ==
    LET m == Current(j)
        nextAttempt == batch[j][1].attempt + 1
    IN
    /\ step[j] = "mark"
    /\ IF status[m] = "ACCEPTED" /\ poll[m] = "WAITING"
       THEN /\ attempt' = [attempt EXCEPT ![m] = nextAttempt]
            /\ NoLongerDue(m)
            /\ IF Exhausted(nextAttempt)
               THEN /\ poll' = [poll EXCEPT ![m] = "COMPLETE"]
                    /\ reason' = [reason EXCEPT ![m] = "notFound"]
               ELSE UNCHANGED <<poll, reason>>
       ELSE UNCHANGED <<attempt, due, poll, reason>>
    /\ NextRow(j)
    /\ UNCHANGED <<status, result, finals, callbacks, outside>>

MarkThrows(j) ==
    /\ step[j] = "mark"
    /\ NextRow(j)
    /\ UNCHANGED <<rows, callbacks, outside>>

-----------------------------------------------------------------------------
(* sendKakaoSendStatusWebhook, once, for a row just saved.                 *)

\* The row, its result and the number of earlier attempts are read.
Hook(j) ==
    /\ step[j] = "hook"
    /\ Current(j) \in HasUrl
    /\ result[Current(j)] # NoReport
    /\ found' = [found EXCEPT ![j] = result[Current(j)]]
    /\ Goto(j, "patch")
    /\ UNCHANGED <<isRunning, batch, reply, rows, callbacks, outside>>

\* No URL, or the database fails: nothing is sent, nothing recorded.
HookThrows(j) ==
    /\ step[j] = "hook"
    /\ NextRow(j)
    /\ UNCHANGED <<rows, callbacks, outside>>

\* The client's server answers 2xx or something else, ...
PatchAnswered(j) ==
    /\ step[j] = "patch"
    /\ told' = [told EXCEPT ![Current(j)] = Append(@, found[j])]
    /\ \E how \in {"ok", "refused"} : reply' = [reply EXCEPT ![j] = how]
    /\ Goto(j, "record")
    /\ UNCHANGED <<isRunning, batch, found, rows, callbacks, report, crashes>>

\* ... or the connection fails or times out, before or after the request
\* has arrived.
PatchFails(j) ==
    /\ step[j] = "patch"
    /\ \/ told' = [told EXCEPT ![Current(j)] = Append(@, found[j])]
       \/ UNCHANGED told
    /\ reply' = [reply EXCEPT ![j] = "lost"]
    /\ Goto(j, "record")
    /\ UNCHANGED <<isRunning, batch, found, rows, callbacks, report, crashes>>

\* Mutant: whatever is not an HTTP error is a success.
Succeeded_Lost(how) == how # "refused"

Succeeded(how) == how = "ok"

RecordAttempt(j) ==
    /\ step[j] = "record"
    /\ callbacks' = [callbacks EXCEPT ![Current(j)] = Append(@, Succeeded(reply[j]))]
    /\ NextRow(j)
    /\ UNCHANGED <<rows, outside>>

\* The row cannot be written after an answer: the catch, meant for the
\* PATCH, writes a failed attempt, whatever the answer was.
RecordAttemptAgain(j) ==
    /\ step[j] = "record"
    /\ reply[j] # "lost"
    /\ callbacks' = [callbacks EXCEPT ![Current(j)] = Append(@, FALSE)]
    /\ NextRow(j)
    /\ UNCHANGED <<rows, outside>>

RecordThrows(j) ==
    /\ step[j] = "record"
    /\ NextRow(j)
    /\ UNCHANGED <<rows, callbacks, outside>>

\* The scheduler dies and is restarted: no job, and isRunning is new.
Crash ==
    /\ crashes < MaxCrashes
    /\ crashes' = crashes + 1
    /\ isRunning' = FALSE
    /\ step' = [j \in Jobs |-> "idle"]
    /\ batch' = [j \in Jobs |-> <<>>]
    /\ found' = [j \in Jobs |-> NoReport]
    /\ reply' = [j \in Jobs |-> "none"]
    /\ UNCHANGED <<rows, callbacks, report, told>>

-----------------------------------------------------------------------------
Work(j) ==
    \/ Select(j) \/ SelectThrows(j)
    \/ QueryFinds(j) \/ QueryFindsNothing(j) \/ QueryThrows(j)
    \/ Save(j) \/ SaveThrows(j)
    \/ MarkNotFound(j) \/ MarkThrows(j)
    \/ Hook(j) \/ HookThrows(j)
    \/ PatchAnswered(j) \/ PatchFails(j)
    \/ RecordAttempt(j) \/ RecordAttemptAgain(j) \/ RecordThrows(j)

Next ==
    \/ \E m \in Messages :
         Accept(m) \/ AcceptOverdue(m) \/ TimePasses(m) \/ ProviderReports(m)
    \/ \E j \in Jobs : Tick(j) \/ Work(j)
    \/ Crash

Spec == Init /\ [][Next]_vars

\* The cron fires, moments pass and the event loop runs a job on: every
\* await of it ends, if with an exception.
Scheduled ==
    /\ WF_vars(\E j \in Jobs : Tick(j))
    /\ \A j \in Jobs : WF_vars(Work(j))
    /\ \A m \in Messages : WF_vars(TimePasses(m))

\* The database and the provider do not fail for ever.
OutagesEnd ==
    /\ SF_vars(\E j \in Jobs : Select(j))
    /\ \A m \in Messages :
         /\ SF_vars(\E j \in Jobs : batch[j] # <<>> /\ Current(j) = m
                                    /\ (QueryFinds(j) \/ QueryFindsNothing(j)))
         /\ SF_vars(\E j \in Jobs : batch[j] # <<>> /\ Current(j) = m
                                    /\ (Save(j) \/ MarkNotFound(j)))

FairSpec == Spec /\ Scheduled /\ OutagesEnd

-----------------------------------------------------------------------------
(* What has to hold.                                                       *)

\* The variables have the values the code and the schema allow.
TypeOK ==
    /\ isRunning \in BOOLEAN
    /\ step \in [Jobs -> Steps]
    /\ batch \in [Jobs -> Seq(Entries)]
    /\ found \in [Jobs -> Reports \union {NoReport}]
    /\ reply \in [Jobs -> {"none", "ok", "refused", "lost"}]
    /\ status \in [Messages -> Statuses]
    /\ poll \in [Messages -> {"NONE", "WAITING", "COMPLETE"}]
    /\ attempt \in [Messages -> 0 .. MaxAttempts]
    /\ reason \in [Messages -> {"none", "partial", "failed", "notFound"}]
    /\ due \in Seq(Messages)
    /\ result \in [Messages -> Reports \union {NoReport}]
    /\ finals \in [Messages -> Seq({"DELIVERED", "FAILED"})]
    /\ callbacks \in [Messages -> Seq(BOOLEAN)]
    /\ report \in [Messages -> Reports \union {NoReport}]
    /\ told \in [Messages -> Seq(Reports)]
    /\ crashes \in 0 .. MaxCrashes

RowAgrees(m) ==
    /\ poll[m] = "NONE" <=> status[m] = "DISPATCHING"
    /\ poll[m] = "NONE" => attempt[m] = 0
    /\ poll[m] = "WAITING" => /\ status[m] = "ACCEPTED" /\ reason[m] = "none"
                              /\ attempt[m] < MaxAttempts
    /\ poll[m] = "COMPLETE" /\ result[m] = NoReport =>
         /\ status[m] = "ACCEPTED" /\ reason[m] = "notFound"
         /\ attempt[m] = MaxAttempts
    /\ result[m] # NoReport =>
         /\ poll[m] = "COMPLETE" /\ attempt[m] \in 1 .. MaxAttempts
         /\ status[m] = FinalStatus(result[m])
         /\ reason[m] = StatusReason(result[m])
    /\ finals[m] = IF result[m] = NoReport THEN <<>> ELSE <<status[m]>>

\* A row is waiting, with attempts left and nothing known; or complete with
\* a result its status, its reason and its one final event agree with; or
\* given up, ACCEPTED, after exactly MaxAttempts attempts.
PollingAgrees == \A m \in Messages : RowAgrees(m)

\* What a job has in memory is still what the database says: the rows it
\* has to do are waiting, with the attempt it read, however long the rows
\* before them took.
BatchIsFresh ==
    \A j \in Jobs : step[j] \in {"query", "save", "mark"} =>
        \A i \in 1 .. Len(batch[j]) :
            /\ poll[batch[j][i].of] = "WAITING"
            /\ attempt[batch[j][i].of] = batch[j][i].attempt
            /\ \A k \in 1 .. Len(batch[j]) : k # i => batch[j][k].of # batch[j][i].of

\* A client hears of a message at most once, and at most one attempt to
\* tell it is on record, through crashes and failing writes.
OneWebhook ==
    \A m \in Messages : Len(told[m]) <= 1 /\ Len(callbacks[m]) <= 1

\* The counts a client has heard are the ones that are stored, and an
\* attempt on record as a success has reached the client.
WebhookIsTrue ==
    \A m \in Messages :
        /\ \A i \in 1 .. Len(told[m]) : result[m] = told[m][i]
        /\ \A i \in 1 .. Len(callbacks[m]) : callbacks[m][i] => told[m] # <<>>

\* DELIVERED and FAILED are final: the provider's later counts change
\* neither the row nor its result.
FinalIsFinal ==
    [][\A m \in Messages : result[m] # NoReport =>
          /\ result'[m] = result[m]
          /\ status'[m] = status[m]
          /\ attempt'[m] = attempt[m]
          /\ finals'[m] = finals[m]]_vars

\* How many awaits a job can have before it, at most: five for a row, which are
\* the query, the transaction and the three of the webhook.
AwaitsOfRow == [query |-> 5, save |-> 4, hook |-> 3, patch |-> 2, record |-> 1, mark |-> 1]
AwaitsLeft(j) ==
    CASE step[j] = "idle" -> 0
      [] step[j] = "select" -> 5 * BatchSize + 1
      [] OTHER -> 5 * (Len(batch[j]) - 1) + AwaitsOfRow[step[j]]

\* A job runs down: whatever an await of it brings, exceptions and other rows
\* that fall due included, there are fewer left than before it.
JobRunsDown ==
    [][\A j \in Jobs : step[j] # "idle" =>
          \/ step'[j] = step[j] /\ batch'[j] = batch[j]
          \/ AwaitsLeft(j)' \in 0 .. AwaitsLeft(j) - 1]_vars

\* A job ends, so that isRunning never keeps the later ones away for good.
JobEnds == isRunning ~> ~isRunning

\* The polling of a message with a key comes to an end.
PollingEnds ==
    \A m \in Messages : Key[m] # NoKey =>
        (poll[m] = "WAITING" ~> poll[m] = "COMPLETE")

-----------------------------------------------------------------------------
(* What the documents say and the code does not do.                        *)

\* schema.prisma: nextRetryAt of a callback attempt is when the next try to
\* tell the client is due.
WebhookIsRetried ==
    \A m \in Messages : callbacks[m] = <<FALSE>> ~> Len(callbacks[m]) > 1

\* test-send-result.yaml: the idempotencyKey the results are asked for with
\* is the one the message was sent with.  The counts stored for a message
\* are then counts of that message.
ResultIsOwn ==
    \A m \in Messages : result[m] # NoReport => report[m] # NoReport
=============================================================================
