---------------------------- MODULE MessageServer ----------------------------
(***************************************************************************)
(* The two processes of docker-compose.yml over one database: the message  *)
(* server, whose handlers are those of SendDispatch, and the scheduler,    *)
(* whose jobs and webhook are those of ResultPolling.  They share the      *)
(* provider and the columns status and deliveryPollStatus of Message, and  *)
(* nothing else: a polled acceptance is one step of both.                  *)
(*                                                                         *)
(* A Message row is named after the request that creates it, in both.      *)
(* MessageEvent is split by writer: events holds what the handlers write,  *)
(* finals what a job writes, and SingleWriter is why the second follow the *)
(* first.                                                                  *)
(***************************************************************************)
EXTENDS Integers, Sequences

CONSTANTS
    Requests, Clients, Keys, NoKey, Service, Reply, Codes, NoCode,
    Bodies,               \* the body of every request
    Tag,                  \* its ketc1
    Unasked,              \* requests whose counts are in every reply of the provider
    Reports, NoReport,
    HasUrl,               \* requests of clients with a callback URL
    Jobs, MaxAttempts, BatchSize,
    MaxServerCrashes, MaxSchedulerCrashes  \* bounds

ASSUME BodyAssumption ==
    Bodies \in [Requests -> [service: DOMAIN Service, client: Clients,
                             key: Keys \union {NoKey}]]

\* What SendDispatch assumes of the six services, and ResultPolling of the
\* counts and the configuration.
ASSUME ServiceAssumption ==
    /\ Service \in [DOMAIN Service ->
                      [channel: {"TEXT", "ALIMTALK", "BRANDTALK"}, reserved: BOOLEAN,
                       checksSender: BOOLEAN, gate: {"none", "template", "profile"}]]
    /\ Reply \in [DOMAIN Service -> [onAccept: {"ACCEPTED", "SCHEDULED"},
                                     polled: BOOLEAN, fatal: SUBSET Int]]
    /\ \A s \in DOMAIN Service : Reply[s].polled => Reply[s].onAccept = "ACCEPTED"
ASSUME KeyAssumption == NoKey \notin Keys
ASSUME CodeAssumption ==
    /\ Codes \subseteq Int
    /\ NoCode \in Int \ {0}
    /\ \A s \in DOMAIN Service : 0 \notin Reply[s].fatal /\ NoCode \notin Reply[s].fatal
ASSUME ReportAssumption ==
    /\ Reports \subseteq [total: Nat \ {0}, success: Nat, failed: Nat]
    /\ NoReport \notin Reports
ASSUME BoundAssumption ==
    /\ MaxAttempts \in Nat \ {0}
    /\ BatchSize \in Nat \ {0}
    /\ MaxServerCrashes \in Nat
    /\ MaxSchedulerCrashes \in Nat

VARIABLES
    \* of the server (SendDispatch)
    pc, input, dispatch, events, answer, crashes,
    \* of the provider, as the server and as the scheduler see it
    wire, taken, code, report,
    \* of both processes
    status, poll,
    \* of the scheduler (ResultPolling)
    isRunning, step, batch, found, reply,
    attempt, reason, due, result, finals, callbacks, told, schedulerCrashes

serverVars == <<pc, input, dispatch, events, wire, taken, code, answer, crashes>>
schedulerVars == <<isRunning, step, batch, found, reply, attempt, reason, due, result,
                   finals, callbacks, report, told, schedulerCrashes>>
vars == <<serverVars, status, poll, schedulerVars>>

RowKey == [m \in Requests |-> Bodies[m].key]

Send == INSTANCE SendDispatch WITH MaxCrashes <- MaxServerCrashes
Poll == INSTANCE ResultPolling WITH
            Messages <- Requests, Key <- RowKey,
            MaxCrashes <- MaxSchedulerCrashes, crashes <- schedulerCrashes

\* Both processes over empty tables.
Init ==
    /\ Send!Init
    /\ input = Bodies
    /\ isRunning = FALSE
    /\ step = [j \in Jobs |-> "idle"]
    /\ batch = [j \in Jobs |-> <<>>]
    /\ found = [j \in Jobs |-> NoReport]
    /\ reply = [j \in Jobs |-> "none"]
    /\ attempt = [m \in Requests |-> 0]
    /\ reason = [m \in Requests |-> "none"]
    /\ due = <<>>
    /\ result = [m \in Requests |-> NoReport]
    /\ finals = [m \in Requests |-> <<>>]
    /\ callbacks = [m \in Requests |-> <<>>]
    /\ report = [m \in Requests |-> NoReport]
    /\ told = [m \in Requests |-> <<>>]
    /\ schedulerCrashes = 0

-----------------------------------------------------------------------------
\* Everything a request does but the acceptance that starts the polling.
ServeOther(r) ==
    /\ \/ Send!Receive(r) \/ Send!RejectUnauthenticated(r)
       \/ Send!PassChecks(r) \/ Send!FailChecks(r)
       \/ Send!LookupMisses(r) \/ Send!LookupHits(r)
       \/ Send!CreateMessage(r) \/ Send!RequestThrows(r)
       \/ Send!CallProvider(r) \/ Send!CallThrows(r)
       \/ Send!RecordRetryable(r) \/ Send!RecordFatal(r)
       \/ Send!RecordNetworkError(r) \/ Send!OutcomeThrows(r)
       \/ Send!ProviderTakes(r) \/ Send!ProviderRefuses(r)
       \/ /\ ~Send!ReplyOf(r).polled
          /\ Send!RecordAccepted(r)
    /\ UNCHANGED schedulerVars

\* The acceptance of a Kakao or brand talk message: its outcome transaction
\* puts the row in the polling, a reservation's possibly overdue at once.
ServeAcceptance(r) ==
    /\ Send!ReplyOf(r).polled
    /\ Send!RecordAccepted(r)
    /\ \/ Poll!Accept(r)
       \/ Send!ServiceOf(r).reserved /\ Poll!AcceptOverdue(r)

\* The provider can count only what it has taken.
CountDelivery(m) ==
    /\ taken[m]
    /\ Poll!ProviderReports(m)
    /\ UNCHANGED <<serverVars, status, poll>>

\* The scheduler, between two looks of which moments pass.
Schedule(j) ==
    /\ Poll!Tick(j) \/ Poll!Work(j)
    /\ UNCHANGED serverVars

TimePasses(m) == Poll!TimePasses(m) /\ UNCHANGED serverVars

\* Each process dies for itself.
ServerCrash == Send!Crash /\ UNCHANGED schedulerVars

SchedulerCrash == Poll!Crash /\ UNCHANGED serverVars

Next ==
    \/ \E r \in Requests :
         ServeOther(r) \/ ServeAcceptance(r) \/ CountDelivery(r) \/ TimePasses(r)
    \/ \E j \in Jobs : Schedule(j)
    \/ ServerCrash
    \/ SchedulerCrash

Spec == Init /\ [][Next]_vars

-----------------------------------------------------------------------------
(* What has to hold.                                                       *)

\* The hand-over: a row that is or was in the polling has no handler any
\* more, so the two processes never write one row at the same time, and
\* its last event before the scheduler's is the acceptance.
SingleWriter ==
    \A m \in Requests : poll[m] # "NONE" =>
        /\ pc[m] = "done"
        /\ dispatch[m] = "accepted"
        /\ events[m] # <<>> /\ events[m][Len(events[m])] = "ACCEPTED"

\* From end to end: a client whose ketc1 is its key is told only about a
\* message the provider took, and of it never more than the provider counted.
\* It needs a provider whose replies hold no records but those asked for.
ToldIsTaken ==
    \A m \in Requests : told[m] # <<>> =>
        /\ taken[m]
        /\ report[m] # NoReport
        /\ \A i \in 1 .. Len(told[m]) :
             /\ told[m][i].success <= report[m].success
             /\ told[m][i].failed <= report[m].failed

\* What an answer said of a message never turns out wrong in the other
\* process: a final status stays, an acceptance only becomes a delivery or
\* its failure.
AnswersStayTrue ==
    \A r \in Requests :
        LET m == answer[r].of IN
        /\ answer[r].status = "DELIVERED" => status[m] = "DELIVERED"
        /\ answer[r].status \in {"FAILED", "SCHEDULED", "PENDING"}
             => status[m] = answer[r].status
        /\ answer[r].status = "ACCEPTED"
             => status[m] \in {"ACCEPTED", "DELIVERED", "FAILED"}

\* The tables of both writers: the row says what its last event says, whoever
\* wrote that; and in the polling, or through it, are exactly the messages the
\* provider has accepted, and taken, for a service that polls.
DatabaseAgrees ==
    \A m \in Requests :
        /\ status[m] = Send!LogStatus(events[m] \o finals[m])
        /\ poll[m] # "NONE" <=> dispatch[m] = "accepted" /\ Send!ReplyOf(m).polled
        /\ poll[m] # "NONE" => taken[m]

-----------------------------------------------------------------------------
(* What each process may assume of the other, and what readers may assume  *)
(* of both.                                                                *)

\* The server's view: what the scheduler does to a row is not seen.
ServerStatus ==
    [m \in Requests |-> IF result[m] # NoReport THEN "ACCEPTED" ELSE status[m]]
ServerPoll ==
    [m \in Requests |-> IF poll[m] = "COMPLETE" THEN "WAITING" ELSE poll[m]]
ServerAnswer ==
    [r \in Requests |->
        IF /\ answer[r].kind = "duplicate"
           /\ answer[r].status \in {"DELIVERED", "FAILED"}
           /\ poll[answer[r].of] # "NONE"
        THEN [answer[r] EXCEPT !.status = "ACCEPTED"] ELSE answer[r]]
ServerView == INSTANCE SendDispatch WITH
    status <- ServerStatus, poll <- ServerPoll, answer <- ServerAnswer,
    MaxCrashes <- MaxServerCrashes

\* The scheduler's view: a row that is not polled is yet to come.
SchedulerStatus ==
    [m \in Requests |-> IF poll[m] = "NONE" THEN "DISPATCHING" ELSE status[m]]
SchedulerView == INSTANCE ResultPolling WITH
    Messages <- Requests, Key <- RowKey, status <- SchedulerStatus,
    MaxCrashes <- MaxSchedulerCrashes, crashes <- schedulerCrashes

Handed == [m \in Requests |-> wire[m] # "idle"]
Counted == [m \in Requests |-> result[m] # NoReport]
Told == [m \in Requests |-> told[m] # <<>>]
ReaderView == INSTANCE MessageLifecycle WITH
    Messages <- Requests, handed <- Handed, counted <- Counted, told <- Told

\* Beside the scheduler, the server is still what SendDispatch says it is.
ServerImplementsSendDispatch == ServerView!Spec

\* Beside the server, the scheduler is still what ResultPolling says it is:
\* acceptances reach it as that module assumes.
SchedulerImplementsResultPolling == SchedulerView!Spec

\* Together they keep the promise of MessageLifecycle.
ImplementsLifecycle == ReaderView!Spec
=============================================================================
