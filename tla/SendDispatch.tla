---------------------------- MODULE SendDispatch ----------------------------
(***************************************************************************)
(* A send request, from the HTTP call of a client to the transaction that  *)
(* records what the provider (prcompany) answered.  Requests run           *)
(* concurrently in one server process over one MySQL database, and the     *)
(* process may crash between any two awaits of a handler.                  *)
(*                                                                         *)
(* A handler is cut at its awaits: every database query or transaction is  *)
(* one action, and the call to the provider is three (the request leaves,  *)
(* the provider decides, the handler records the reply or the failure).    *)
(*                                                                         *)
(* A request creates at most one Message row, so the row is named after    *)
(* the request: status["r"] is the row created by request r, "NONE" when   *)
(* there is none.  The columns no code updates (clientId, idempotencyKey,  *)
(* messageType) are those of input[r].  Columns that are updated are       *)
(* functions of their own: status, poll, dispatch, events.                 *)
(***************************************************************************)
EXTENDS Integers, Sequences, FiniteSets

CONSTANTS
    Requests,     \* HTTP requests the clients make
    Clients,      \* clients with an ACTIVE Client row
    Keys, NoKey,  \* idempotency keys; NoKey is a request without one
    Service,      \* request half of every service, by name (SendServices)
    Reply,        \* reply half of every service, by name (SendServices)
    Codes,        \* ResCd values of the provider
    NoCode,       \* stands for a reply body without a ResCd
    MaxCrashes    \* bound: how often the server process dies

Services == DOMAIN Service
Channels == {"TEXT", "ALIMTALK", "BRANDTALK"}

ServiceType == [channel: Channels, reserved: BOOLEAN, checksSender: BOOLEAN,
                gate: {"none", "template", "profile"}]
ReplyType == [onAccept: {"ACCEPTED", "SCHEDULED"}, polled: BOOLEAN, fatal: SUBSET Int]

ASSUME ServiceAssumption ==
    /\ Service \in [Services -> ServiceType]
    /\ Reply \in [Services -> ReplyType]
    /\ \A s \in Services : Reply[s].polled => Reply[s].onAccept = "ACCEPTED"
ASSUME KeyAssumption == NoKey \notin Keys
ASSUME CodeAssumption ==
    /\ Codes \subseteq Int
    /\ NoCode \in Int \ {0}
    /\ \A s \in Services : 0 \notin Reply[s].fatal /\ NoCode \notin Reply[s].fatal
ASSUME CrashAssumption == MaxCrashes \in Nat

\* What the body of a request says, as far as the handlers tell it apart.
Inputs == [service: Services, client: Clients, key: Keys \union {NoKey}]

VARIABLES
    \* the handlers, in memory
    pc,        \* where the handler of a request is
    input,     \* the request's body
    \* the database
    status,    \* Message.status
    poll,      \* Message.deliveryPollStatus
    dispatch,  \* the ProviderDispatch row
    events,    \* MessageEvent, in the order of their ids
    \* the provider and the wire to it
    wire,      \* "idle", "sent" (request left), "answered" (reply is there)
    taken,     \* the provider has taken the message for delivery
    code,      \* ResCd of the provider's reply
    \* what the clients see, and the bound
    answer,
    crashes

database == <<status, poll, dispatch, events>>
provider == <<wire, taken, code>>
vars == <<pc, input, status, poll, dispatch, events, wire, taken, code, answer, crashes>>

Statuses == {"NONE", "DISPATCHING", "PENDING", "SCHEDULED", "ACCEPTED", "FAILED"}
Polls == {"NONE", "WAITING"}
EventTypes == {"REQUESTED", "SCHEDULED", "DISPATCH_ATTEMPTED", "ACCEPTED", "RETRIED", "FAILED"}
Dispatches == {"none", "open", "accepted", "retryable", "fatal"}
Running == {"checks", "lookup", "create", "call", "await"}
Answers == [kind: {"none", "refused", "duplicate", "error", "result"},
            of: Requests, status: Statuses]

Exists(m) == status[m] # "NONE"
Key(r) == input[r].key
ServiceOf(r) == Service[input[r].service]
ReplyOf(r) == Reply[input[r].service]

\* Mutant: a reply without a code is taken for a final refusal.
Verdict_NoCodeIsFatal(r, c) ==
    IF c = 0 THEN "accepted"
    ELSE IF c \in ReplyOf(r).fatal \union {NoCode} THEN "fatal" ELSE "retryable"

\* isSuccess / isRetryable: 0 accepts, a code of the table is final, every
\* other code (a reply without a code too) is retryable.
Verdict(r, c) ==
    IF c = 0 THEN "accepted"
    ELSE IF c \in ReplyOf(r).fatal THEN "fatal" ELSE "retryable"

Init ==
    /\ pc = [r \in Requests |-> "new"]
    /\ input \in [Requests -> Inputs]
    /\ status = [r \in Requests |-> "NONE"]
    /\ poll = [r \in Requests |-> "NONE"]
    /\ dispatch = [r \in Requests |-> "none"]
    /\ events = [r \in Requests |-> <<>>]
    /\ wire = [r \in Requests |-> "idle"]
    /\ taken = [r \in Requests |-> FALSE]
    /\ code = [r \in Requests |-> 0]
    /\ answer = [r \in Requests |-> [kind |-> "none", of |-> r, status |-> "NONE"]]
    /\ crashes = 0

-----------------------------------------------------------------------------
(* Helpers: control moves on; the handler answers and ends.                *)

Goto(r, from, to) ==
    /\ pc[r] = from
    /\ pc' = [pc EXCEPT ![r] = to]

Finish(r, from, kind, of, st) ==
    /\ Goto(r, from, "done")
    /\ answer' = [answer EXCEPT ![r] = [kind |-> kind, of |-> of, status |-> st]]
    /\ UNCHANGED <<input, crashes>>

-----------------------------------------------------------------------------
(* The handler up to the provider call.                                    *)

\* Body validation and clientBodyApiKeyAuth let the request through.
Receive(r) ==
    /\ Goto(r, "new", "checks")
    /\ UNCHANGED <<input, database, provider, answer, crashes>>

\* ... or refuse it: 400, 401, or 500 when the query for the client fails.
RejectUnauthenticated(r) ==
    /\ Finish(r, "new", "refused", r, "NONE")
    /\ UNCHANGED <<database, provider>>

\* The client row is found, the sender number is the client's and the gate
\* is open; a request without a key skips the lookup.
PassChecks(r) ==
    /\ Goto(r, "checks", IF Key(r) = NoKey THEN "create" ELSE "lookup")
    /\ UNCHANGED <<input, database, provider, answer, crashes>>

\* A sender number that is not the client's, or a closed gate: 400.
FailChecks(r) ==
    /\ ServiceOf(r).checksSender \/ ServiceOf(r).gate # "none"
    /\ Finish(r, "checks", "refused", r, "NONE")
    /\ UNCHANGED <<database, provider>>

\* Mutant: the lookup forgets the client.
SameRequest_AnyClient(r) == {m \in Requests : Exists(m) /\ Key(m) = Key(r)}

\* The client's own messages with the key of the request.
SameRequest(r) ==
    {m \in Requests : /\ Exists(m)
                      /\ input[m].client = input[r].client
                      /\ Key(m) = Key(r)}

\* findFirst by (clientId, idempotencyKey): nothing there, go on ...
LookupMisses(r) ==
    /\ SameRequest(r) = {}
    /\ Goto(r, "lookup", "create")
    /\ UNCHANGED <<input, database, provider, answer, crashes>>

\* ... or answer with the message that is there and its status as it is now.
LookupHits(r) ==
    /\ \E m \in SameRequest(r) : Finish(r, "lookup", "duplicate", m, status[m])
    /\ UNCHANGED <<database, provider>>

\* Mutant: no unique index, the lookup has to be enough.
KeyIsFree_NoIndex(r) == TRUE

\* The unique index on Message.idempotencyKey, over all clients.
KeyIsFree(r) == \A m \in Requests : Exists(m) => Key(r) = NoKey \/ Key(m) # Key(r)

\* Mutant: the polling is set up with the row, not with the acceptance.
CreateMessage_Polls(r) ==
    /\ KeyIsFree(r)
    /\ Goto(r, "create", "call")
    /\ status' = [status EXCEPT ![r] = "DISPATCHING"]
    /\ poll' = [poll EXCEPT ![r] = "WAITING"]
    /\ dispatch' = [dispatch EXCEPT ![r] = "open"]
    /\ events' = [events EXCEPT ![r] = <<"REQUESTED", "DISPATCH_ATTEMPTED">>]
    /\ UNCHANGED <<input, provider, answer, crashes>>

\* The first transaction: Message, first event, ProviderDispatch with
\* attemptNo 1, status DISPATCHING, second event.
CreateMessage(r) ==
    /\ KeyIsFree(r)
    /\ Goto(r, "create", "call")
    /\ status' = [status EXCEPT ![r] = "DISPATCHING"]
    /\ dispatch' = [dispatch EXCEPT ![r] = "open"]
    /\ events' = [events EXCEPT ![r] =
                    <<IF ServiceOf(r).reserved THEN "SCHEDULED" ELSE "REQUESTED",
                      "DISPATCH_ATTEMPTED">>]
    /\ UNCHANGED <<input, poll, provider, answer, crashes>>

\* A query fails, or the insert hits the unique index (P2002) and the
\* transaction is rolled back: the error handler answers 500.
RequestThrows(r) ==
    /\ \E from \in {"checks", "lookup", "create"} : Finish(r, from, "error", r, "NONE")
    /\ UNCHANGED <<database, provider>>

-----------------------------------------------------------------------------
(* The provider call.  Nothing on the provider's side belongs to the       *)
(* handler: a request that left may be taken late, after the handler has   *)
(* timed out or its process has died, or never.                            *)

\* Mutant: the call leaves before the transaction that records it.
CallProvider_Unrecorded(r) ==
    /\ pc[r] \in {"create", "call"}
    /\ pc' = [pc EXCEPT ![r] = "await"]
    /\ wire' = [wire EXCEPT ![r] = "sent"]
    /\ UNCHANGED <<input, database, taken, code, answer, crashes>>

CallProvider(r) ==
    /\ Goto(r, "call", "await")
    /\ wire' = [wire EXCEPT ![r] = "sent"]
    /\ UNCHANGED <<input, database, taken, code, answer, crashes>>

\* SEND_URL or PR_AUTH_TOKEN is missing: thrown before anything leaves, no
\* AxiosError, so the catch rethrows and the row stays as it is.
CallThrows(r) ==
    /\ Finish(r, "call", "error", r, "NONE")
    /\ UNCHANGED <<database, provider>>

\* The provider takes the message and says so (or answers 2xx with a body
\* that has no ResCd), ...
ProviderTakes(r) ==
    /\ wire[r] = "sent"
    /\ wire' = [wire EXCEPT ![r] = "answered"]
    /\ taken' = [taken EXCEPT ![r] = TRUE]
    /\ \E c \in {0, NoCode} : code' = [code EXCEPT ![r] = c]
    /\ UNCHANGED <<pc, input, database, answer, crashes>>

\* ... or refuses it with a code.
ProviderRefuses(r) ==
    /\ wire[r] = "sent"
    /\ wire' = [wire EXCEPT ![r] = "answered"]
    /\ \E c \in (Codes \union {NoCode}) \ {0} : code' = [code EXCEPT ![r] = c]
    /\ UNCHANGED <<pc, input, database, taken, answer, crashes>>

-----------------------------------------------------------------------------
(* The handler after the provider call: one transaction for the outcome.   *)

\* Mutant: a call without a timeout.
CallEnded_NoTimeout(r) == wire[r] = "answered"

\* The await on the call ends: with a reply, or after 180 s without one.
CallEnded(r) == wire[r] # "idle"

Outcome(r, verdict, st, event) ==
    /\ Finish(r, "await", "result", r, st)
    /\ status' = [status EXCEPT ![r] = st]
    /\ dispatch' = [dispatch EXCEPT ![r] = verdict]
    /\ events' = [events EXCEPT ![r] = Append(@, event)]
    /\ UNCHANGED provider

\* Mutant: an acceptance is taken for a delivery.
RecordAccepted_Delivered(r) ==
    /\ wire[r] = "answered"
    /\ Verdict(r, code[r]) = "accepted"
    /\ Outcome(r, "accepted", "DELIVERED", "DELIVERED")
    /\ UNCHANGED poll

\* Mutant: every acceptance starts the polling, a reservation's too.
RecordAccepted_PollsAll(r) ==
    /\ wire[r] = "answered"
    /\ Verdict(r, code[r]) = "accepted"
    /\ Outcome(r, "accepted", ReplyOf(r).onAccept, ReplyOf(r).onAccept)
    /\ poll' = [poll EXCEPT ![r] = "WAITING"]

\* ResCd = 0.
RecordAccepted(r) ==
    /\ wire[r] = "answered"
    /\ Verdict(r, code[r]) = "accepted"
    /\ Outcome(r, "accepted", ReplyOf(r).onAccept, ReplyOf(r).onAccept)
    /\ poll' = IF ReplyOf(r).polled THEN [poll EXCEPT ![r] = "WAITING"] ELSE poll

\* A retryable code: PENDING with a nextRetryAt in the dispatch row.
RecordRetryable(r) ==
    /\ wire[r] = "answered"
    /\ Verdict(r, code[r]) = "retryable"
    /\ Outcome(r, "retryable", "PENDING", "RETRIED")
    /\ UNCHANGED poll

\* Any other code: FAILED, finalizedAt set.
RecordFatal(r) ==
    /\ wire[r] = "answered"
    /\ Verdict(r, code[r]) = "fatal"
    /\ Outcome(r, "fatal", "FAILED", "FAILED")
    /\ UNCHANGED poll

\* Mutant: a network error is final.
RecordNetworkError_Final(r) ==
    /\ CallEnded(r)
    /\ Outcome(r, "fatal", "FAILED", "FAILED")
    /\ UNCHANGED poll

\* Mutant: the row is updated and the event forgotten.
RecordNetworkError_NoEvent(r) ==
    /\ CallEnded(r)
    /\ Finish(r, "await", "result", r, "PENDING")
    /\ status' = [status EXCEPT ![r] = "PENDING"]
    /\ dispatch' = [dispatch EXCEPT ![r] = "retryable"]
    /\ UNCHANGED <<events, poll, provider>>

\* Mutant: a socket error that comes after the reply is recorded too.
RecordNetworkError_Late(r) ==
    /\ CallEnded(r)
    /\ pc[r] \in {"await", "done"} /\ dispatch[r] # "retryable"
    /\ pc' = [pc EXCEPT ![r] = "done"]
    /\ status' = [status EXCEPT ![r] = "PENDING"]
    /\ dispatch' = [dispatch EXCEPT ![r] = "retryable"]
    /\ events' = [events EXCEPT ![r] = Append(@, "RETRIED")]
    /\ UNCHANGED <<input, poll, provider, answer, crashes>>

\* An AxiosError: the 180 s timeout, a broken connection or an HTTP status
\* outside 2xx, whether or not the provider has seen the request.
RecordNetworkError(r) ==
    /\ CallEnded(r)
    /\ Outcome(r, "retryable", "PENDING", "RETRIED")
    /\ UNCHANGED poll

\* Mutant: an unexpected error marks the message FAILED before it is rethrown.
OutcomeThrows_Fails(r) ==
    /\ CallEnded(r)
    /\ Finish(r, "await", "error", r, "NONE")
    /\ status' = [status EXCEPT ![r] = "FAILED"]
    /\ UNCHANGED <<poll, dispatch, events, provider>>

\* Anything else thrown after the call left (an empty reply body, a failed
\* outcome transaction) is rethrown: 500, the row stays DISPATCHING.
OutcomeThrows(r) ==
    /\ CallEnded(r)
    /\ Finish(r, "await", "error", r, "NONE")
    /\ UNCHANGED <<database, provider>>

\* The process dies and is restarted; its handlers are gone, the database
\* and the provider are not.
Crash ==
    /\ crashes < MaxCrashes
    /\ crashes' = crashes + 1
    /\ pc' = [r \in Requests |-> IF pc[r] \in Running THEN "crashed" ELSE pc[r]]
    /\ UNCHANGED <<input, database, provider, answer>>

-----------------------------------------------------------------------------
Handler(r) ==
    \/ PassChecks(r) \/ FailChecks(r)
    \/ LookupMisses(r) \/ LookupHits(r)
    \/ CreateMessage(r) \/ RequestThrows(r)
    \/ CallProvider(r) \/ CallThrows(r)
    \/ RecordAccepted(r) \/ RecordRetryable(r) \/ RecordFatal(r)
    \/ RecordNetworkError(r) \/ OutcomeThrows(r)

Next ==
    \/ \E r \in Requests :
         \/ Receive(r) \/ RejectUnauthenticated(r)
         \/ Handler(r)
         \/ ProviderTakes(r) \/ ProviderRefuses(r)
    \/ Crash

Spec == Init /\ [][Next]_vars

\* The event loop runs every handler on: queries return or fail, and the
\* call to the provider ends within its timeout.  Nothing makes a client
\* send, the provider answer or the process crash.
FairSpec == Spec /\ \A r \in Requests : WF_vars(Handler(r))

-----------------------------------------------------------------------------
(* What has to hold.                                                       *)

\* The variables have the values the code and the schema allow.
TypeOK ==
    /\ pc \in [Requests -> Running \union {"new", "done", "crashed"}]
    /\ input \in [Requests -> Inputs]
    /\ status \in [Requests -> Statuses]
    /\ poll \in [Requests -> Polls]
    /\ dispatch \in [Requests -> Dispatches]
    /\ events \in [Requests -> Seq(EventTypes)]
    /\ wire \in [Requests -> {"idle", "sent", "answered"}]
    /\ taken \in [Requests -> BOOLEAN]
    /\ code \in [Requests -> Int]
    /\ answer \in [Requests -> Answers]
    /\ crashes \in 0 .. MaxCrashes

\* An idempotency key reaches the provider at most once: neither concurrent
\* duplicates, nor two clients that use one key, nor a client that repeats a
\* request after an error or a crash make a second provider call.
OneDispatchPerKey ==
    \A r1, r2 \in Requests :
        /\ r1 # r2
        /\ wire[r1] # "idle"
        /\ wire[r2] # "idle"
        => Key(r1) = NoKey \/ Key(r1) # Key(r2)

\* Nothing leaves for the provider that the database does not know of: a
\* message the provider may have taken has its row, its open or answered
\* dispatch and its attempt event, whatever happened to the handler since.
NoUnrecordedDispatch ==
    \A r \in Requests : wire[r] # "idle" =>
        /\ Exists(r)
        /\ dispatch[r] # "none"
        /\ \E i \in 1 .. Len(events[r]) : events[r][i] = "DISPATCH_ATTEMPTED"

\* The recorded outcome never contradicts the provider: an accepted (or
\* reserved) message has been taken, and a failed one has not been and will
\* not be, in spite of timeouts and of requests that arrive late.
OutcomeIsTrue ==
    \A r \in Requests :
        /\ status[r] \in {"ACCEPTED", "SCHEDULED"} => taken[r]
        /\ status[r] = "FAILED" => ~taken[r] /\ wire[r] = "answered"

\* The status an event log ends with.
LogStatus(log) ==
    IF log = <<>> THEN "NONE"
    ELSE CASE log[Len(log)] = "DISPATCH_ATTEMPTED" -> "DISPATCHING"
           [] log[Len(log)] = "RETRIED" -> "PENDING"
           [] OTHER -> log[Len(log)]

\* Message, MessageEvent and ProviderDispatch tell the same story in every
\* state a query can see, and what is being polled is ACCEPTED: every message
\* the provider has accepted for a service that polls, and no other.
TablesAgree ==
    \A r \in Requests :
        /\ status[r] = LogStatus(events[r])
        /\ dispatch[r] = "none" <=> status[r] = "NONE"
        /\ dispatch[r] = "open" <=> status[r] = "DISPATCHING"
        /\ dispatch[r] = "retryable" <=> status[r] = "PENDING"
        /\ dispatch[r] = "fatal" <=> status[r] = "FAILED"
        /\ poll[r] = "WAITING" => status[r] = "ACCEPTED"
        /\ poll[r] = "WAITING" <=> dispatch[r] = "accepted" /\ ReplyOf(r).polled

\* MESSAGE_DUPLICATE_REQUEST points to a message of the same client and key
\* that an earlier request created, and the request that got it has neither
\* created a message nor called the provider.
DuplicateIsOwnMessage ==
    \A r \in Requests : answer[r].kind = "duplicate" =>
        LET m == answer[r].of IN
        /\ m # r
        /\ Exists(m)
        /\ input[m].client = input[r].client
        /\ Key(m) = Key(r) /\ Key(r) # NoKey
        /\ ~Exists(r) /\ wire[r] = "idle"

\* What a client has been told stays true of the table: the status in a
\* result is the row's, a refused request left nothing behind, and an error
\* never hides a message whose outcome is recorded.
AnswerMatchesRow ==
    \A r \in Requests :
        /\ answer[r].kind = "result" => status[r] = answer[r].status
        /\ answer[r].kind = "refused" => ~Exists(r) /\ wire[r] = "idle"
        /\ answer[r].kind = "error" => status[r] \in {"NONE", "DISPATCHING"}

\* What a step may do to a row and its log.
RowGrows(r) ==
    /\ \/ status'[r] = status[r]
       \/ status[r] = "NONE" /\ status'[r] = "DISPATCHING"
       \/ status[r] = "DISPATCHING" /\ status'[r] # "NONE"
    /\ Len(events[r]) <= Len(events'[r])
    /\ \A i \in 1 .. Len(events[r]) : events'[r][i] = events[r][i]

\* A row is born DISPATCHING, leaves that status once, for an outcome, and
\* keeps its outcome; events are only appended.
HistoryOnlyGrows == [][\A r \in Requests : RowGrows(r)]_vars

\* Every request that got past authentication is answered, unless the
\* process dies under it, whatever the provider does.
EveryRequestEnds ==
    \A r \in Requests : pc[r] = "checks" ~> pc[r] \in {"done", "crashed"}

-----------------------------------------------------------------------------
(* What the documents say and the code does not do.                        *)

\* AGENT.md and the MESSAGE_RETRY_SCHEDULED answer: a retryable failure is
\* put in line for a retry, so that the message does not stay PENDING.
RetryIsAttempted ==
    \A r \in Requests : status[r] = "PENDING" ~> status[r] # "PENDING"
=============================================================================
