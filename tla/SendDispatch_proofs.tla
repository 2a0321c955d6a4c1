------------------------ MODULE SendDispatch_proofs -------------------------
(***************************************************************************)
(* Proofs about SendDispatch, for any sets of requests, clients and keys,  *)
(* any table of services and any number of crashes.                        *)
(***************************************************************************)
EXTENDS SendDispatch, TLAPS

(***************************************************************************)
(* Type correctness.                                                       *)
(***************************************************************************)

\* Appending an event to a log gives a log; the verdict is a state of a
\* dispatch row; an accepted message gets one of the two accepted statuses.
LEMMA TypedHelpers ==
    /\ \A log \in Seq(EventTypes), e \in EventTypes : Append(log, e) \in Seq(EventTypes)
    /\ \A r \in Requests, in \in [Requests -> Inputs] :
         /\ Reply[in[r].service].onAccept \in {"ACCEPTED", "SCHEDULED"}
         /\ Reply[in[r].service].polled \in BOOLEAN
  <1>1. \A log \in Seq(EventTypes), e \in EventTypes : Append(log, e) \in Seq(EventTypes)
    OBVIOUS
  <1>2. ASSUME NEW r \in Requests, NEW in \in [Requests -> Inputs]
        PROVE  /\ Reply[in[r].service].onAccept \in {"ACCEPTED", "SCHEDULED"}
               /\ Reply[in[r].service].polled \in BOOLEAN
    <2>1. in[r].service \in Services
      BY DEF Inputs
    <2>2. Reply[in[r].service] \in ReplyType
      BY <2>1, ServiceAssumption
    <2>3. QED
      BY <2>2 DEF ReplyType
  <1>3. QED
    BY <1>1, <1>2

\* The handler's control and answer stay typed whatever it finishes with.
LEMMA FinishTyped ==
    ASSUME TypeOK, NEW r \in Requests, NEW from, NEW kind, NEW of, NEW st,
           Finish(r, from, kind, of, st),
           [kind |-> kind, of |-> of, status |-> st] \in Answers
    PROVE  /\ pc' \in [Requests -> Running \union {"new", "done", "crashed"}]
           /\ input' \in [Requests -> Inputs]
           /\ answer' \in [Requests -> Answers]
           /\ crashes' \in 0 .. MaxCrashes
  BY DEF TypeOK, Finish, Goto

\* A transaction that records an outcome keeps the tables typed.
LEMMA OutcomeTyped ==
    ASSUME TypeOK, NEW r \in Requests,
           NEW verdict \in Dispatches, NEW st \in Statuses, NEW event \in EventTypes,
           Outcome(r, verdict, st, event)
    PROVE  /\ pc' \in [Requests -> Running \union {"new", "done", "crashed"}]
           /\ input' \in [Requests -> Inputs]
           /\ answer' \in [Requests -> Answers]
           /\ crashes' \in 0 .. MaxCrashes
           /\ status' \in [Requests -> Statuses]
           /\ dispatch' \in [Requests -> Dispatches]
           /\ events' \in [Requests -> Seq(EventTypes)]
           /\ wire' = wire /\ taken' = taken /\ code' = code
  <1>1. [kind |-> "result", of |-> r, status |-> st] \in Answers
    BY DEF Answers
  <1>2. Finish(r, "await", "result", r, st)
    BY DEF Outcome
  <1>3. events' \in [Requests -> Seq(EventTypes)]
    BY TypedHelpers DEF Outcome, TypeOK
  <1>4. QED
    BY <1>1, <1>2, <1>3, FinishTyped DEF Outcome, TypeOK, provider

LEMMA TypeInit ==
    ASSUME Init
    PROVE  TypeOK
  <1> USE DEF database, provider
  <1>1. answer \in [Requests -> Answers]
    BY DEF Init, Answers, Statuses
  <1>2. events \in [Requests -> Seq(EventTypes)]
    BY DEF Init
  <1>3. crashes \in 0 .. MaxCrashes
    BY CrashAssumption DEF Init
  <1>4. QED
    BY <1>1, <1>2, <1>3 DEF Init, TypeOK, Statuses, Polls, Dispatches

LEMMA TypeStep ==
    ASSUME TypeOK, [Next]_vars
    PROVE  TypeOK'
  <1> USE DEF database, provider
  <1>1. CASE UNCHANGED vars
    BY <1>1 DEF TypeOK, vars
  <1>2. CASE Crash
    BY <1>2, CrashAssumption DEF Crash, TypeOK
  <1>3. ASSUME NEW r \in Requests,
               Receive(r) \/ PassChecks(r) \/ LookupMisses(r)
        PROVE  TypeOK'
    BY <1>3 DEF Receive, PassChecks, LookupMisses, Goto, TypeOK, Running
  <1>4. ASSUME NEW r \in Requests,
               \/ RejectUnauthenticated(r) \/ FailChecks(r) \/ RequestThrows(r)
               \/ CallThrows(r) \/ OutcomeThrows(r)
        PROVE  TypeOK'
    <2>1. \A k \in {"refused", "error"} :
            [kind |-> k, of |-> r, status |-> "NONE"] \in Answers
      BY DEF Answers, Statuses
    <2>2. PICK from \in {"new", "checks", "lookup", "create", "call", "await"},
               k \in {"refused", "error"} : Finish(r, from, k, r, "NONE")
      BY <1>4 DEF RejectUnauthenticated, FailChecks, RequestThrows, CallThrows, OutcomeThrows
    <2>3. UNCHANGED <<database, provider>>
      BY <1>4 DEF RejectUnauthenticated, FailChecks, RequestThrows, CallThrows, OutcomeThrows
    <2>4. QED
      BY <2>1, <2>2, <2>3, FinishTyped DEF TypeOK
  <1>5. ASSUME NEW r \in Requests, LookupHits(r)
        PROVE  TypeOK'
    <2>1. PICK m \in Requests : Finish(r, "lookup", "duplicate", m, status[m])
      BY <1>5 DEF LookupHits, SameRequest
    <2>2. [kind |-> "duplicate", of |-> m, status |-> status[m]] \in Answers
      BY DEF Answers, TypeOK
    <2>3. QED
      BY <1>5, <2>1, <2>2, FinishTyped DEF LookupHits, TypeOK
  <1>6. ASSUME NEW r \in Requests, CreateMessage(r)
        PROVE  TypeOK'
    <2>1. \A e \in {"SCHEDULED", "REQUESTED"} :
            <<e, "DISPATCH_ATTEMPTED">> \in Seq(EventTypes)
      BY DEF EventTypes
    <2>2. events' \in [Requests -> Seq(EventTypes)]
      BY <1>6, <2>1 DEF CreateMessage, TypeOK
    <2>3. QED
      BY <1>6, <2>2 DEF CreateMessage, Goto, TypeOK, Running, Statuses, Dispatches
  <1>7. ASSUME NEW r \in Requests, CallProvider(r)
        PROVE  TypeOK'
    BY <1>7 DEF CallProvider, Goto, TypeOK, Running
  <1>8. ASSUME NEW r \in Requests, ProviderTakes(r) \/ ProviderRefuses(r)
        PROVE  TypeOK'
    <2>1. PICK c \in Int : code' = [code EXCEPT ![r] = c]
      <3>1. {0, NoCode} \subseteq Int /\ (Codes \union {NoCode}) \ {0} \subseteq Int
        <4>1. 0 \in Int
          OBVIOUS
        <4>2. NoCode \in Int /\ Codes \subseteq Int
          BY CodeAssumption
        <4>3. QED
          BY <4>1, <4>2
      <3>2. CASE ProviderTakes(r)
        BY <3>1, <3>2 DEF ProviderTakes
      <3>3. CASE ProviderRefuses(r)
        BY <3>1, <3>3 DEF ProviderRefuses
      <3>4. QED
        BY <1>8, <3>2, <3>3
    <2>2. code' \in [Requests -> Int]
      BY <2>1 DEF TypeOK
    <2>3. /\ wire' \in [Requests -> {"idle", "sent", "answered"}]
          /\ taken' \in [Requests -> BOOLEAN]
          /\ UNCHANGED <<pc, input, database, answer, crashes>>
      BY <1>8 DEF ProviderTakes, ProviderRefuses, TypeOK
    <2>4. QED
      BY <2>2, <2>3 DEF TypeOK
  <1>9. ASSUME NEW r \in Requests, RecordAccepted(r)
        PROVE  TypeOK'
    <2> DEFINE st == ReplyOf(r).onAccept
    <2>1. st \in Statuses /\ st \in EventTypes /\ "accepted" \in Dispatches
      BY TypedHelpers DEF ReplyOf, TypeOK, Statuses, EventTypes, Dispatches
    <2>2. Outcome(r, "accepted", st, st)
      BY <1>9 DEF RecordAccepted
    <2>3. poll' \in [Requests -> Polls]
      BY <1>9 DEF RecordAccepted, TypeOK, Polls
    <2> HIDE DEF st
    <2>4. QED
      BY <2>1, <2>2, <2>3, OutcomeTyped DEF TypeOK
  <1>10. ASSUME NEW r \in Requests,
                RecordRetryable(r) \/ RecordFatal(r) \/ RecordNetworkError(r)
         PROVE  TypeOK'
    <2>1. PICK verdict \in Dispatches, st \in Statuses, event \in EventTypes :
            Outcome(r, verdict, st, event)
      BY <1>10 DEF RecordRetryable, RecordFatal, RecordNetworkError,
                   Statuses, EventTypes, Dispatches
    <2>2. poll' = poll
      BY <1>10 DEF RecordRetryable, RecordFatal, RecordNetworkError
    <2>3. QED
      BY <2>1, <2>2, OutcomeTyped DEF TypeOK
  <1>11. QED
    BY <1>1, <1>2, <1>3, <1>4, <1>5, <1>6, <1>7, <1>8, <1>9, <1>10 DEF Next, Handler

\* The variables keep the values the code and the schema allow.
THEOREM TypeCorrect == Spec => []TypeOK
  BY TypeInit, TypeStep, PTL DEF Spec

-----------------------------------------------------------------------------
(***************************************************************************)
(* The inductive invariant.  Each part is inductive relative to the ones   *)
(* before it; the properties of SendDispatch follow from their conjunction.*)
(***************************************************************************)

\* Where a handler is says which row its request has, and only requests
\* with a row have gone out to the provider.
ControlInv ==
    \A r \in Requests :
        /\ pc[r] \in {"new", "checks", "lookup", "create"} => status[r] = "NONE"
        /\ pc[r] = "lookup" => Key(r) # NoKey
        /\ pc[r] \in {"call", "await"} => status[r] = "DISPATCHING"
        /\ pc[r] = "call" => wire[r] = "idle"
        /\ wire[r] # "idle" => Exists(r)

\* Two rows never hold one key: the unique index, seen from the table.
KeysInv ==
    \A r1, r2 \in Requests :
        r1 # r2 /\ Exists(r1) /\ Exists(r2) => Key(r1) = NoKey \/ Key(r1) # Key(r2)

\* The steps that change neither the database nor the provider, and the rest.
LEMMA StepCases ==
    ASSUME [Next]_vars
    PROVE  \/ UNCHANGED <<input, database, provider>>
           \/ \E r \in Requests :
                \/ CreateMessage(r)
                \/ CallProvider(r) \/ ProviderTakes(r) \/ ProviderRefuses(r)
                \/ RecordAccepted(r) \/ RecordRetryable(r) \/ RecordFatal(r)
                \/ RecordNetworkError(r)
  <1>1. CASE UNCHANGED vars
    BY <1>1 DEF vars, database, provider
  <1>2. CASE Crash
    BY <1>2 DEF Crash
  <1>3. ASSUME NEW r \in Requests,
               \/ Receive(r) \/ PassChecks(r) \/ LookupMisses(r) \/ LookupHits(r)
               \/ RejectUnauthenticated(r) \/ FailChecks(r)
               \/ RequestThrows(r) \/ CallThrows(r) \/ OutcomeThrows(r)
        PROVE  UNCHANGED <<input, database, provider>>
    BY <1>3 DEF Receive, PassChecks, LookupMisses, LookupHits, RejectUnauthenticated,
                FailChecks, RequestThrows, CallThrows, OutcomeThrows, Finish
  <1>4. QED
    BY <1>1, <1>2, <1>3 DEF Next, Handler

\* Every record of an outcome is an Outcome step that starts at the await.
LEMMA RecordsAreOutcomes ==
    ASSUME TypeOK, NEW r \in Requests,
           \/ RecordAccepted(r) \/ RecordRetryable(r) \/ RecordFatal(r)
           \/ RecordNetworkError(r)
    PROVE  /\ pc[r] = "await" /\ pc' = [pc EXCEPT ![r] = "done"]
           /\ UNCHANGED <<input, wire, taken, code>>
           /\ \E st \in {"ACCEPTED", "SCHEDULED", "PENDING", "FAILED"} :
                status' = [status EXCEPT ![r] = st]
  <1>1. ReplyOf(r).onAccept \in {"ACCEPTED", "SCHEDULED"}
    BY TypedHelpers DEF ReplyOf, TypeOK
  <1>2. PICK verdict \in Dispatches,
             st \in {"ACCEPTED", "SCHEDULED", "PENDING", "FAILED"},
             event \in EventTypes : Outcome(r, verdict, st, event)
    BY <1>1 DEF RecordAccepted, RecordRetryable, RecordFatal, RecordNetworkError,
                Dispatches, EventTypes
  <1>3. QED
    BY <1>2 DEF Outcome, Finish, Goto, provider

THEOREM ControlCorrect == Spec => []ControlInv
  <1>1. Init => ControlInv
    BY DEF Init, ControlInv
  <1>2. TypeOK /\ ControlInv /\ [Next]_vars => ControlInv'
    <2> SUFFICES ASSUME TypeOK, ControlInv, [Next]_vars PROVE ControlInv'
      OBVIOUS
    <2> USE DEF database, provider, Key, Exists
    <2>1. CASE UNCHANGED vars
      BY <2>1 DEF ControlInv, vars
    <2>2. CASE Crash
      BY <2>2 DEF Crash, ControlInv, TypeOK, Running
    <2>3. ASSUME NEW r \in Requests,
                 Receive(r) \/ PassChecks(r) \/ LookupMisses(r)
          PROVE  ControlInv'
      BY <2>3 DEF Receive, PassChecks, LookupMisses, Goto, ControlInv, TypeOK
    <2>4. ASSUME NEW r \in Requests,
                 \/ RejectUnauthenticated(r) \/ FailChecks(r) \/ LookupHits(r)
                 \/ RequestThrows(r) \/ CallThrows(r) \/ OutcomeThrows(r)
          PROVE  ControlInv'
      <3>1. pc' = [pc EXCEPT ![r] = "done"] /\ UNCHANGED <<input, database, provider>>
        BY <2>4 DEF RejectUnauthenticated, FailChecks, LookupHits, RequestThrows, CallThrows,
                    OutcomeThrows, Finish, Goto
      <3>2. QED
        BY <3>1 DEF ControlInv, TypeOK
    <2>5. ASSUME NEW r \in Requests, CreateMessage(r)
          PROVE  ControlInv'
      BY <2>5 DEF CreateMessage, Goto, ControlInv, TypeOK
    <2>6. ASSUME NEW r \in Requests, CallProvider(r)
          PROVE  ControlInv'
      BY <2>6 DEF CallProvider, Goto, ControlInv, TypeOK
    <2>7. ASSUME NEW r \in Requests, ProviderTakes(r) \/ ProviderRefuses(r)
          PROVE  ControlInv'
      BY <2>7 DEF ProviderTakes, ProviderRefuses, ControlInv, TypeOK
    <2>8. ASSUME NEW r \in Requests,
                 \/ RecordAccepted(r) \/ RecordRetryable(r) \/ RecordFatal(r)
                 \/ RecordNetworkError(r)
          PROVE  ControlInv'
      <3>1. PICK st \in {"ACCEPTED", "SCHEDULED", "PENDING", "FAILED"} :
              /\ pc' = [pc EXCEPT ![r] = "done"] /\ UNCHANGED <<input, wire>>
              /\ status' = [status EXCEPT ![r] = st]
        BY <2>8, RecordsAreOutcomes
      <3>2. QED
        BY <3>1 DEF ControlInv, TypeOK
    <2>9. QED
      BY <2>1, <2>2, <2>3, <2>4, <2>5, <2>6, <2>7, <2>8 DEF Next, Handler
  <1>3. QED
    BY <1>1, <1>2, TypeCorrect, PTL DEF Spec

\* An idempotency key reaches the provider at most once, with any number of
\* requests, clients, keys and crashes: the transaction that the unique
\* index guards comes before the call.
THEOREM OneDispatch == Spec => []OneDispatchPerKey
  <1> USE DEF Key, Exists
  <1>1. Init => KeysInv
    BY DEF Init, KeysInv
  <1>2. TypeOK /\ ControlInv /\ KeysInv /\ [Next]_vars => KeysInv'
    <2> SUFFICES ASSUME TypeOK, ControlInv, KeysInv, [Next]_vars PROVE KeysInv'
      OBVIOUS
    <2>1. CASE UNCHANGED <<input, database, provider>>
      BY <2>1 DEF KeysInv, database
    <2>2. ASSUME NEW r \in Requests, CreateMessage(r)
          PROVE  KeysInv'
      BY <2>2 DEF CreateMessage, KeyIsFree, KeysInv, TypeOK
    <2>3. ASSUME NEW r \in Requests,
                 CallProvider(r) \/ ProviderTakes(r) \/ ProviderRefuses(r)
          PROVE  KeysInv'
      BY <2>3 DEF CallProvider, ProviderTakes, ProviderRefuses, KeysInv, database
    <2>4. ASSUME NEW r \in Requests,
                 \/ RecordAccepted(r) \/ RecordRetryable(r) \/ RecordFatal(r)
                 \/ RecordNetworkError(r)
          PROVE  KeysInv'
      <3>1. PICK st \in Statuses :
              pc[r] = "await" /\ UNCHANGED input /\ status' = [status EXCEPT ![r] = st]
        BY <2>4, RecordsAreOutcomes DEF Statuses
      <3>2. Exists(r)
        BY <3>1 DEF ControlInv
      <3>3. QED
        BY <3>1, <3>2 DEF KeysInv, TypeOK
    <2>5. QED
      BY <2>1, <2>2, <2>3, <2>4, StepCases
  <1>3. ControlInv /\ KeysInv => OneDispatchPerKey
    BY DEF ControlInv, KeysInv, OneDispatchPerKey
  <1>4. QED
    BY <1>1, <1>2, <1>3, TypeCorrect, ControlCorrect, PTL DEF Spec

-----------------------------------------------------------------------------
(***************************************************************************)
(* The tables and the provider.                                            *)
(***************************************************************************)

\* The attempt event is the second of every log.
AttemptInv ==
    \A r \in Requests :
        Exists(r) => Len(events[r]) >= 2 /\ events[r][2] = "DISPATCH_ATTEMPTED"

\* What the wire says about the provider's decision.
WireInv ==
    \A r \in Requests :
        /\ taken[r] => wire[r] = "answered" /\ code[r] \in {0, NoCode}
        /\ wire[r] = "answered" /\ code[r] = 0 => taken[r]

\* What the log says after an outcome has been appended to it.
LEMMA LogStatusAppend ==
    ASSUME NEW log \in Seq(EventTypes), NEW e \in EventTypes
    PROVE  /\ e \notin {"DISPATCH_ATTEMPTED", "RETRIED"} => LogStatus(Append(log, e)) = e
           /\ LogStatus(Append(log, "RETRIED")) = "PENDING"
           /\ Len(Append(log, e)) = Len(log) + 1
           /\ \A i \in 1 .. Len(log) : Append(log, e)[i] = log[i]
  <1>1. ASSUME NEW x \in EventTypes
        PROVE  /\ Append(log, x) # <<>>
               /\ Append(log, x)[Len(Append(log, x))] = x
    OBVIOUS
  <1>2. "RETRIED" \in EventTypes
    BY DEF EventTypes
  <1>3. /\ Len(Append(log, e)) = Len(log) + 1
        /\ \A i \in 1 .. Len(log) : Append(log, e)[i] = log[i]
    OBVIOUS
  <1>4. QED
    BY <1>1, <1>2, <1>3 DEF LogStatus

\* The four ways an outcome is recorded: the dispatch, the row and the event
\* in one transaction, and polling only for a row that becomes ACCEPTED.
LEMMA OutcomeForms ==
    ASSUME TypeOK, NEW r \in Requests,
           \/ RecordAccepted(r) \/ RecordRetryable(r) \/ RecordFatal(r)
           \/ RecordNetworkError(r)
    PROVE  \E verdict \in {"accepted", "retryable", "fatal"},
              st \in {"ACCEPTED", "SCHEDULED", "PENDING", "FAILED"},
              event \in EventTypes \ {"DISPATCH_ATTEMPTED"} :
             /\ Outcome(r, verdict, st, event)
             /\ verdict = "accepted" => /\ st \in {"ACCEPTED", "SCHEDULED"} /\ event = st
                                        /\ wire[r] = "answered" /\ code[r] = 0
             /\ verdict = "retryable" => st = "PENDING" /\ event = "RETRIED" /\ poll' = poll
             /\ verdict = "fatal" => /\ st = "FAILED" /\ event = "FAILED" /\ poll' = poll
                                     /\ wire[r] = "answered"
                                     /\ code[r] \notin {0, NoCode}
             /\ \/ poll' = poll /\ (verdict = "accepted" => ~ReplyOf(r).polled)
                \/ /\ verdict = "accepted" /\ ReplyOf(r).polled /\ st = "ACCEPTED"
                   /\ poll' = [poll EXCEPT ![r] = "WAITING"]
  <1>1. CASE RecordAccepted(r)
    <2>1. ReplyOf(r).onAccept \in {"ACCEPTED", "SCHEDULED"} /\ ReplyOf(r).polled \in BOOLEAN
      BY TypedHelpers DEF ReplyOf, TypeOK
    <2>2. wire[r] = "answered" /\ code[r] = 0
      BY <1>1 DEF RecordAccepted, Verdict
    <2>3. Outcome(r, "accepted", ReplyOf(r).onAccept, ReplyOf(r).onAccept)
      BY <1>1 DEF RecordAccepted
    <2>4. \/ poll' = poll /\ ~ReplyOf(r).polled
          \/ /\ ReplyOf(r).polled /\ ReplyOf(r).onAccept = "ACCEPTED"
             /\ poll' = [poll EXCEPT ![r] = "WAITING"]
      <3>1. input[r].service \in Services
        BY DEF TypeOK, Inputs
      <3>2. ReplyOf(r).polled => ReplyOf(r).onAccept = "ACCEPTED"
        BY <3>1, ServiceAssumption DEF ReplyOf
      <3>3. QED
        BY <1>1, <2>1, <3>2 DEF RecordAccepted
    <2>5. {"ACCEPTED", "SCHEDULED"} \subseteq EventTypes \ {"DISPATCH_ATTEMPTED"}
      BY DEF EventTypes
    <2>6. QED
      BY <2>1, <2>2, <2>3, <2>4, <2>5
  <1>2. CASE RecordRetryable(r) \/ RecordNetworkError(r)
    BY <1>2 DEF RecordRetryable, RecordNetworkError, EventTypes
  <1>3. CASE RecordFatal(r)
    <2>1. input[r].service \in Services
      BY DEF TypeOK, Inputs
    <2>2. wire[r] = "answered" /\ code[r] \notin {0, NoCode}
      BY <1>3, <2>1, CodeAssumption DEF RecordFatal, Verdict, ReplyOf
    <2>3. QED
      BY <1>3, <2>2 DEF RecordFatal, EventTypes
  <1>4. QED
    BY <1>1, <1>2, <1>3

\* Message, MessageEvent and ProviderDispatch agree in every reachable state.
THEOREM TablesCorrect == Spec => []TablesAgree
  <1>1. Init => TablesAgree
    BY DEF Init, TablesAgree, LogStatus
  <1>2. TypeOK /\ ControlInv /\ TablesAgree /\ [Next]_vars => TablesAgree'
    <2> SUFFICES ASSUME TypeOK, ControlInv, TablesAgree, [Next]_vars PROVE TablesAgree'
      OBVIOUS
    <2>1. CASE UNCHANGED <<input, database, provider>>
      BY <2>1 DEF TablesAgree, database, LogStatus, ReplyOf
    <2>2. ASSUME NEW r \in Requests, CreateMessage(r)
          PROVE  TablesAgree'
      <3>1. PICK e \in EventTypes :
              /\ events' = [events EXCEPT ![r] = <<e, "DISPATCH_ATTEMPTED">>]
              /\ status' = [status EXCEPT ![r] = "DISPATCHING"]
              /\ dispatch' = [dispatch EXCEPT ![r] = "open"]
              /\ poll' = poll /\ input' = input /\ pc[r] = "create"
        BY <2>2 DEF CreateMessage, EventTypes, Goto
      <3>2. LogStatus(events'[r]) = "DISPATCHING"
        BY <3>1 DEF LogStatus, TypeOK
      <3>3. status[r] = "NONE"
        BY <3>1 DEF ControlInv
      <3>4. \A m \in Requests \ {r} : /\ status'[m] = status[m] /\ events'[m] = events[m]
                                      /\ dispatch'[m] = dispatch[m] /\ poll'[m] = poll[m]
        BY <3>1 DEF TypeOK
      <3>5. /\ status'[r] = "DISPATCHING" /\ dispatch'[r] = "open"
            /\ poll'[r] = poll[r] /\ poll[r] # "WAITING"
        BY <3>1, <3>3 DEF TypeOK, TablesAgree
      <3>6. \A m \in Requests : m # r => LogStatus(events'[m]) = LogStatus(events[m])
        BY <3>4
      <3>7. QED
        BY <3>1, <3>2, <3>4, <3>5, <3>6 DEF TablesAgree, ReplyOf
    <2>3. ASSUME NEW r \in Requests,
                 CallProvider(r) \/ ProviderTakes(r) \/ ProviderRefuses(r)
          PROVE  TablesAgree'
      BY <2>3 DEF CallProvider, ProviderTakes, ProviderRefuses, TablesAgree, database,
         LogStatus, ReplyOf
    <2>4. ASSUME NEW r \in Requests,
                 \/ RecordAccepted(r) \/ RecordRetryable(r) \/ RecordFatal(r)
                 \/ RecordNetworkError(r)
          PROVE  TablesAgree'
      <3>1. PICK verdict \in {"accepted", "retryable", "fatal"},
                 st \in {"ACCEPTED", "SCHEDULED", "PENDING", "FAILED"},
                 event \in EventTypes \ {"DISPATCH_ATTEMPTED"} :
              /\ Outcome(r, verdict, st, event)
              /\ verdict = "accepted" => st \in {"ACCEPTED", "SCHEDULED"} /\ event = st
              /\ verdict = "retryable" => st = "PENDING" /\ event = "RETRIED"
              /\ verdict = "fatal" => st = "FAILED" /\ event = "FAILED"
              /\ \/ poll' = poll /\ (verdict = "accepted" => ~ReplyOf(r).polled)
                 \/ /\ verdict = "accepted" /\ ReplyOf(r).polled /\ st = "ACCEPTED"
                    /\ poll' = [poll EXCEPT ![r] = "WAITING"]
        BY <2>4, OutcomeForms
      <3>2. status[r] = "DISPATCHING" /\ poll[r] # "WAITING"
        <4>1. pc[r] = "await"
          BY <3>1 DEF Outcome, Finish, Goto
        <4>2. status[r] = "DISPATCHING"
          BY <4>1 DEF ControlInv
        <4>3. poll[r] = "WAITING" => status[r] = "ACCEPTED"
          BY DEF TablesAgree
        <4>4. QED
          BY <4>2, <4>3
      <3>3. /\ status' = [status EXCEPT ![r] = st]
            /\ dispatch' = [dispatch EXCEPT ![r] = verdict]
            /\ events' = [events EXCEPT ![r] = Append(events[r], event)]
        BY <3>1 DEF Outcome
      <3>4. \A m \in Requests \ {r} : /\ status'[m] = status[m] /\ events'[m] = events[m]
                                      /\ dispatch'[m] = dispatch[m] /\ poll'[m] = poll[m]
        BY <3>1, <3>3 DEF TypeOK
      <3>5. /\ status'[r] = st /\ dispatch'[r] = verdict
            /\ events'[r] = Append(events[r], event)
            /\ poll'[r] = "WAITING" => st = "ACCEPTED"
            /\ poll'[r] = "WAITING" <=> verdict = "accepted" /\ ReplyOf(r).polled
        BY <3>1, <3>2, <3>3 DEF TypeOK
      <3>8. input' = input
        BY <3>1 DEF Outcome, Finish
      <3>6. LogStatus(events'[r]) = st
        <4>1. events[r] \in Seq(EventTypes)
          BY DEF TypeOK
        <4>2. QED
          BY <3>1, <3>5, <4>1, LogStatusAppend
      <3>7. \A m \in Requests : m # r => LogStatus(events'[m]) = LogStatus(events[m])
        BY <3>4
      <3>9. QED
        <4>1. ASSUME NEW m \in Requests
              PROVE  poll'[m] = "WAITING" <=> dispatch'[m] = "accepted" /\ ReplyOf(m)'.polled
          BY <3>4, <3>5, <3>8 DEF TablesAgree, ReplyOf
        <4>2. ASSUME NEW m \in Requests
              PROVE  /\ status'[m] = LogStatus(events'[m])
                     /\ dispatch'[m] = "none" <=> status'[m] = "NONE"
                     /\ dispatch'[m] = "open" <=> status'[m] = "DISPATCHING"
                     /\ dispatch'[m] = "retryable" <=> status'[m] = "PENDING"
                     /\ dispatch'[m] = "fatal" <=> status'[m] = "FAILED"
                     /\ poll'[m] = "WAITING" => status'[m] = "ACCEPTED"
          <5>1. CASE m = r
            BY <3>1, <3>5, <3>6, <5>1
          <5>2. CASE m # r
            BY <3>4, <3>7, <5>2 DEF TablesAgree
          <5>3. QED
            BY <5>1, <5>2
        <4>3. QED
          BY <4>1, <4>2 DEF TablesAgree
    <2>5. QED
      BY <2>1, <2>2, <2>3, <2>4, StepCases
  <1>3. QED
    BY <1>1, <1>2, TypeCorrect, ControlCorrect, PTL DEF Spec

\* What the wire says about the provider stays true of it.
LEMMA WireCorrect == Spec => []WireInv
  <1>1. Init => WireInv
    BY DEF Init, WireInv
  <1>2. TypeOK /\ ControlInv /\ WireInv /\ [Next]_vars => WireInv'
    <2> SUFFICES ASSUME TypeOK, ControlInv, WireInv, [Next]_vars PROVE WireInv'
      OBVIOUS
    <2>1. CASE UNCHANGED <<input, database, provider>>
      BY <2>1 DEF WireInv, provider
    <2>2. ASSUME NEW r \in Requests, CreateMessage(r)
          PROVE  WireInv'
      BY <2>2 DEF CreateMessage, WireInv, provider
    <2>3. ASSUME NEW r \in Requests, CallProvider(r)
          PROVE  WireInv'
      BY <2>3 DEF CallProvider, Goto, ControlInv, WireInv, TypeOK
    <2>4. ASSUME NEW r \in Requests, ProviderTakes(r) \/ ProviderRefuses(r)
          PROVE  WireInv'
      BY <2>4 DEF ProviderTakes, ProviderRefuses, WireInv, TypeOK
    <2>5. ASSUME NEW r \in Requests,
                 \/ RecordAccepted(r) \/ RecordRetryable(r) \/ RecordFatal(r)
                 \/ RecordNetworkError(r)
          PROVE  WireInv'
      BY <2>5, RecordsAreOutcomes DEF WireInv
    <2>6. QED
      BY <2>1, <2>2, <2>3, <2>4, <2>5, StepCases
  <1>3. QED
    BY <1>1, <1>2, TypeCorrect, ControlCorrect, PTL DEF Spec

\* The recorded outcome never contradicts the provider: what is recorded as
\* accepted was taken, what is recorded as failed never is, although the
\* provider may take a request long after its handler has given up.
THEOREM OutcomesAreTrue == Spec => []OutcomeIsTrue
  <1>1. Init => OutcomeIsTrue
    BY DEF Init, OutcomeIsTrue
  <1>2. TypeOK /\ ControlInv /\ WireInv /\ OutcomeIsTrue /\ [Next]_vars => OutcomeIsTrue'
    <2> SUFFICES ASSUME TypeOK, ControlInv, WireInv, OutcomeIsTrue, [Next]_vars
                 PROVE  OutcomeIsTrue'
      OBVIOUS
    <2>1. CASE UNCHANGED <<input, database, provider>>
      BY <2>1 DEF OutcomeIsTrue, database, provider
    <2>2. ASSUME NEW r \in Requests, CreateMessage(r)
          PROVE  OutcomeIsTrue'
      BY <2>2 DEF CreateMessage, OutcomeIsTrue, provider, TypeOK
    <2>3. ASSUME NEW r \in Requests, CallProvider(r)
          PROVE  OutcomeIsTrue'
      BY <2>3 DEF CallProvider, Goto, ControlInv, OutcomeIsTrue, database, TypeOK
    <2>4. ASSUME NEW r \in Requests, ProviderTakes(r) \/ ProviderRefuses(r)
          PROVE  OutcomeIsTrue'
      BY <2>4 DEF ProviderTakes, ProviderRefuses, OutcomeIsTrue, database, TypeOK
    <2>5. ASSUME NEW r \in Requests,
                 \/ RecordAccepted(r) \/ RecordRetryable(r) \/ RecordFatal(r)
                 \/ RecordNetworkError(r)
          PROVE  OutcomeIsTrue'
      <3>1. PICK verdict \in {"accepted", "retryable", "fatal"},
                 st \in {"ACCEPTED", "SCHEDULED", "PENDING", "FAILED"},
                 event \in EventTypes \ {"DISPATCH_ATTEMPTED"} :
              /\ Outcome(r, verdict, st, event)
              /\ verdict = "accepted" => /\ st \in {"ACCEPTED", "SCHEDULED"}
                                         /\ wire[r] = "answered" /\ code[r] = 0
              /\ verdict = "retryable" => st = "PENDING"
              /\ verdict = "fatal" => /\ st = "FAILED" /\ wire[r] = "answered"
                                      /\ code[r] \notin {0, NoCode}
        BY <2>5, OutcomeForms
      <3>2. status' = [status EXCEPT ![r] = st] /\ UNCHANGED <<wire, taken>>
        BY <3>1 DEF Outcome, provider
      <3>3. /\ st \in {"ACCEPTED", "SCHEDULED"} => taken[r]
            /\ st = "FAILED" => ~taken[r] /\ wire[r] = "answered"
        BY <3>1 DEF WireInv
      <3>4. QED
        BY <3>2, <3>3 DEF OutcomeIsTrue, TypeOK
    <2>6. QED
      BY <2>1, <2>2, <2>3, <2>4, <2>5, StepCases
  <1>3. QED
    BY <1>1, <1>2, TypeCorrect, ControlCorrect, WireCorrect, PTL DEF Spec

\* A row stays once it exists, the row of a request that has ended does not
\* change any more, and input never does.
LEMMA RowsStay ==
    ASSUME TypeOK, ControlInv, [Next]_vars
    PROVE  /\ input' = input
           /\ \A r \in Requests : Exists(r) => status'[r] # "NONE"
           /\ \A r \in Requests : pc[r] \in {"new", "checks", "lookup", "done"} =>
                                     status'[r] = status[r]
  <1>1. CASE UNCHANGED <<input, database, provider>>
    BY <1>1 DEF database, Exists
  <1>2. ASSUME NEW q \in Requests, CreateMessage(q)
        PROVE  /\ input' = input
               /\ \A r \in Requests : Exists(r) => status'[r] # "NONE"
               /\ \A r \in Requests : pc[r] \in {"new", "checks", "lookup", "done"} =>
                                         status'[r] = status[r]
    BY <1>2 DEF CreateMessage, Goto, Exists, TypeOK
  <1>3. ASSUME NEW q \in Requests,
               CallProvider(q) \/ ProviderTakes(q) \/ ProviderRefuses(q)
        PROVE  status' = status /\ input' = input
    BY <1>3 DEF CallProvider, ProviderTakes, ProviderRefuses, database
  <1>4. ASSUME NEW q \in Requests,
               \/ RecordAccepted(q) \/ RecordRetryable(q) \/ RecordFatal(q)
               \/ RecordNetworkError(q)
        PROVE  /\ input' = input
               /\ \A r \in Requests : Exists(r) => status'[r] # "NONE"
               /\ \A r \in Requests : pc[r] \in {"new", "checks", "lookup", "done"} =>
                                         status'[r] = status[r]
    BY <1>4, RecordsAreOutcomes DEF Exists, TypeOK
  <1>5. QED
    BY <1>1, <1>2, <1>3, <1>4, StepCases DEF Exists

\* A message the provider may have taken has its row, its dispatch and its
\* attempt event.
THEOREM DispatchesAreRecorded == Spec => []NoUnrecordedDispatch
  <1>1. Init => AttemptInv
    BY DEF Init, AttemptInv, Exists
  <1>2. TypeOK /\ ControlInv /\ AttemptInv /\ [Next]_vars => AttemptInv'
    <2> SUFFICES ASSUME TypeOK, ControlInv, AttemptInv, [Next]_vars PROVE AttemptInv'
      OBVIOUS
    <2>1. CASE UNCHANGED <<input, database, provider>>
      BY <2>1 DEF AttemptInv, Exists, database
    <2>2. ASSUME NEW r \in Requests, CreateMessage(r)
          PROVE  AttemptInv'
      <3>1. PICK e \in EventTypes :
              /\ events' = [events EXCEPT ![r] = <<e, "DISPATCH_ATTEMPTED">>]
              /\ status' = [status EXCEPT ![r] = "DISPATCHING"]
        BY <2>2 DEF CreateMessage, EventTypes
      <3>2. /\ Len(<<e, "DISPATCH_ATTEMPTED">>) = 2
            /\ <<e, "DISPATCH_ATTEMPTED">>[2] = "DISPATCH_ATTEMPTED"
        OBVIOUS
      <3>3. QED
        BY <3>1, <3>2 DEF AttemptInv, Exists, TypeOK
    <2>3. ASSUME NEW r \in Requests,
                 CallProvider(r) \/ ProviderTakes(r) \/ ProviderRefuses(r)
          PROVE  AttemptInv'
      BY <2>3 DEF CallProvider, ProviderTakes, ProviderRefuses, database, AttemptInv, Exists
    <2>4. ASSUME NEW r \in Requests,
                 \/ RecordAccepted(r) \/ RecordRetryable(r) \/ RecordFatal(r)
                 \/ RecordNetworkError(r)
          PROVE  AttemptInv'
      <3>1. PICK verdict \in Dispatches, st \in Statuses, event \in EventTypes :
              Outcome(r, verdict, st, event)
        BY <2>4, OutcomeForms DEF Dispatches, Statuses
      <3>2. events[r] \in Seq(EventTypes) /\ Exists(r)
        BY <3>1 DEF Outcome, Finish, Goto, ControlInv, Exists, TypeOK
      <3>3. Len(events[r]) >= 2 /\ events[r][2] = "DISPATCH_ATTEMPTED"
        BY <3>2 DEF AttemptInv
      <3>4. /\ Len(Append(events[r], event)) >= 2
            /\ Append(events[r], event)[2] = "DISPATCH_ATTEMPTED"
        BY <3>2, <3>3
      <3>5. \A q \in Requests \ {r} : events'[q] = events[q] /\ status'[q] = status[q]
        BY <3>1 DEF Outcome, TypeOK
      <3>6. events'[r] = Append(events[r], event)
        BY <3>1 DEF Outcome, TypeOK
      <3>7. QED
        BY <3>3, <3>4, <3>5, <3>6 DEF AttemptInv, Exists
    <2>5. QED
      BY <2>1, <2>2, <2>3, <2>4, StepCases
  <1>3. TypeOK /\ ControlInv /\ AttemptInv /\ TablesAgree => NoUnrecordedDispatch
    <2> SUFFICES ASSUME TypeOK, ControlInv, AttemptInv, TablesAgree,
                        NEW r \in Requests, wire[r] # "idle"
                 PROVE  /\ Exists(r) /\ dispatch[r] # "none"
                        /\ \E i \in 1 .. Len(events[r]) : events[r][i] = "DISPATCH_ATTEMPTED"
      BY DEF NoUnrecordedDispatch
    <2>1. Exists(r)
      BY DEF ControlInv
    <2>2. dispatch[r] # "none"
      BY <2>1 DEF TablesAgree, Exists
    <2>3. Len(events[r]) \in Nat /\ Len(events[r]) >= 2 /\ events[r][2] = "DISPATCH_ATTEMPTED"
      BY <2>1 DEF AttemptInv, TypeOK
    <2>4. QED
      BY <2>1, <2>2, <2>3
  <1>4. QED
    BY <1>1, <1>2, <1>3, TypeCorrect, ControlCorrect, TablesCorrect, PTL DEF Spec

-----------------------------------------------------------------------------
(***************************************************************************)
(* The answers.                                                            *)
(***************************************************************************)

\* Only an ended request has an answer, and the answer's promises hold.
AnswerInv ==
    \A r \in Requests :
        /\ answer[r].kind # "none" => pc[r] = "done"
        /\ answer[r].kind \in {"refused", "duplicate"} => ~Exists(r)
        /\ answer[r].kind = "result" => status[r] = answer[r].status
        /\ answer[r].kind = "error" => status[r] \in {"NONE", "DISPATCHING"}
        /\ answer[r].kind = "duplicate" =>
             /\ Exists(answer[r].of)
             /\ input[answer[r].of].client = input[r].client
             /\ Key(answer[r].of) = Key(r) /\ Key(r) # NoKey

\* An answer given earlier keeps its promises through any step that leaves
\* the request ended and its answer alone.
LEMMA OldAnswersStay ==
    ASSUME TypeOK, ControlInv, AnswerInv, [Next]_vars,
           NEW r \in Requests, answer'[r] = answer[r],
           answer[r].kind # "none" => pc'[r] = "done"
    PROVE  AnswerInv!(r)'
  <1>1. answer[r].of \in Requests
    BY DEF TypeOK, Answers
  <1>2. answer[r].kind # "none" => status'[r] = status[r]
    BY RowsStay DEF AnswerInv
  <1>3. QED
    BY <1>1, <1>2, RowsStay DEF AnswerInv, Exists, Key

\* A step that only moves handlers that are not done leaves every answer true.
LEMMA NoNewAnswer ==
    ASSUME TypeOK, ControlInv, AnswerInv, [Next]_vars, answer' = answer,
           \A r \in Requests : pc[r] = "done" => pc'[r] = "done"
    PROVE  AnswerInv'
  <1>1. ASSUME NEW r \in Requests PROVE AnswerInv!(r)'
    <2>1. answer[r].kind # "none" => pc'[r] = "done"
      BY DEF AnswerInv
    <2>2. QED
      BY <2>1, OldAnswersStay
  <1>2. QED
    BY <1>1 DEF AnswerInv

\* A handler that ends leaves the other answers true; its own has to be.
LEMMA OneNewAnswer ==
    ASSUME TypeOK, ControlInv, AnswerInv, [Next]_vars,
           NEW r \in Requests, NEW from, NEW kind, NEW of, NEW st,
           Finish(r, from, kind, of, st), AnswerInv!(r)'
    PROVE  AnswerInv'
  <1>1. ASSUME NEW q \in Requests, q # r PROVE AnswerInv!(q)'
    <2>1. answer'[q] = answer[q] /\ pc'[q] = pc[q]
      BY <1>1 DEF Finish, Goto, TypeOK
    <2>2. answer[q].kind # "none" => pc'[q] = "done"
      BY <2>1 DEF AnswerInv
    <2>3. QED
      BY <2>1, <2>2, OldAnswersStay
  <1>2. QED
    BY <1>1 DEF AnswerInv

\* What a client has been told stays true: of its own row, and, for a
\* duplicate, of the earlier message of the same client and key.
THEOREM AnswersCorrect == Spec => [](AnswerMatchesRow /\ DuplicateIsOwnMessage)
  <1>1. Init => AnswerInv
    BY DEF Init, AnswerInv
  <1>2. TypeOK /\ ControlInv /\ AnswerInv /\ [Next]_vars => AnswerInv'
    <2> SUFFICES ASSUME TypeOK, ControlInv, AnswerInv, [Next]_vars PROVE AnswerInv'
      OBVIOUS
    <2>1. CASE UNCHANGED vars
      BY <2>1, NoNewAnswer DEF vars
    <2>2. CASE Crash
      <3>1. answer' = answer /\ \A r \in Requests : pc[r] = "done" => pc'[r] = "done"
        BY <2>2 DEF Crash, Running
      <3>2. QED
        BY <3>1, NoNewAnswer
    <2>3. ASSUME NEW r \in Requests,
                 \/ Receive(r) \/ PassChecks(r) \/ LookupMisses(r) \/ CreateMessage(r)
                 \/ CallProvider(r) \/ ProviderTakes(r) \/ ProviderRefuses(r)
          PROVE  AnswerInv'
      <3>1. answer' = answer /\ \A q \in Requests : pc[q] = "done" => pc'[q] = "done"
        BY <2>3 DEF Receive, PassChecks, LookupMisses, CreateMessage, CallProvider,
                    ProviderTakes, ProviderRefuses, Goto, TypeOK
      <3>2. QED
        BY <3>1, NoNewAnswer
    <2>4. ASSUME NEW r \in Requests, RejectUnauthenticated(r) \/ FailChecks(r)
          PROVE  AnswerInv'
      <3>1. PICK from \in {"new", "checks"} : Finish(r, from, "refused", r, "NONE")
        BY <2>4 DEF RejectUnauthenticated, FailChecks
      <3>2. status[r] = "NONE" /\ status' = status
        BY <2>4, <3>1 DEF RejectUnauthenticated, FailChecks, Finish, Goto, database, ControlInv
      <3>3. pc'[r] = "done" /\ answer'[r].kind = "refused"
        BY <3>1 DEF Finish, Goto, TypeOK
      <3>4. AnswerInv!(r)'
        BY <3>2, <3>3 DEF Exists
      <3>5. QED
        BY <3>1, <3>4, OneNewAnswer
    <2>5. ASSUME NEW r \in Requests, LookupHits(r)
          PROVE  AnswerInv'
      <3>1. PICK m \in SameRequest(r) : Finish(r, "lookup", "duplicate", m, status[m])
        BY <2>5 DEF LookupHits
      <3>2. /\ m \in Requests /\ Exists(m)
            /\ input[m].client = input[r].client /\ Key(m) = Key(r)
        BY DEF SameRequest
      <3>3. status[r] = "NONE" /\ Key(r) # NoKey
        BY <3>1 DEF Finish, Goto, ControlInv
      <3>4. status' = status /\ input' = input
        BY <2>5, <3>1 DEF LookupHits, Finish, database
      <3>5. /\ pc'[r] = "done"
            /\ answer'[r].kind = "duplicate" /\ answer'[r].of = m
        BY <3>1 DEF Finish, Goto, TypeOK
      <3>6. AnswerInv!(r)'
        BY <3>2, <3>3, <3>4, <3>5 DEF Exists, Key
      <3>7. QED
        BY <3>1, <3>6, OneNewAnswer
    <2>6. ASSUME NEW r \in Requests, RequestThrows(r) \/ CallThrows(r) \/ OutcomeThrows(r)
          PROVE  AnswerInv'
      <3>1. PICK from \in {"checks", "lookup", "create", "call", "await"} : Finish(r, from, "error", r, "NONE")
        BY <2>6 DEF RequestThrows, CallThrows, OutcomeThrows
      <3>2. status[r] \in {"NONE", "DISPATCHING"}
        BY <3>1 DEF Finish, Goto, ControlInv
      <3>3. status' = status
        BY <2>6 DEF RequestThrows, CallThrows, OutcomeThrows, database
      <3>4. pc'[r] = "done" /\ answer'[r].kind = "error"
        BY <3>1 DEF Finish, Goto, TypeOK
      <3>5. AnswerInv!(r)'
        BY <3>2, <3>3, <3>4
      <3>6. QED
        BY <3>1, <3>5, OneNewAnswer
    <2>7. ASSUME NEW r \in Requests,
                 \/ RecordAccepted(r) \/ RecordRetryable(r) \/ RecordFatal(r)
                 \/ RecordNetworkError(r)
          PROVE  AnswerInv'
      <3>1. PICK verdict \in {"accepted", "retryable", "fatal"},
                 st \in {"ACCEPTED", "SCHEDULED", "PENDING", "FAILED"},
                 event \in EventTypes : Outcome(r, verdict, st, event)
        BY <2>7, OutcomeForms
      <3>2. Finish(r, "await", "result", r, st)
        BY <3>1 DEF Outcome
      <3>3. /\ pc'[r] = "done" /\ status'[r] = st
            /\ answer'[r].kind = "result" /\ answer'[r].status = st
        BY <3>1, <3>2 DEF Outcome, Finish, Goto, TypeOK
      <3>4. AnswerInv!(r)'
        BY <3>3
      <3>5. QED
        BY <3>2, <3>4, OneNewAnswer
    <2>8. QED
      BY <2>1, <2>2, <2>3, <2>4, <2>5, <2>6, <2>7 DEF Next, Handler
  <1>3. ControlInv /\ AnswerInv => AnswerMatchesRow /\ DuplicateIsOwnMessage
    BY DEF ControlInv, AnswerInv, AnswerMatchesRow, DuplicateIsOwnMessage, Exists
  <1>4. QED
    BY <1>1, <1>2, <1>3, TypeCorrect, ControlCorrect, PTL DEF Spec

\* A duplicate is answered with a message of the same client and key that
\* another request created, and has done nothing of its own.
THEOREM DuplicatesAreOwn == Spec => []DuplicateIsOwnMessage
  BY AnswersCorrect, PTL

\* A row is born DISPATCHING, leaves that status once, for an outcome, and
\* keeps its outcome; the events of a message are only appended.
THEOREM HistoryGrows == Spec => HistoryOnlyGrows
  <1> DEFINE Grows == \A r \in Requests : RowGrows(r)
  <1>1. TypeOK /\ ControlInv /\ TablesAgree /\ [Next]_vars => [\A r \in Requests : RowGrows(r)]_vars
    <2> SUFFICES ASSUME TypeOK, ControlInv, TablesAgree, [Next]_vars PROVE Grows
      OBVIOUS
    <2>0. \A r \in Requests : events[r] \in Seq(EventTypes) /\ Len(events[r]) \in Nat
      BY DEF TypeOK
    <2>1. CASE UNCHANGED <<input, database, provider>>
      BY <2>0, <2>1 DEF database, RowGrows
    <2>2. ASSUME NEW r \in Requests, CreateMessage(r)
          PROVE  Grows
      <3>1. status[r] = "NONE"
        BY <2>2 DEF CreateMessage, Goto, ControlInv
      <3>2. events[r] = <<>>
        BY <3>1, <2>0 DEF TablesAgree, LogStatus, EventTypes
      <3>3. PICK log \in Seq(EventTypes) : events' = [events EXCEPT ![r] = log]
        <4>1. \A e \in EventTypes : <<e, "DISPATCH_ATTEMPTED">> \in Seq(EventTypes)
          BY DEF EventTypes
        <4>2. QED
          BY <2>2, <4>1 DEF CreateMessage, EventTypes
      <3>4. status' = [status EXCEPT ![r] = "DISPATCHING"]
        BY <2>2 DEF CreateMessage
      <3>5. Len(log) \in Nat /\ Len(log) >= 0
        OBVIOUS
      <3>6. QED
        BY <2>0, <3>1, <3>2, <3>3, <3>4, <3>5 DEF TypeOK, RowGrows
    <2>3. ASSUME NEW r \in Requests,
                 CallProvider(r) \/ ProviderTakes(r) \/ ProviderRefuses(r)
          PROVE  Grows
      BY <2>0, <2>3 DEF CallProvider, ProviderTakes, ProviderRefuses, database, RowGrows
    <2>4. ASSUME NEW r \in Requests,
                 \/ RecordAccepted(r) \/ RecordRetryable(r) \/ RecordFatal(r)
                 \/ RecordNetworkError(r)
          PROVE  Grows
      <3>1. PICK verdict \in {"accepted", "retryable", "fatal"},
                 st \in {"ACCEPTED", "SCHEDULED", "PENDING", "FAILED"},
                 event \in EventTypes : Outcome(r, verdict, st, event)
        BY <2>4, OutcomeForms
      <3>2. status[r] = "DISPATCHING"
        BY <3>1 DEF Outcome, Finish, Goto, ControlInv
      <3>3. /\ status' = [status EXCEPT ![r] = st]
            /\ events' = [events EXCEPT ![r] = Append(events[r], event)]
        BY <3>1 DEF Outcome
      <3>4. /\ Len(Append(events[r], event)) = Len(events[r]) + 1
            /\ \A i \in 1 .. Len(events[r]) : Append(events[r], event)[i] = events[r][i]
        BY <2>0
      <3>5. QED
        BY <2>0, <3>2, <3>3, <3>4 DEF TypeOK, RowGrows
    <2>5. QED
      BY <2>1, <2>2, <2>3, <2>4, StepCases
  <1>2. QED
    BY <1>1, TypeCorrect, ControlCorrect, TablesCorrect, PTL DEF Spec, HistoryOnlyGrows
=============================================================================
