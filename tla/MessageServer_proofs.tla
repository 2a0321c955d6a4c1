------------------------- MODULE MessageServer_proofs -------------------------
(***************************************************************************)
(* Theorems about MessageServer: each process, seen through its view, is   *)
(* what its own module says, beside the other one.                         *)
(*                                                                         *)
(* The invariant of the two cannot be split.  The server does not disturb  *)
(* the scheduler because a row in the polling has no handler any more      *)
(* (SingleWriter); the scheduler keeps that so because it only writes rows *)
(* that are waiting, which is the invariant of ResultPolling; and that one *)
(* holds here because the scheduler is not disturbed.  So one induction    *)
(* carries them all, and takes the steps of the other two inductions from  *)
(* their proof modules, instantiated with the views.                       *)
(***************************************************************************)
EXTENDS MessageServer, TLAPS

\* The theorems of the two processes, of their views.
DP == INSTANCE SendDispatch_proofs WITH
    status <- ServerStatus, poll <- ServerPoll, answer <- ServerAnswer,
    MaxCrashes <- MaxServerCrashes
SP == INSTANCE ResultPolling_proofs WITH
    Messages <- Requests, Key <- RowKey, status <- SchedulerStatus,
    MaxCrashes <- MaxSchedulerCrashes, crashes <- schedulerCrashes

Final == {"DELIVERED", "FAILED"}
AllStatuses == {"NONE", "DISPATCHING", "PENDING", "SCHEDULED", "ACCEPTED"} \union Final

AllAnswers ==
    [kind: {"none", "refused", "duplicate", "error", "result"},
     of: Requests, status: AllStatuses]

Types ==
    /\ DP!TypeOK
    /\ input = Bodies
    /\ status \in [Requests -> AllStatuses]
    /\ answer \in [Requests -> AllAnswers]

\* A final status is seen, and given away in an answer, only after its
\* handler has ended.
FinalIsOver ==
    /\ \A m \in Requests : status[m] \in Final => pc[m] = "done"
    /\ \A r \in Requests : answer[r].kind = "duplicate" /\ answer[r].status \in Final
                             => pc[answer[r].of] = "done"

Inv == Types /\ SingleWriter /\ FinalIsOver /\ SP!RowsInv

-----------------------------------------------------------------------------
(***************************************************************************)
(* Rows and their views.                                                   *)
(***************************************************************************)

\* What the polling knows of a row, read off the columns.
LEMMA RowFacts ==
    ASSUME SP!RowsInv, NEW m \in Requests
    PROVE  /\ poll[m] \in {"NONE", "WAITING", "COMPLETE"}
           /\ result[m] # NoReport => poll[m] = "COMPLETE" /\ status[m] \in Final
           /\ poll[m] # "NONE" /\ result[m] = NoReport => status[m] = "ACCEPTED"
  <1>1. SP!RowAgrees(m)
    BY DEF SP!RowsInv, SP!PollingAgrees
  <1>2. poll[m] \in {"NONE", "WAITING", "COMPLETE"}
    BY DEF SP!RowsInv, SP!Types, SP!RowTypes
  <1>3. poll[m] # "NONE" => SchedulerStatus[m] = status[m]
    BY DEF SchedulerStatus
  <1>4. QED
    BY <1>1, <1>2, <1>3 DEF SP!RowAgrees, SP!FinalStatus, Final

\* The server's view of a row: the scheduler's conclusions are masked, ...
LEMMA ServerSees ==
    ASSUME Inv, NEW m \in Requests
    PROVE  /\ ServerStatus[m] = IF status[m] \in Final /\ poll[m] # "NONE"
                                THEN "ACCEPTED" ELSE status[m]
           /\ ServerStatus[m] = "NONE" <=> status[m] = "NONE"
           /\ ServerPoll[m] = IF poll[m] = "COMPLETE" THEN "WAITING" ELSE poll[m]
  BY RowFacts DEF Inv, ServerStatus, ServerPoll, Final

\* ... and a row with a handler has none of them.
LEMMA HandledRow ==
    ASSUME Inv, NEW m \in Requests, pc[m] # "done"
    PROVE  /\ poll[m] = "NONE" /\ result[m] = NoReport
           /\ status[m] \notin Final
           /\ ServerStatus[m] = status[m] /\ ServerPoll[m] = "NONE"
           /\ SchedulerStatus[m] = "DISPATCHING"
  BY RowFacts DEF Inv, SingleWriter, FinalIsOver, ServerStatus, ServerPoll, SchedulerStatus

-----------------------------------------------------------------------------
(***************************************************************************)
(* What a handler does to the rows: it has not ended, it changes no row    *)
(* but its own, and what is final in it or in its answer is over.          *)
(***************************************************************************)

Alone(r) ==
    /\ pc[r] # "done"
    /\ status' \in [Requests -> AllStatuses] /\ answer' \in [Requests -> AllAnswers]
    /\ \A m \in Requests \ {r} :
         /\ pc'[m] = pc[m] /\ status'[m] = status[m] /\ poll'[m] = poll[m]
         /\ dispatch'[m] = dispatch[m] /\ events'[m] = events[m]
         /\ answer'[m] = answer[m]
    /\ status'[r] \in Final => pc'[r] = "done"
    /\ answer'[r].kind = "duplicate" /\ answer'[r].status \in Final =>
         answer'[r].of \in Requests \ {r} /\ pc[answer'[r].of] = "done"

\* The handlers' steps that leave the tables alone.
LEMMA QuietForm ==
    ASSUME Inv, NEW r \in Requests,
           \/ Send!Receive(r) \/ Send!RejectUnauthenticated(r)
           \/ Send!PassChecks(r) \/ Send!FailChecks(r)
           \/ Send!LookupMisses(r) \/ Send!LookupHits(r)
           \/ Send!RequestThrows(r) \/ Send!CallProvider(r) \/ Send!CallThrows(r)
           \/ Send!OutcomeThrows(r)
    PROVE  Alone(r) /\ UNCHANGED <<input, status, poll, dispatch, events>>
  <1> USE DEF Inv, Types, DP!TypeOK, Send!database, Send!Goto, Send!Finish
  <1>1. answer[r].kind = "duplicate" /\ answer[r].status \in Final
          => answer[r].of \in Requests /\ pc[answer[r].of] = "done"
    BY DEF FinalIsOver, AllAnswers
  <1>2. CASE Send!Receive(r) \/ Send!PassChecks(r) \/ Send!LookupMisses(r) \/ Send!CallProvider(r)
    <2>1. /\ pc[r] # "done" /\ UNCHANGED <<input, status, poll, dispatch, events, answer>>
          /\ \A m \in Requests \ {r} : pc'[m] = pc[m]
      BY <1>2 DEF Send!Receive, Send!PassChecks, Send!LookupMisses, Send!CallProvider
    <2>2. status[r] \notin Final
      BY <2>1, HandledRow
    <2>3. QED
      BY <1>1, <2>1, <2>2 DEF Alone
  <1>3. CASE \/ Send!RejectUnauthenticated(r) \/ Send!FailChecks(r) \/ Send!RequestThrows(r)
             \/ Send!CallThrows(r) \/ Send!OutcomeThrows(r)
    <2>1. PICK from \in {"new", "checks", "lookup", "create", "call", "await"},
               kind \in {"refused", "error"} : Send!Finish(r, from, kind, r, "NONE")
      BY <1>3 DEF Send!RejectUnauthenticated, Send!FailChecks, Send!RequestThrows,
                  Send!CallThrows, Send!OutcomeThrows
    <2>2. UNCHANGED <<input, status, poll, dispatch, events>>
      BY <1>3 DEF Send!RejectUnauthenticated, Send!FailChecks, Send!RequestThrows,
                  Send!CallThrows, Send!OutcomeThrows
    <2>3. [kind |-> kind, of |-> r, status |-> "NONE"] \in AllAnswers
      BY DEF AllAnswers, AllStatuses
    <2>4. QED
      BY <2>1, <2>2, <2>3 DEF Alone
  <1>4. CASE Send!LookupHits(r)
    <2>1. PICK m \in Send!SameRequest(r) : Send!Finish(r, "lookup", "duplicate", m, status[m])
      BY <1>4 DEF Send!LookupHits
    <2>2. UNCHANGED <<input, status, poll, dispatch, events>>
      BY <1>4 DEF Send!LookupHits
    <2>3. m \in Requests /\ (status[m] \in Final => pc[m] = "done")
      BY DEF Send!SameRequest, FinalIsOver
    <2>4. [kind |-> "duplicate", of |-> m, status |-> status[m]] \in AllAnswers
      BY <2>3 DEF AllAnswers
    <2>5. QED
      BY <2>1, <2>2, <2>3, <2>4 DEF Alone
  <1>5. QED
    BY <1>2, <1>3, <1>4

LEMMA CreateForm ==
    ASSUME Inv, NEW r \in Requests, Send!CreateMessage(r)
    PROVE  /\ Alone(r) /\ UNCHANGED <<input, poll, answer>>
           /\ pc[r] = "create"
           /\ status' = [status EXCEPT ![r] = "DISPATCHING"]
  <1> USE DEF Inv, Types, DP!TypeOK
  <1>1. answer[r].kind = "duplicate" /\ answer[r].status \in Final
          => answer[r].of \in Requests /\ pc[answer[r].of] = "done"
    BY DEF FinalIsOver, AllAnswers
  <1>2. QED
    BY <1>1 DEF Send!CreateMessage, Send!Goto, Alone, AllStatuses, Final

\* The outcome of a request is none that is final for the scheduler's rows.
LEMMA OutcomeForm ==
    ASSUME Inv, NEW r \in Requests,
           \/ Send!RecordAccepted(r) \/ Send!RecordRetryable(r) \/ Send!RecordFatal(r)
           \/ Send!RecordNetworkError(r)
    PROVE  /\ Alone(r) /\ UNCHANGED input
           /\ pc[r] = "await" /\ pc'[r] = "done"
           /\ \E st \in {"ACCEPTED", "SCHEDULED", "PENDING", "FAILED"} :
                /\ status' = [status EXCEPT ![r] = st]
                /\ answer' = [answer EXCEPT ![r] = [kind |-> "result", of |-> r, status |-> st]]
           /\ poll' = poll \/ poll' = [poll EXCEPT ![r] = "WAITING"]
  <1> USE DEF Inv, Types, DP!TypeOK
  <1>1. Send!ReplyOf(r).onAccept \in {"ACCEPTED", "SCHEDULED"}
    BY BodyAssumption, ServiceAssumption DEF Send!ReplyOf
  <1>2. /\ poll' = poll \/ poll' = [poll EXCEPT ![r] = "WAITING"]
        /\ \E verdict \in {"accepted", "retryable", "fatal"},
              st \in {"ACCEPTED", "SCHEDULED", "PENDING", "FAILED"},
              event \in {"ACCEPTED", "SCHEDULED", "RETRIED", "FAILED"} :
                Send!Outcome(r, verdict, st, event)
    BY <1>1 DEF Send!RecordAccepted, Send!RecordRetryable, Send!RecordFatal,
                Send!RecordNetworkError
  <1>3. PICK verdict \in {"accepted", "retryable", "fatal"},
             st \in {"ACCEPTED", "SCHEDULED", "PENDING", "FAILED"},
             event \in {"ACCEPTED", "SCHEDULED", "RETRIED", "FAILED"} :
               Send!Outcome(r, verdict, st, event)
    BY <1>2
  <1>4. poll \in [Requests -> {"NONE", "WAITING", "COMPLETE"}]
    BY DEF SP!RowsInv, SP!Types, SP!RowTypes
  <1>5. /\ pc[r] = "await" /\ pc' = [pc EXCEPT ![r] = "done"]
        /\ status' = [status EXCEPT ![r] = st]
        /\ answer' = [answer EXCEPT ![r] = [kind |-> "result", of |-> r, status |-> st]]
        /\ dispatch' = [dispatch EXCEPT ![r] = verdict]
        /\ events' = [events EXCEPT ![r] = Append(events[r], event)]
        /\ UNCHANGED input
    BY <1>3 DEF Send!Outcome, Send!Finish, Send!Goto
  <1>6. \A m \in Requests \ {r} : poll'[m] = poll[m]
    BY <1>2, <1>4
  <1>7. /\ pc'[r] = "done" /\ answer'[r].kind # "duplicate"
        /\ status' \in [Requests -> AllStatuses] /\ answer' \in [Requests -> AllAnswers]
    <2>1. st \in AllStatuses /\ [kind |-> "result", of |-> r, status |-> st] \in AllAnswers
      BY DEF AllStatuses, AllAnswers, Final
    <2>2. QED
      BY <1>5, <2>1
  <1>8. Alone(r)
    BY <1>5, <1>6, <1>7 DEF Alone
  <1>9. QED
    BY <1>2, <1>5, <1>7, <1>8

\* A row whose handler writes it is not in the polling, unless its handler
\* ends with the acceptance.
LEMMA AloneKeeps ==
    ASSUME Inv, NEW r \in Requests, Alone(r),
           poll'[r] # "NONE" =>
             /\ pc'[r] = "done" /\ dispatch'[r] = "accepted"
             /\ events'[r] # <<>> /\ events'[r][Len(events'[r])] = "ACCEPTED"
    PROVE  SingleWriter' /\ FinalIsOver'
  <1>1. ASSUME NEW m \in Requests, m # r
        PROVE  /\ pc'[m] = pc[m] /\ status'[m] = status[m] /\ poll'[m] = poll[m]
               /\ dispatch'[m] = dispatch[m] /\ events'[m] = events[m]
               /\ answer'[m] = answer[m]
    BY <1>1 DEF Alone
  <1>2. SingleWriter'
    BY <1>1 DEF Inv, SingleWriter
  <1>3. \A m \in Requests : pc[m] = "done" => pc'[m] = "done"
    BY <1>1 DEF Alone
  <1>4. \A m \in Requests : status'[m] \in Final => pc'[m] = "done"
    BY <1>1 DEF Inv, FinalIsOver, Alone
  <1>5. ASSUME NEW q \in Requests, answer'[q].kind = "duplicate", answer'[q].status \in Final
        PROVE  pc'[answer'[q].of] = "done"
    <2>1. answer'[q].of \in Requests /\ pc[answer'[q].of] = "done"
      BY <1>1, <1>5 DEF Inv, Types, AllAnswers, FinalIsOver, Alone
    <2>2. QED
      BY <1>3, <2>1
  <1>6. QED
    BY <1>2, <1>4, <1>5 DEF FinalIsOver

LEMMA ServerKeeps ==
    ASSUME Inv, NEW r \in Requests, ServeOther(r) \/ ServeAcceptance(r)
    PROVE  SingleWriter' /\ FinalIsOver' /\ input' = input
  <1>1. CASE \/ Send!Receive(r) \/ Send!RejectUnauthenticated(r)
             \/ Send!PassChecks(r) \/ Send!FailChecks(r)
             \/ Send!LookupMisses(r) \/ Send!LookupHits(r)
             \/ Send!RequestThrows(r) \/ Send!CallProvider(r) \/ Send!CallThrows(r)
             \/ Send!OutcomeThrows(r)
    <2>1. Alone(r) /\ UNCHANGED <<input, poll>>
      BY <1>1, QuietForm
    <2>2. poll'[r] = "NONE"
      BY <2>1, HandledRow DEF Alone
    <2>3. QED
      BY <2>1, <2>2, AloneKeeps
  <1>2. CASE Send!CreateMessage(r)
    <2>1. Alone(r) /\ UNCHANGED <<input, poll>>
      BY <1>2, CreateForm
    <2>2. poll'[r] = "NONE"
      BY <2>1, HandledRow DEF Alone
    <2>3. QED
      BY <2>1, <2>2, AloneKeeps
  <1>3. CASE Send!ProviderTakes(r) \/ Send!ProviderRefuses(r)
    BY <1>3 DEF Send!ProviderTakes, Send!ProviderRefuses, Send!database,
                Inv, SingleWriter, FinalIsOver
  <1>4. CASE Send!RecordRetryable(r) \/ Send!RecordFatal(r) \/ Send!RecordNetworkError(r)
    <2>1. Alone(r) /\ UNCHANGED input
      BY <1>4, OutcomeForm
    <2>2. poll' = poll
      BY <1>4 DEF Send!RecordRetryable, Send!RecordFatal, Send!RecordNetworkError
    <2>3. poll'[r] = "NONE"
      BY <2>1, <2>2, HandledRow DEF Alone
    <2>4. QED
      BY <2>1, <2>3, AloneKeeps
  <1>5. CASE Send!RecordAccepted(r)
    <2>1. Alone(r) /\ UNCHANGED input
      BY <1>5, OutcomeForm
    <2>2. CASE ~Send!ReplyOf(r).polled
      <3>1. poll'[r] = "NONE"
        BY <1>5, <2>1, <2>2, HandledRow DEF Send!RecordAccepted, Alone
      <3>2. QED
        BY <2>1, <3>1, AloneKeeps
    <2>3. CASE Send!ReplyOf(r).polled
      <3>1. Send!ReplyOf(r).onAccept = "ACCEPTED"
        BY <2>3, BodyAssumption, ServiceAssumption DEF Send!ReplyOf, Inv, Types
      <3>2. Send!Outcome(r, "accepted", "ACCEPTED", "ACCEPTED")
        BY <1>5, <3>1 DEF Send!RecordAccepted
      <3>3. /\ pc'[r] = "done" /\ dispatch'[r] = "accepted"
            /\ events'[r] = Append(events[r], "ACCEPTED")
            /\ events[r] \in Seq(DP!EventTypes)
        BY <3>2 DEF Send!Outcome, Send!Finish, Send!Goto, Inv, Types, DP!TypeOK
      <3>4. "ACCEPTED" \in DP!EventTypes
        BY DEF DP!EventTypes
      <3>5. events'[r] # <<>> /\ events'[r][Len(events'[r])] = "ACCEPTED"
        BY <3>3, <3>4
      <3>6. QED
        BY <2>1, <3>3, <3>5, AloneKeeps
    <2>4. QED
      BY <2>2, <2>3
  <1>6. QED
    BY <1>1, <1>2, <1>3, <1>4, <1>5 DEF ServeOther, ServeAcceptance

-----------------------------------------------------------------------------
(***************************************************************************)
(* What a job does to the rows: it concludes one that is waiting, or ends  *)
(* its polling, or changes neither status nor polling of any.              *)
(***************************************************************************)

Concludes(m) ==
    /\ poll[m] = "WAITING" /\ status[m] = "ACCEPTED" /\ result[m] = NoReport
    /\ poll' = [poll EXCEPT ![m] = "COMPLETE"]
    /\ \/ UNCHANGED <<status, result>>
       \/ /\ \E st \in Final : status' = [status EXCEPT ![m] = st]
          /\ \E c \in Reports : result' = [result EXCEPT ![m] = c]

LEMMA SaveForm ==
    ASSUME Inv, NEW j \in Jobs, Poll!Save(j)
    PROVE  Poll!Current(j) \in Requests /\ Concludes(Poll!Current(j))
  <1> DEFINE m == Poll!Current(j)
  <1>1. m = SP!Current(j)
    BY DEF Poll!Current, SP!Current
  <1>2. step[j] = "save"
    BY DEF Poll!Save
  <1>3. m \in Requests /\ poll[m] = "WAITING" /\ SchedulerStatus[m] = "ACCEPTED"
        /\ result[m] = NoReport
    BY <1>1, <1>2, SP!CurrentWaits, ReportAssumption, BoundAssumption DEF Inv
  <1>4. status[m] = "ACCEPTED"
    BY <1>3 DEF SchedulerStatus
  <1>5. found[j] \in Reports
    BY <1>2 DEF Inv, SP!RowsInv, SP!Types, SP!JobTypes
  <1>6. Poll!FinalStatus(found[j]) \in Final
    BY DEF Poll!FinalStatus, Final
  <1>7. QED
    BY <1>3, <1>4, <1>5, <1>6 DEF Poll!Save, Concludes

LEMMA MarkForm ==
    ASSUME Inv, NEW j \in Jobs, Poll!MarkNotFound(j)
    PROVE  \/ UNCHANGED <<status, poll, result>>
           \/ Poll!Current(j) \in Requests /\ Concludes(Poll!Current(j))
  <1> DEFINE m == Poll!Current(j)
  <1>1. m = SP!Current(j)
    BY DEF Poll!Current, SP!Current
  <1>2. step[j] = "mark"
    BY DEF Poll!MarkNotFound
  <1>3. m \in Requests /\ poll[m] = "WAITING" /\ SchedulerStatus[m] = "ACCEPTED"
        /\ result[m] = NoReport
    BY <1>1, <1>2, SP!CurrentWaits, ReportAssumption, BoundAssumption DEF Inv
  <1>4. status[m] = "ACCEPTED"
    BY <1>3 DEF SchedulerStatus
  <1>5. QED
    BY <1>3, <1>4 DEF Poll!MarkNotFound, Concludes

LEMMA WorkForm ==
    ASSUME Inv, NEW j \in Jobs, Poll!Tick(j) \/ Poll!Work(j)
    PROVE  \/ UNCHANGED <<status, poll, result>>
           \/ \E m \in Requests : Concludes(m)
  <1>1. CASE Poll!Save(j) \/ Poll!MarkNotFound(j)
    BY <1>1, SaveForm, MarkForm
  <1>2. CASE ~Poll!Save(j) /\ ~Poll!MarkNotFound(j)
    BY <1>2 DEF Poll!Tick, Poll!Work, Poll!Select, Poll!SelectThrows, Poll!QueryFinds,
                Poll!QueryFindsNothing, Poll!QueryThrows, Poll!SaveThrows, Poll!MarkThrows,
                Poll!Hook, Poll!HookThrows, Poll!PatchAnswered, Poll!PatchFails,
                Poll!RecordAttempt, Poll!RecordAttemptAgain, Poll!RecordThrows, Poll!rows
  <1>3. QED
    BY <1>1, <1>2

LEMMA SchedulerKeeps ==
    ASSUME Inv, UNCHANGED serverVars,
           \/ UNCHANGED <<status, poll, result>>
           \/ \E m \in Requests : Concludes(m)
    PROVE  SingleWriter' /\ FinalIsOver' /\ input' = input
  <1>1. UNCHANGED <<pc, input, dispatch, events, answer>>
    BY DEF serverVars
  <1>2. CASE UNCHANGED <<status, poll, result>>
    BY <1>1, <1>2 DEF Inv, SingleWriter, FinalIsOver
  <1>3. ASSUME NEW m \in Requests, Concludes(m)
        PROVE  SingleWriter' /\ FinalIsOver'
    <2>1. \A n \in Requests : poll'[n] # "NONE" => poll[n] # "NONE"
      BY <1>3 DEF Concludes, Inv, SP!RowsInv, SP!Types, SP!RowTypes
    <2>2. \A n \in Requests : status'[n] \in Final => status[n] \in Final \/ n = m
      BY <1>3 DEF Concludes, Inv, Types
    <2>3. pc[m] = "done"
      BY <1>3 DEF Concludes, Inv, SingleWriter
    <2>4. QED
      BY <1>1, <2>1, <2>2, <2>3 DEF Inv, SingleWriter, FinalIsOver
  <1>4. QED
    BY <1>1, <1>2, <1>3

-----------------------------------------------------------------------------
(***************************************************************************)
(* The scheduler beside the server.  SP and SchedulerView instantiate the  *)
(* same definitions with the same views: what is a step of the one is a    *)
(* step of the other.                                                      *)
(***************************************************************************)

\* The helpers of ResultPolling that do not look at the status.
LEMMA SameHelpers ==
    /\ \A c : /\ Poll!StatusReason(c) = SP!StatusReason(c)
              /\ SchedulerView!StatusReason(c) = SP!StatusReason(c)
    /\ \A c : /\ Poll!FinalStatus(c) = SP!FinalStatus(c)
              /\ SchedulerView!FinalStatus(c) = SP!FinalStatus(c)
    /\ \A j : /\ Poll!Current(j) = SP!Current(j)
              /\ SchedulerView!Current(j) = SP!Current(j)
    /\ \A m : /\ Poll!NoLongerDue(m) <=> SP!NoLongerDue(m)
              /\ SchedulerView!NoLongerDue(m) <=> SP!NoLongerDue(m)
    /\ \A j : /\ Poll!NextRow(j) <=> SP!NextRow(j)
              /\ SchedulerView!NextRow(j) <=> SP!NextRow(j)
  <1>1. \A c : /\ Poll!StatusReason(c) = SP!StatusReason(c)
               /\ SchedulerView!StatusReason(c) = SP!StatusReason(c)
    BY DEF Poll!StatusReason, SP!StatusReason, SchedulerView!StatusReason
  <1>2. \A c : /\ Poll!FinalStatus(c) = SP!FinalStatus(c)
               /\ SchedulerView!FinalStatus(c) = SP!FinalStatus(c)
    BY DEF Poll!FinalStatus, SP!FinalStatus, SchedulerView!FinalStatus
  <1>3. \A j : /\ Poll!Current(j) = SP!Current(j)
               /\ SchedulerView!Current(j) = SP!Current(j)
    BY DEF Poll!Current, SP!Current, SchedulerView!Current
  <1>4. \A m : /\ Poll!NoLongerDue(m) <=> SP!NoLongerDue(m)
               /\ SchedulerView!NoLongerDue(m) <=> SP!NoLongerDue(m)
    BY DEF Poll!NoLongerDue, SP!NoLongerDue, SchedulerView!NoLongerDue, Poll!IsDue,
          SP!IsDue, SchedulerView!IsDue, Poll!RemoveAt, SP!RemoveAt,
          SchedulerView!RemoveAt
  <1>5. \A j : /\ Poll!NextRow(j) <=> SP!NextRow(j)
               /\ SchedulerView!NextRow(j) <=> SP!NextRow(j)
    BY DEF Poll!NextRow, SP!NextRow, SchedulerView!NextRow, Poll!EndJob, SP!EndJob,
          SchedulerView!EndJob, Poll!Goto, SP!Goto, SchedulerView!Goto
  <1>6. QED
    BY <1>1, <1>2, <1>3, <1>4, <1>5

\* A step of a job that leaves the rows alone.
LEMMA IdleWork ==
    ASSUME NEW j \in Jobs, SchedulerStatus' = SchedulerStatus,
           Poll!Tick(j) \/ Poll!Work(j), ~Poll!Save(j), ~Poll!MarkNotFound(j)
    PROVE  /\ SP!Tick(j) \/ SP!Work(j)
           /\ SchedulerView!Tick(j) \/ SchedulerView!Work(j)
  <1>1. CASE Poll!Tick(j) \/ Poll!Select(j) \/ Poll!SelectThrows(j)
    BY <1>1, SameHelpers DEF SP!Work, SchedulerView!Work, Poll!Tick, SP!Tick,
                            SchedulerView!Tick, Poll!Select, SP!Select,
                            SchedulerView!Select, Poll!SelectThrows, SP!SelectThrows,
                            SchedulerView!SelectThrows, Poll!EndJob, SP!EndJob,
                            SchedulerView!EndJob, Poll!FirstDue, SP!FirstDue,
                            SchedulerView!FirstDue, Poll!Goto, SP!Goto,
                            SchedulerView!Goto, Poll!rows, SP!rows,
                            SchedulerView!rows, Poll!outside, SP!outside,
                            SchedulerView!outside
  <1>2. CASE Poll!QueryFinds(j) \/ Poll!QueryFindsNothing(j) \/ Poll!Hook(j)
    BY <1>2, SameHelpers DEF SP!Work, SchedulerView!Work, Poll!QueryFinds,
                            SP!QueryFinds, SchedulerView!QueryFinds,
                            Poll!QueryFindsNothing, SP!QueryFindsNothing,
                            SchedulerView!QueryFindsNothing, Poll!Hook, SP!Hook,
                            SchedulerView!Hook, Poll!Tagged, SP!Tagged,
                            SchedulerView!Tagged, Poll!Records, SP!Records,
                            SchedulerView!Records, Poll!Goto, SP!Goto,
                            SchedulerView!Goto, Poll!rows, SP!rows,
                            SchedulerView!rows, Poll!outside, SP!outside,
                            SchedulerView!outside
  <1>3. CASE Poll!PatchAnswered(j) \/ Poll!PatchFails(j)
    BY <1>3, SameHelpers DEF SP!Work, SchedulerView!Work, Poll!PatchAnswered,
                            SP!PatchAnswered, SchedulerView!PatchAnswered,
                            Poll!PatchFails, SP!PatchFails, SchedulerView!PatchFails,
                            Poll!Goto, SP!Goto, SchedulerView!Goto, Poll!rows,
                            SP!rows, SchedulerView!rows, Poll!outside, SP!outside,
                            SchedulerView!outside
  <1>4. CASE Poll!QueryThrows(j) \/ Poll!SaveThrows(j) \/ Poll!MarkThrows(j) \/ Poll!HookThrows(j)
    BY <1>4, SameHelpers DEF SP!Work, SchedulerView!Work, Poll!QueryThrows,
                            SP!QueryThrows, SchedulerView!QueryThrows,
                            Poll!SaveThrows, SP!SaveThrows, SchedulerView!SaveThrows,
                            Poll!MarkThrows, SP!MarkThrows, SchedulerView!MarkThrows,
                            Poll!HookThrows, SP!HookThrows, SchedulerView!HookThrows,
                            Poll!rows, SP!rows, SchedulerView!rows, Poll!outside,
                            SP!outside, SchedulerView!outside
  <1>5. CASE Poll!RecordAttempt(j) \/ Poll!RecordAttemptAgain(j) \/ Poll!RecordThrows(j)
    BY <1>5, SameHelpers DEF SP!Work, SchedulerView!Work, Poll!RecordAttempt,
                            SP!RecordAttempt, SchedulerView!RecordAttempt,
                            Poll!RecordAttemptAgain, SP!RecordAttemptAgain,
                            SchedulerView!RecordAttemptAgain, Poll!RecordThrows,
                            SP!RecordThrows, SchedulerView!RecordThrows,
                            Poll!Succeeded, SP!Succeeded, SchedulerView!Succeeded,
                            Poll!rows, SP!rows, SchedulerView!rows, Poll!outside,
                            SP!outside, SchedulerView!outside
  <1>6. QED
    BY <1>1, <1>2, <1>3, <1>4, <1>5 DEF Poll!Work

\* The transaction with a result, ...
LEMMA SaveSteps ==
    ASSUME Inv, NEW j \in Jobs, Poll!Save(j)
    PROVE  SP!Work(j) /\ SchedulerView!Work(j)
  <1> DEFINE m == Poll!Current(j)
  <1>1. m \in Requests /\ poll[m] = "WAITING"
    BY SaveForm DEF Concludes
  <1>2. /\ status' = [status EXCEPT ![m] = Poll!FinalStatus(found[j])]
        /\ poll' = [poll EXCEPT ![m] = "COMPLETE"]
    BY DEF Poll!Save
  <1>3. /\ status \in [Requests -> AllStatuses]
        /\ poll \in [Requests -> {"NONE", "WAITING", "COMPLETE"}]
    BY DEF Inv, Types, SP!RowsInv, SP!Types, SP!RowTypes
  <1>4. SchedulerStatus' = [SchedulerStatus EXCEPT ![m] = Poll!FinalStatus(found[j])]
    BY <1>1, <1>2, <1>3 DEF SchedulerStatus
  <1>5. QED
    BY <1>4, SameHelpers
    DEF SP!Work, SchedulerView!Work, Poll!Save, SP!Save, SchedulerView!Save,
        Poll!Goto, SP!Goto, SchedulerView!Goto,
        Poll!outside, SP!outside, SchedulerView!outside

\* ... and the one without.
LEMMA MarkSteps ==
    ASSUME Inv, NEW j \in Jobs, Poll!MarkNotFound(j)
    PROVE  SP!Work(j) /\ SchedulerView!Work(j)
  <1> DEFINE m == Poll!Current(j)
  <1>1. m = SP!Current(j) /\ m = SchedulerView!Current(j)
    BY SameHelpers
  <1>2. step[j] = "mark"
    BY DEF Poll!MarkNotFound
  <1>3. m \in Requests /\ poll[m] = "WAITING"
    BY <1>1, <1>2, SP!CurrentWaits, ReportAssumption, BoundAssumption DEF Inv
  <1>4. SchedulerStatus[m] = status[m]
    BY <1>3 DEF SchedulerStatus
  <1>5. status' = status /\ (poll' = poll \/ poll' = [poll EXCEPT ![m] = "COMPLETE"])
    BY DEF Poll!MarkNotFound
  <1>6. poll \in [Requests -> {"NONE", "WAITING", "COMPLETE"}]
    BY DEF Inv, SP!RowsInv, SP!Types, SP!RowTypes
  <1>7. SchedulerStatus' = SchedulerStatus
    BY <1>3, <1>5, <1>6 DEF SchedulerStatus
  <1>8. QED
    BY <1>1, <1>4, <1>7, SameHelpers
    DEF SP!Work, SchedulerView!Work, Poll!MarkNotFound, SP!MarkNotFound,
        SchedulerView!MarkNotFound, Poll!Exhausted, SP!Exhausted, SchedulerView!Exhausted,
        Poll!outside, SP!outside, SchedulerView!outside

LEMMA WorkSteps ==
    ASSUME Inv, NEW j \in Jobs, Poll!Tick(j) \/ Poll!Work(j)
    PROVE  /\ SP!Tick(j) \/ SP!Work(j)
           /\ SchedulerView!Tick(j) \/ SchedulerView!Work(j)
  <1>1. CASE Poll!Save(j) \/ Poll!MarkNotFound(j)
    BY <1>1, SaveSteps, MarkSteps
  <1>2. CASE ~Poll!Save(j) /\ ~Poll!MarkNotFound(j)
    <2>1. UNCHANGED <<status, poll>>
      BY <1>2 DEF Poll!Tick, Poll!Work, Poll!Select, Poll!SelectThrows, Poll!QueryFinds,
                  Poll!QueryFindsNothing, Poll!QueryThrows, Poll!SaveThrows, Poll!MarkThrows,
                  Poll!Hook, Poll!HookThrows, Poll!PatchAnswered, Poll!PatchFails,
                  Poll!RecordAttempt, Poll!RecordAttemptAgain, Poll!RecordThrows, Poll!rows
    <2>2. SchedulerStatus' = SchedulerStatus
      BY <2>1 DEF SchedulerStatus
    <2>3. QED
      BY <1>2, <2>2, IdleWork
  <1>3. QED
    BY <1>1, <1>2

\* An acceptance is the only step of the server the scheduler sees: of a
\* row it has not seen, as ResultPolling has it.
LEMMA AcceptanceSteps ==
    ASSUME Inv, NEW r \in Requests, ServeAcceptance(r)
    PROVE  /\ SP!Accept(r) \/ SP!AcceptOverdue(r)
           /\ SchedulerView!Accept(r) \/ SchedulerView!AcceptOverdue(r)
  <1>1. Send!ReplyOf(r).polled /\ Send!RecordAccepted(r)
    BY DEF ServeAcceptance
  <1>2. pc[r] # "done"
    BY <1>1, OutcomeForm
  <1>3. SchedulerStatus[r] = "DISPATCHING"
    BY <1>2, HandledRow
  <1>4. Poll!Accepted(r)
    BY DEF ServeAcceptance, Poll!Accept, Poll!AcceptOverdue
  <1>5. /\ status' = [status EXCEPT ![r] = "ACCEPTED"]
        /\ poll' = [poll EXCEPT ![r] = "WAITING"]
    BY <1>4 DEF Poll!Accepted
  <1>6. /\ status \in [Requests -> AllStatuses]
        /\ poll \in [Requests -> {"NONE", "WAITING", "COMPLETE"}]
    BY DEF Inv, Types, SP!RowsInv, SP!Types, SP!RowTypes
  <1>7. SchedulerStatus' = [SchedulerStatus EXCEPT ![r] = "ACCEPTED"]
    BY <1>5, <1>6 DEF SchedulerStatus
  <1>8. SP!Accepted(r) /\ SchedulerView!Accepted(r)
    BY <1>3, <1>4, <1>7
    DEF Poll!Accepted, SP!Accepted, SchedulerView!Accepted,
        Poll!job, SP!job, SchedulerView!job, Poll!outside, SP!outside, SchedulerView!outside
  <1>9. \/ UNCHANGED due
        \/ \E i \in 1 .. Len(due) + 1 : due' = Poll!InsertAt(due, i, r)
    BY DEF ServeAcceptance, Poll!Accept, Poll!AcceptOverdue
  <1>10. QED
    BY <1>8, <1>9
    DEF SP!Accept, SchedulerView!Accept, SP!AcceptOverdue, SchedulerView!AcceptOverdue,
        Poll!InsertAt, SP!InsertAt, SchedulerView!InsertAt

\* The scheduler sees no other step of the server.
LEMMA OtherStutters ==
    ASSUME Inv, NEW r \in Requests, ServeOther(r)
    PROVE  UNCHANGED <<poll, SchedulerStatus>>
  <1>1. CASE Send!ProviderTakes(r) \/ Send!ProviderRefuses(r)
    BY <1>1 DEF Send!ProviderTakes, Send!ProviderRefuses, Send!database, SchedulerStatus
  <1>2. CASE ~Send!ProviderTakes(r) /\ ~Send!ProviderRefuses(r)
    <2>1. Alone(r)
      BY <1>2, QuietForm, CreateForm, OutcomeForm DEF ServeOther
    <2>2. poll' = poll
      BY <1>2, QuietForm, CreateForm
      DEF ServeOther, Send!RecordAccepted, Send!RecordRetryable, Send!RecordFatal,
          Send!RecordNetworkError
    <2>3. poll[r] = "NONE"
      BY <2>1, HandledRow DEF Alone
    <2>4. QED
      BY <2>1, <2>2, <2>3 DEF Alone, SchedulerStatus
  <1>3. QED
    BY <1>1, <1>2

\* Every step of the two processes is a step of the scheduler's view, or
\* leaves it as it is.
LEMMA SchedulerStep ==
    ASSUME Inv, [Next]_vars
    PROVE  [SP!Next]_SP!vars /\ [SchedulerView!Next]_SchedulerView!vars
  <1>1. ASSUME UNCHANGED <<schedulerVars, poll, SchedulerStatus>>
        PROVE  UNCHANGED SP!vars /\ UNCHANGED SchedulerView!vars
    BY <1>1 DEF schedulerVars, SP!vars, SchedulerView!vars
  <1>2. CASE UNCHANGED vars
    BY <1>1, <1>2 DEF vars, SchedulerStatus
  <1>3. ASSUME NEW r \in Requests, ServeOther(r)
        PROVE  UNCHANGED SP!vars /\ UNCHANGED SchedulerView!vars
    BY <1>1, <1>3, OtherStutters DEF ServeOther
  <1>4. ASSUME NEW r \in Requests, ServeAcceptance(r)
        PROVE  SP!Next /\ SchedulerView!Next
    BY <1>4, AcceptanceSteps DEF SP!Next, SchedulerView!Next
  <1>5. ASSUME NEW r \in Requests, CountDelivery(r) \/ TimePasses(r)
        PROVE  SP!Next /\ SchedulerView!Next
    <2>1. SchedulerStatus' = SchedulerStatus
      BY <1>5 DEF CountDelivery, TimePasses, Poll!TimePasses, SchedulerStatus
    <2>2. CASE CountDelivery(r)
      <3>1. SP!ProviderReports(r) /\ SchedulerView!ProviderReports(r)
        BY <2>1, <2>2
        DEF CountDelivery, Poll!ProviderReports, SP!ProviderReports,
            SchedulerView!ProviderReports, Poll!job, SP!job, SchedulerView!job,
            Poll!rows, SP!rows, SchedulerView!rows
      <3>2. QED
        BY <3>1 DEF SP!Next, SchedulerView!Next
    <2>3. CASE TimePasses(r)
      <3>1. SP!TimePasses(r) /\ SchedulerView!TimePasses(r)
        BY <2>1, <2>3
        DEF TimePasses, Poll!TimePasses, SP!TimePasses, SchedulerView!TimePasses,
            Poll!IsDue, SP!IsDue, SchedulerView!IsDue, Poll!job, SP!job, SchedulerView!job,
            Poll!outside, SP!outside, SchedulerView!outside
      <3>2. QED
        BY <3>1 DEF SP!Next, SchedulerView!Next
    <2>4. QED
      BY <1>5, <2>2, <2>3
  <1>6. ASSUME NEW j \in Jobs, Schedule(j)
        PROVE  SP!Next /\ SchedulerView!Next
    BY <1>6, WorkSteps DEF Schedule, SP!Next, SchedulerView!Next
  <1>7. CASE ServerCrash
    BY <1>1, <1>7 DEF ServerCrash, Send!Crash, Send!database, SchedulerStatus
  <1>8. CASE SchedulerCrash
    <2>1. SchedulerStatus' = SchedulerStatus
      BY <1>8 DEF SchedulerCrash, Poll!Crash, Poll!rows, SchedulerStatus
    <2>2. SP!Crash /\ SchedulerView!Crash
      BY <1>8, <2>1
      DEF SchedulerCrash, Poll!Crash, SP!Crash, SchedulerView!Crash,
          Poll!rows, SP!rows, SchedulerView!rows
    <2>3. QED
      BY <2>2 DEF SP!Next, SchedulerView!Next
  <1>9. QED
    BY <1>2, <1>3, <1>4, <1>5, <1>6, <1>7, <1>8 DEF Next

-----------------------------------------------------------------------------
(***************************************************************************)
(* The server beside the scheduler.                                        *)
(***************************************************************************)

\* The server sees a handler's change of a row as it is, ...
LEMMA SeenRow ==
    ASSUME Inv, NEW r \in Requests, Alone(r), result' = result
    PROVE  /\ ServerStatus' = [ServerStatus EXCEPT ![r] = status'[r]]
           /\ poll'[r] \in {"NONE", "WAITING"} =>
                ServerPoll' = [ServerPoll EXCEPT ![r] = poll'[r]]
  <1>1. result[r] = NoReport
    BY HandledRow DEF Alone
  <1>2. \A m \in Requests : m # r =>
          status'[m] = status[m] /\ poll'[m] = poll[m] /\ result'[m] = result[m]
    BY DEF Alone
  <1>3. result'[r] = NoReport
    BY <1>1
  <1>4. ServerStatus' = [ServerStatus EXCEPT ![r] = status'[r]]
    BY <1>2, <1>3 DEF ServerStatus
  <1>5. ASSUME poll'[r] \in {"NONE", "WAITING"}
        PROVE  ServerPoll' = [ServerPoll EXCEPT ![r] = poll'[r]]
    BY <1>2, <1>5 DEF ServerPoll
  <1>6. QED
    BY <1>4, <1>5

\* ... and its answer, with a conclusion of the scheduler masked in it; the
\* other answers stay, for one that tells of a final status tells of a row
\* without a handler.
LEMMA SeenAnswer ==
    ASSUME Inv, NEW r \in Requests, Alone(r),
           NEW kind, NEW of \in Requests, NEW st, NEW seen,
           answer' = [answer EXCEPT ![r] = [kind |-> kind, of |-> of, status |-> st]],
           kind = "duplicate" /\ st \in Final /\ poll'[of] # "NONE" => seen = "ACCEPTED",
           ~(kind = "duplicate" /\ st \in Final /\ poll'[of] # "NONE") => seen = st
    PROVE  ServerAnswer' = [ServerAnswer EXCEPT ![r] =
                              [kind |-> kind, of |-> of, status |-> seen]]
  <1>1. answer'[r] = [kind |-> kind, of |-> of, status |-> st]
    BY DEF Inv, Types
  <1>2. ServerAnswer'[r] = [kind |-> kind, of |-> of, status |-> seen]
    BY <1>1 DEF ServerAnswer, Final
  <1>3. ASSUME NEW q \in Requests, q # r
        PROVE  ServerAnswer'[q] = ServerAnswer[q]
    <2>1. answer'[q] = answer[q]
      BY <1>3 DEF Alone
    <2>2. CASE answer[q].kind = "duplicate" /\ answer[q].status \in Final
      <3>1. answer[q].of \in Requests \ {r}
        BY <2>2 DEF Inv, Types, AllAnswers, FinalIsOver, Alone
      <3>2. poll'[answer[q].of] = poll[answer[q].of]
        BY <3>1 DEF Alone
      <3>3. QED
        BY <2>1, <3>2 DEF ServerAnswer
    <2>3. CASE ~(answer[q].kind = "duplicate" /\ answer[q].status \in Final)
      BY <2>1, <2>3 DEF ServerAnswer, Final
    <2>4. QED
      BY <2>2, <2>3
  <1>4. /\ ServerAnswer = [q \in Requests |-> ServerAnswer[q]]
        /\ ServerAnswer' = [q \in Requests |-> ServerAnswer'[q]]
    BY DEF ServerAnswer
  <1>5. QED
    BY <1>2, <1>3, <1>4

LEMMA SeenPlain ==
    ASSUME Inv, NEW r \in Requests, Alone(r),
           NEW kind, kind # "duplicate", NEW of \in Requests, NEW st,
           answer' = [answer EXCEPT ![r] = [kind |-> kind, of |-> of, status |-> st]]
    PROVE  ServerAnswer' = [ServerAnswer EXCEPT ![r] =
                              [kind |-> kind, of |-> of, status |-> st]]
  <1>1. PICK seen : seen = st
    OBVIOUS
  <1>2. ServerAnswer' = [ServerAnswer EXCEPT ![r] =
                           [kind |-> kind, of |-> of, status |-> seen]]
    BY <1>1, SeenAnswer
  <1>3. QED
    BY <1>1, <1>2

\* What no step of the server's view changes is what the columns and answers
\* behind it do not change.
LEMMA SeenSame ==
    ASSUME UNCHANGED <<status, poll, result>>
    PROVE  /\ ServerStatus' = ServerStatus /\ ServerPoll' = ServerPoll
           /\ answer' = answer => ServerAnswer' = ServerAnswer
  BY DEF ServerStatus, ServerPoll, ServerAnswer

\* The handlers up to the lookup, and the provider.
LEMMA MoveSteps ==
    ASSUME UNCHANGED <<status, poll, result>>, NEW r \in Requests,
           \/ Send!Receive(r) \/ Send!PassChecks(r)
           \/ Send!CallProvider(r) \/ Send!ProviderTakes(r) \/ Send!ProviderRefuses(r)
    PROVE  DP!Next /\ ServerView!Next
  <1>1. UNCHANGED <<ServerStatus, ServerPoll, ServerAnswer>>
    BY SeenSame DEF Send!Receive, Send!PassChecks, Send!CallProvider, Send!ProviderTakes,
                    Send!ProviderRefuses
  <1> USE <1>1 DEF Send!database, DP!database, ServerView!database,
                   Send!provider, DP!provider, ServerView!provider,
                   Send!Goto, DP!Goto, ServerView!Goto, Send!Key, DP!Key, ServerView!Key
  <1>2. CASE Send!Receive(r)
    <2>1. DP!Receive(r) /\ ServerView!Receive(r)
      BY <1>2 DEF Send!Receive, DP!Receive, ServerView!Receive
    <2>2. QED
      BY <2>1 DEF DP!Next, ServerView!Next
  <1>3. CASE Send!PassChecks(r)
    <2>1. DP!PassChecks(r) /\ ServerView!PassChecks(r)
      BY <1>3 DEF Send!PassChecks, DP!PassChecks, ServerView!PassChecks
    <2>2. QED
      BY <2>1 DEF DP!Next, ServerView!Next, DP!Handler, ServerView!Handler
  <1>4. CASE Send!CallProvider(r)
    <2>1. DP!CallProvider(r) /\ ServerView!CallProvider(r)
      BY <1>4 DEF Send!CallProvider, DP!CallProvider, ServerView!CallProvider
    <2>2. QED
      BY <2>1 DEF DP!Next, ServerView!Next, DP!Handler, ServerView!Handler
  <1>5. CASE Send!ProviderTakes(r)
    <2>1. DP!ProviderTakes(r) /\ ServerView!ProviderTakes(r)
      BY <1>5 DEF Send!ProviderTakes, DP!ProviderTakes, ServerView!ProviderTakes
    <2>2. QED
      BY <2>1 DEF DP!Next, ServerView!Next
  <1>6. CASE Send!ProviderRefuses(r)
    <2>1. DP!ProviderRefuses(r) /\ ServerView!ProviderRefuses(r)
      BY <1>6 DEF Send!ProviderRefuses, DP!ProviderRefuses, ServerView!ProviderRefuses
    <2>2. QED
      BY <2>1 DEF DP!Next, ServerView!Next
  <1>7. QED
    BY <1>2, <1>3, <1>4, <1>5, <1>6

\* A handler that ends without a word about a row.
LEMMA EndSteps ==
    ASSUME Inv, result' = result, NEW r \in Requests,
           \/ Send!RejectUnauthenticated(r) \/ Send!FailChecks(r) \/ Send!RequestThrows(r)
           \/ Send!CallThrows(r) \/ Send!OutcomeThrows(r)
    PROVE  DP!Next /\ ServerView!Next
  <1>1. Alone(r) /\ UNCHANGED <<status, poll>>
    BY QuietForm
  <1>2. ASSUME NEW from, NEW kind, kind # "duplicate", Send!Finish(r, from, kind, r, "NONE")
        PROVE  DP!Finish(r, from, kind, r, "NONE") /\ ServerView!Finish(r, from, kind, r, "NONE")
    <2>1. answer' = [answer EXCEPT ![r] = [kind |-> kind, of |-> r, status |-> "NONE"]]
      BY <1>2 DEF Send!Finish
    <2>2. ServerAnswer' = [ServerAnswer EXCEPT ![r] = [kind |-> kind, of |-> r, status |-> "NONE"]]
      <3>1. PICK none : none = "NONE"
        OBVIOUS
      <3>2. PICK of \in Requests : of = r
        OBVIOUS
      <3>3. answer' = [answer EXCEPT ![r] = [kind |-> kind, of |-> of, status |-> none]]
        BY <2>1, <3>1, <3>2
      <3>4. ServerAnswer' = [ServerAnswer EXCEPT ![r] =
                               [kind |-> kind, of |-> of, status |-> none]]
        BY <1>1, <1>2, <3>3, SeenPlain
      <3>5. QED
        BY <3>1, <3>2, <3>4
    <2>3. QED
      BY <1>2, <2>2 DEF Send!Finish, DP!Finish, ServerView!Finish,
                        Send!Goto, DP!Goto, ServerView!Goto
  <1>3. UNCHANGED <<ServerStatus, ServerPoll>>
    BY <1>1, SeenSame
  <1> USE <1>2, <1>3 DEF Send!database, DP!database, ServerView!database,
                         Send!provider, DP!provider, ServerView!provider,
                         Send!ServiceOf, DP!ServiceOf, ServerView!ServiceOf,
                         Send!CallEnded, DP!CallEnded, ServerView!CallEnded
  <1>4. CASE Send!RejectUnauthenticated(r)
    <2>1. DP!RejectUnauthenticated(r) /\ ServerView!RejectUnauthenticated(r)
      BY <1>4 DEF Send!RejectUnauthenticated, DP!RejectUnauthenticated,
                  ServerView!RejectUnauthenticated
    <2>2. QED
      BY <2>1 DEF DP!Next, ServerView!Next
  <1>5. CASE Send!FailChecks(r)
    <2>1. DP!FailChecks(r) /\ ServerView!FailChecks(r)
      BY <1>5 DEF Send!FailChecks, DP!FailChecks, ServerView!FailChecks
    <2>2. QED
      BY <2>1 DEF DP!Next, ServerView!Next, DP!Handler, ServerView!Handler
  <1>6. CASE Send!RequestThrows(r)
    <2>1. DP!RequestThrows(r) /\ ServerView!RequestThrows(r)
      BY <1>6 DEF Send!RequestThrows, DP!RequestThrows, ServerView!RequestThrows
    <2>2. QED
      BY <2>1 DEF DP!Next, ServerView!Next, DP!Handler, ServerView!Handler
  <1>7. CASE Send!CallThrows(r)
    <2>1. DP!CallThrows(r) /\ ServerView!CallThrows(r)
      BY <1>7 DEF Send!CallThrows, DP!CallThrows, ServerView!CallThrows
    <2>2. QED
      BY <2>1 DEF DP!Next, ServerView!Next, DP!Handler, ServerView!Handler
  <1>8. CASE Send!OutcomeThrows(r)
    <2>1. DP!OutcomeThrows(r) /\ ServerView!OutcomeThrows(r)
      BY <1>8 DEF Send!OutcomeThrows, DP!OutcomeThrows, ServerView!OutcomeThrows
    <2>2. QED
      BY <2>1 DEF DP!Next, ServerView!Next, DP!Handler, ServerView!Handler
  <1>9. QED
    BY <1>4, <1>5, <1>6, <1>7, <1>8

\* The lookup sees the same rows, and a concluded one as accepted.
LEMMA LookupSteps ==
    ASSUME Inv, result' = result, NEW r \in Requests,
           Send!LookupMisses(r) \/ Send!LookupHits(r)
    PROVE  DP!Next /\ ServerView!Next
  <1>1. \A m \in Requests : DP!Exists(m) <=> Send!Exists(m)
    BY ServerSees DEF DP!Exists, Send!Exists
  <1>2. \A m \in Requests : ServerView!Exists(m) <=> Send!Exists(m)
    BY ServerSees DEF ServerView!Exists, Send!Exists
  <1>3. DP!SameRequest(r) = Send!SameRequest(r) /\ ServerView!SameRequest(r) = Send!SameRequest(r)
    BY <1>1, <1>2 DEF DP!SameRequest, ServerView!SameRequest, Send!SameRequest,
                      DP!Key, ServerView!Key, Send!Key
  <1>4. Alone(r) /\ UNCHANGED <<status, poll>>
    BY QuietForm
  <1>5. UNCHANGED <<ServerStatus, ServerPoll>> /\ (answer' = answer => ServerAnswer' = ServerAnswer)
    BY <1>4, SeenSame
  <1>6. CASE Send!LookupMisses(r)
    <2>1. DP!LookupMisses(r) /\ ServerView!LookupMisses(r)
      BY <1>3, <1>5, <1>6
      DEF Send!LookupMisses, DP!LookupMisses, ServerView!LookupMisses,
          Send!Goto, DP!Goto, ServerView!Goto, Send!database, DP!database, ServerView!database,
          Send!provider, DP!provider, ServerView!provider
    <2>2. QED
      BY <2>1 DEF DP!Next, ServerView!Next, DP!Handler, ServerView!Handler
  <1>7. CASE Send!LookupHits(r)
    <2>1. PICK m \in Send!SameRequest(r) : Send!Finish(r, "lookup", "duplicate", m, status[m])
      BY <1>7 DEF Send!LookupHits
    <2>2. m \in Requests
      BY DEF Send!SameRequest
    <2>3. ServerStatus[m] = IF status[m] \in Final /\ poll[m] # "NONE"
                            THEN "ACCEPTED" ELSE status[m]
      BY <2>2, ServerSees
    <2>4. answer' = [answer EXCEPT ![r] = [kind |-> "duplicate", of |-> m, status |-> status[m]]]
      BY <2>1 DEF Send!Finish
    <2>5. poll'[m] = poll[m]
      BY <1>4
    <2>6. ServerAnswer' = [ServerAnswer EXCEPT ![r] =
             [kind |-> "duplicate", of |-> m, status |-> ServerStatus[m]]]
      BY <1>4, <2>2, <2>3, <2>4, <2>5, SeenAnswer
    <2>7. /\ DP!Finish(r, "lookup", "duplicate", m, ServerStatus[m])
          /\ ServerView!Finish(r, "lookup", "duplicate", m, ServerStatus[m])
      BY <2>1, <2>6 DEF Send!Finish, DP!Finish, ServerView!Finish,
                        Send!Goto, DP!Goto, ServerView!Goto
    <2>8. DP!LookupHits(r) /\ ServerView!LookupHits(r)
      BY <1>3, <1>5, <1>7, <2>7
      DEF Send!LookupHits, DP!LookupHits, ServerView!LookupHits,
          Send!database, DP!database, ServerView!database,
          Send!provider, DP!provider, ServerView!provider
    <2>9. QED
      BY <2>8 DEF DP!Next, ServerView!Next, DP!Handler, ServerView!Handler
  <1>8. QED
    BY <1>6, <1>7

LEMMA CreateSteps ==
    ASSUME Inv, result' = result, NEW r \in Requests, Send!CreateMessage(r)
    PROVE  DP!Next /\ ServerView!Next
  <1>1. /\ Alone(r) /\ UNCHANGED <<poll, answer>>
        /\ status' = [status EXCEPT ![r] = "DISPATCHING"]
    BY CreateForm
  <1>2. \A m \in Requests : DP!Exists(m) <=> Send!Exists(m)
    BY ServerSees DEF DP!Exists, Send!Exists
  <1>3. \A m \in Requests : ServerView!Exists(m) <=> Send!Exists(m)
    BY ServerSees DEF ServerView!Exists, Send!Exists
  <1>4. DP!KeyIsFree(r) /\ ServerView!KeyIsFree(r)
    BY <1>2, <1>3 DEF Send!CreateMessage, DP!KeyIsFree, ServerView!KeyIsFree, Send!KeyIsFree,
                      DP!Key, ServerView!Key, Send!Key
  <1>5. ServerStatus' = [ServerStatus EXCEPT ![r] = "DISPATCHING"]
    <2>1. status'[r] = "DISPATCHING"
      BY <1>1 DEF Inv, Types
    <2>2. QED
      BY <1>1, <2>1, SeenRow
  <1>6. ServerPoll' = ServerPoll /\ ServerAnswer' = ServerAnswer
    BY <1>1 DEF ServerPoll, ServerAnswer
  <1>7. DP!CreateMessage(r) /\ ServerView!CreateMessage(r)
    BY <1>4, <1>5, <1>6
    DEF Send!CreateMessage, DP!CreateMessage, ServerView!CreateMessage,
        Send!Goto, DP!Goto, ServerView!Goto, Send!ServiceOf, DP!ServiceOf, ServerView!ServiceOf,
        Send!provider, DP!provider, ServerView!provider
  <1>8. QED
    BY <1>7 DEF DP!Next, ServerView!Next, DP!Handler, ServerView!Handler

LEMMA OutcomeSteps ==
    ASSUME Inv, result' = result, NEW r \in Requests,
           \/ Send!RecordAccepted(r) \/ Send!RecordRetryable(r) \/ Send!RecordFatal(r)
           \/ Send!RecordNetworkError(r)
    PROVE  DP!Next /\ ServerView!Next
  <1>1. /\ Alone(r)
        /\ poll' = poll \/ poll' = [poll EXCEPT ![r] = "WAITING"]
    BY OutcomeForm
  <1>2. poll[r] = "NONE" /\ ServerPoll[r] = "NONE"
    BY <1>1, HandledRow DEF Alone
  <1>3. poll \in [Requests -> {"NONE", "WAITING", "COMPLETE"}]
    BY DEF Inv, SP!RowsInv, SP!Types, SP!RowTypes
  <1>4. ServerPoll' = [ServerPoll EXCEPT ![r] = poll'[r]]
    BY <1>1, <1>2, <1>3, SeenRow
  <1>5. ASSUME NEW st, NEW verdict, NEW event, Send!Outcome(r, verdict, st, event)
        PROVE  DP!Outcome(r, verdict, st, event) /\ ServerView!Outcome(r, verdict, st, event)
    <2>1. /\ answer' = [answer EXCEPT ![r] = [kind |-> "result", of |-> r, status |-> st]]
          /\ status' = [status EXCEPT ![r] = st]
      BY <1>5 DEF Send!Outcome, Send!Finish
    <2>2. ServerAnswer' = [ServerAnswer EXCEPT ![r] = [kind |-> "result", of |-> r, status |-> st]]
      <3>1. PICK kind : kind = "result"
        OBVIOUS
      <3>2. kind # "duplicate"
        BY <3>1
      <3>3. ServerAnswer' = [ServerAnswer EXCEPT ![r] = [kind |-> kind, of |-> r, status |-> st]]
        BY <1>1, <2>1, <3>1, <3>2, SeenPlain
      <3>4. QED
        BY <3>1, <3>3
    <2>3. ServerStatus' = [ServerStatus EXCEPT ![r] = st]
      <3>1. status'[r] = st
        BY <2>1 DEF Inv, Types
      <3>2. QED
        BY <1>1, <3>1, SeenRow
    <2>4. QED
      BY <1>5, <2>2, <2>3
      DEF Send!Outcome, DP!Outcome, ServerView!Outcome, Send!Finish, DP!Finish, ServerView!Finish,
          Send!Goto, DP!Goto, ServerView!Goto, Send!provider, DP!provider, ServerView!provider
  <1>6. poll' = poll => ServerPoll' = ServerPoll
    BY DEF ServerPoll
  <1>7. poll' = [poll EXCEPT ![r] = "WAITING"] => ServerPoll' = [ServerPoll EXCEPT ![r] = "WAITING"]
    BY <1>3, <1>4
  <1> USE <1>5, <1>6 DEF Send!ReplyOf, DP!ReplyOf, ServerView!ReplyOf,
                         Send!CallEnded, DP!CallEnded, ServerView!CallEnded,
                         Send!Verdict, DP!Verdict, ServerView!Verdict
  <1>8. CASE Send!RecordAccepted(r)
    <2>1. DP!RecordAccepted(r) /\ ServerView!RecordAccepted(r)
      BY <1>7, <1>8 DEF Send!RecordAccepted, DP!RecordAccepted, ServerView!RecordAccepted
    <2>2. QED
      BY <2>1 DEF DP!Next, ServerView!Next, DP!Handler, ServerView!Handler
  <1>9. CASE Send!RecordRetryable(r)
    <2>1. DP!RecordRetryable(r) /\ ServerView!RecordRetryable(r)
      BY <1>9 DEF Send!RecordRetryable, DP!RecordRetryable, ServerView!RecordRetryable
    <2>2. QED
      BY <2>1 DEF DP!Next, ServerView!Next, DP!Handler, ServerView!Handler
  <1>10. CASE Send!RecordFatal(r)
    <2>1. DP!RecordFatal(r) /\ ServerView!RecordFatal(r)
      BY <1>10 DEF Send!RecordFatal, DP!RecordFatal, ServerView!RecordFatal
    <2>2. QED
      BY <2>1 DEF DP!Next, ServerView!Next, DP!Handler, ServerView!Handler
  <1>11. CASE Send!RecordNetworkError(r)
    <2>1. DP!RecordNetworkError(r) /\ ServerView!RecordNetworkError(r)
      BY <1>11 DEF Send!RecordNetworkError, DP!RecordNetworkError, ServerView!RecordNetworkError
    <2>2. QED
      BY <2>1 DEF DP!Next, ServerView!Next, DP!Handler, ServerView!Handler
  <1>12. QED
    BY <1>8, <1>9, <1>10, <1>11

LEMMA ScheduleStutters ==
    ASSUME Inv, UNCHANGED answer,
           \/ UNCHANGED <<status, poll, result>>
           \/ \E m \in Requests : Concludes(m)
    PROVE  UNCHANGED <<ServerStatus, ServerPoll, ServerAnswer>>
  <1>1. CASE UNCHANGED <<status, poll, result>>
    BY <1>1, SeenSame
  <1>2. ASSUME NEW m \in Requests, Concludes(m)
        PROVE  UNCHANGED <<ServerStatus, ServerPoll, ServerAnswer>>
    <2>1. \A n \in Requests :
            /\ poll'[n] = IF n = m THEN "COMPLETE" ELSE poll[n]
            /\ poll'[n] # "NONE" <=> poll[n] # "NONE"
      BY <1>2 DEF Concludes, Inv, SP!RowsInv, SP!Types, SP!RowTypes
    <2>2. ServerPoll' = ServerPoll
      BY <1>2, <2>1 DEF Concludes, ServerPoll
    <2>3. ASSUME NEW q \in Requests
          PROVE  ServerAnswer'[q] = ServerAnswer[q]
      <3>1. answer[q].of \in Requests
        BY DEF Inv, Types, AllAnswers
      <3>2. QED
        BY <2>1, <3>1 DEF ServerAnswer
    <2>4. /\ ServerAnswer = [q \in Requests |-> ServerAnswer[q]]
          /\ ServerAnswer' = [q \in Requests |-> ServerAnswer'[q]]
      BY DEF ServerAnswer
    <2>5. ServerAnswer' = ServerAnswer
      BY <2>3, <2>4
    <2>6. CASE UNCHANGED <<status, result>>
      BY <2>2, <2>5, <2>6 DEF ServerStatus
    <2>7. ASSUME NEW st \in Final, status' = [status EXCEPT ![m] = st],
                 NEW c \in Reports, result' = [result EXCEPT ![m] = c]
          PROVE  ServerStatus' = ServerStatus
      <3>1. result[m] = NoReport /\ status[m] = "ACCEPTED" /\ c # NoReport
        BY <1>2, ReportAssumption DEF Concludes
      <3>2. result \in [Requests -> Reports \union {NoReport}]
        BY DEF Inv, SP!RowsInv, SP!Types, SP!RowTypes
      <3>3. QED
        BY <2>7, <3>1, <3>2 DEF ServerStatus, Inv, Types
    <2>8. QED
      BY <1>2, <2>2, <2>5, <2>6, <2>7 DEF Concludes
  <1>3. QED
    BY <1>1, <1>2

\* Every step of the two processes is a step of the server's view, or
\* leaves it as it is.
LEMMA ServerStep ==
    ASSUME Inv, [Next]_vars
    PROVE  [DP!Next]_DP!vars /\ [ServerView!Next]_ServerView!vars
  <1>1. ASSUME UNCHANGED <<serverVars, ServerStatus, ServerPoll, ServerAnswer>>
        PROVE  UNCHANGED DP!vars /\ UNCHANGED ServerView!vars
    BY <1>1 DEF serverVars, DP!vars, ServerView!vars
  <1>2. CASE UNCHANGED vars
    BY <1>1, <1>2, SeenSame DEF vars, serverVars, schedulerVars
  <1>3. ASSUME NEW r \in Requests, ServeOther(r)
        PROVE  DP!Next /\ ServerView!Next
    <2>1. result' = result
      BY <1>3 DEF ServeOther, schedulerVars
    <2>2. CASE \/ Send!Receive(r) \/ Send!PassChecks(r) \/ Send!CallProvider(r)
               \/ Send!ProviderTakes(r) \/ Send!ProviderRefuses(r)
      <3>1. UNCHANGED <<status, poll>>
        BY <2>2 DEF Send!Receive, Send!PassChecks, Send!CallProvider, Send!ProviderTakes,
                    Send!ProviderRefuses, Send!database
      <3>2. QED
        BY <2>1, <2>2, <3>1, MoveSteps
    <2>3. QED
      BY <1>3, <2>1, <2>2, EndSteps, LookupSteps, CreateSteps, OutcomeSteps DEF ServeOther
  <1>4. ASSUME NEW r \in Requests, ServeAcceptance(r)
        PROVE  DP!Next /\ ServerView!Next
    <2>1. result' = result
      BY <1>4 DEF ServeAcceptance, Poll!Accept, Poll!AcceptOverdue, Poll!Accepted
    <2>2. QED
      BY <1>4, <2>1, OutcomeSteps DEF ServeAcceptance
  <1>5. ASSUME NEW r \in Requests, CountDelivery(r) \/ TimePasses(r)
        PROVE  UNCHANGED <<serverVars, status, poll, result>>
    BY <1>5 DEF CountDelivery, TimePasses, Poll!TimePasses, Poll!ProviderReports, Poll!rows
  <1>6. ASSUME NEW j \in Jobs, Schedule(j)
        PROVE  UNCHANGED DP!vars /\ UNCHANGED ServerView!vars
    <2>1. UNCHANGED serverVars /\ answer' = answer
      BY <1>6 DEF Schedule, serverVars
    <2>2. UNCHANGED <<ServerStatus, ServerPoll, ServerAnswer>>
      BY <1>6, <2>1, WorkForm, ScheduleStutters DEF Schedule
    <2>3. QED
      BY <1>1, <2>1, <2>2
  <1>7. CASE ServerCrash
    <2>1. UNCHANGED <<ServerStatus, ServerPoll, ServerAnswer>>
      BY <1>7, SeenSame DEF ServerCrash, Send!Crash, Send!database, schedulerVars
    <2>2. DP!Crash /\ ServerView!Crash
      BY <1>7, <2>1
      DEF ServerCrash, Send!Crash, DP!Crash, ServerView!Crash,
          Send!Running, DP!Running, ServerView!Running,
          Send!database, DP!database, ServerView!database,
          Send!provider, DP!provider, ServerView!provider
    <2>3. QED
      BY <2>2 DEF DP!Next, ServerView!Next
  <1>8. CASE SchedulerCrash
    <2>1. UNCHANGED <<serverVars, status, poll, result>>
      BY <1>8 DEF SchedulerCrash, Poll!Crash, Poll!rows
    <2>2. QED
      BY <1>1, <2>1, SeenSame DEF serverVars
  <1>9. ASSUME UNCHANGED <<serverVars, status, poll, result>>
        PROVE  UNCHANGED DP!vars /\ UNCHANGED ServerView!vars
    BY <1>1, <1>9, SeenSame DEF serverVars
  <1>10. QED
    BY <1>2, <1>3, <1>4, <1>5, <1>6, <1>7, <1>8, <1>9 DEF Next

-----------------------------------------------------------------------------
(***************************************************************************)
(* The invariant of the two processes, and what follows from it.           *)
(***************************************************************************)

LEMMA InitViews ==
    ASSUME Init
    PROVE  /\ DP!Init /\ ServerView!Init
           /\ SP!Init /\ SchedulerView!Init
  <1>1. /\ ServerStatus = [m \in Requests |-> "NONE"]
        /\ ServerPoll = [m \in Requests |-> "NONE"]
        /\ ServerAnswer = [r \in Requests |-> [kind |-> "none", of |-> r, status |-> "NONE"]]
        /\ SchedulerStatus = [m \in Requests |-> "DISPATCHING"]
    BY DEF Init, Send!Init, ServerStatus, ServerPoll, ServerAnswer, SchedulerStatus
  <1>2. DP!Inputs = Send!Inputs /\ ServerView!Inputs = Send!Inputs
    BY DEF DP!Inputs, ServerView!Inputs, Send!Inputs, DP!Services, ServerView!Services,
           Send!Services
  <1>3. DP!Init /\ ServerView!Init
    BY <1>1, <1>2 DEF Init, Send!Init, DP!Init, ServerView!Init
  <1>4. SP!Init /\ SchedulerView!Init
    BY <1>1 DEF Init, Send!Init, SP!Init, SchedulerView!Init
  <1>5. QED
    BY <1>3, <1>4

LEMMA InitInv ==
    ASSUME Init
    PROVE  Inv
  <1>1. DP!TypeOK
    BY InitViews, DP!TypeInit, ServiceAssumption, KeyAssumption, CodeAssumption, BoundAssumption
    DEF DP!Services, DP!ServiceType, DP!ReplyType, DP!Channels
  <1>2. SP!RowsInv
    BY InitViews, SP!RowsInvInit, ReportAssumption, BoundAssumption
  <1>3. SingleWriter /\ FinalIsOver /\ input = Bodies
    BY DEF Init, Send!Init, SingleWriter, FinalIsOver, Final
  <1>4. status \in [Requests -> AllStatuses] /\ answer \in [Requests -> AllAnswers]
    BY DEF Init, Send!Init, AllStatuses, AllAnswers
  <1>5. QED
    BY <1>1, <1>2, <1>3, <1>4 DEF Inv, Types

LEMMA StepInv ==
    ASSUME Inv, [Next]_vars
    PROVE  Inv'
  <1>1. DP!TypeOK'
    BY ServerStep, DP!TypeStep, ServiceAssumption, KeyAssumption, CodeAssumption, BoundAssumption
    DEF Inv, Types, DP!Services, DP!ServiceType, DP!ReplyType, DP!Channels
  <1>2. SP!RowsInv'
    BY SchedulerStep, SP!RowsInvStep, ReportAssumption, BoundAssumption DEF Inv
  <1> DEFINE Rest == /\ SingleWriter' /\ FinalIsOver' /\ input' = input
                     /\ status' \in [Requests -> AllStatuses]
                     /\ answer' \in [Requests -> AllAnswers]
  <1>3. ASSUME UNCHANGED <<serverVars, status, poll, result>>
        PROVE  Rest
    BY <1>3 DEF serverVars, Inv, Types, SingleWriter, FinalIsOver
  <1>4. ASSUME NEW r \in Requests, ServeOther(r) \/ ServeAcceptance(r)
        PROVE  Rest
    <2>1. \/ Alone(r)
          \/ UNCHANGED <<status, answer>>
      BY <1>4, QuietForm, CreateForm, OutcomeForm
      DEF ServeOther, ServeAcceptance, Send!ProviderTakes, Send!ProviderRefuses, Send!database
    <2>2. status' \in [Requests -> AllStatuses] /\ answer' \in [Requests -> AllAnswers]
      BY <2>1 DEF Alone, Inv, Types
    <2>3. QED
      BY <1>4, <2>2, ServerKeeps
  <1>5. ASSUME NEW j \in Jobs, Schedule(j)
        PROVE  Rest
    <2>1. /\ UNCHANGED serverVars
          /\ \/ UNCHANGED <<status, poll, result>>
             \/ \E m \in Requests : Concludes(m)
      BY <1>5, WorkForm DEF Schedule
    <2>2. status' \in [Requests -> AllStatuses] /\ answer' = answer
      BY <2>1 DEF Concludes, AllStatuses, serverVars, Inv, Types
    <2>3. QED
      BY <2>1, <2>2, SchedulerKeeps DEF Inv, Types
  <1>6. ASSUME ServerCrash
        PROVE  Rest
    <2>1. /\ UNCHANGED <<input, status, poll, dispatch, events, answer>>
          /\ \A m \in Requests : pc[m] = "done" => pc'[m] = "done"
      BY <1>6 DEF ServerCrash, Send!Crash, Send!database, Send!Running
    <2>2. \A r \in Requests : answer[r].of \in Requests
      BY DEF Inv, Types, AllAnswers
    <2>3. SingleWriter'
      BY <2>1 DEF Inv, SingleWriter
    <2>4. FinalIsOver'
      BY <2>1, <2>2 DEF Inv, FinalIsOver
    <2>5. /\ input' = input
          /\ status' \in [Requests -> AllStatuses] /\ answer' \in [Requests -> AllAnswers]
      BY <2>1 DEF Inv, Types
    <2>6. QED
      BY <2>3, <2>4, <2>5
  <1>7. ASSUME \/ UNCHANGED vars \/ SchedulerCrash
               \/ \E r \in Requests : CountDelivery(r) \/ TimePasses(r)
        PROVE  UNCHANGED <<serverVars, status, poll, result>>
    BY <1>7 DEF vars, schedulerVars, CountDelivery, TimePasses, SchedulerCrash,
                Poll!TimePasses, Poll!ProviderReports, Poll!Crash, Poll!rows
  <1>8. Rest
    BY <1>3, <1>4, <1>5, <1>6, <1>7 DEF Next
  <1>9. QED
    BY <1>1, <1>2, <1>8 DEF Inv, Types

THEOREM Invariance == Spec => []Inv
  BY InitInv, StepInv, PTL DEF Spec

\* SingleWriter: the two processes never have one row between them, with
\* any number of requests, jobs and crashes of either.
THEOREM OneWriter == Spec => []SingleWriter
  <1>1. Inv => SingleWriter
    BY DEF Inv
  <1>2. QED
    BY <1>1, Invariance, PTL

\* ServerImplementsSendDispatch: with what the scheduler does masked, the
\* server takes the steps of SendDispatch, in the order of SendDispatch.
THEOREM ServerRefines == Spec => ServerImplementsSendDispatch
  <1>1. Init => ServerView!Init
    BY InitViews
  <1>2. Inv /\ [Next]_vars => [ServerView!Next]_ServerView!vars
    BY ServerStep
  <1>3. QED
    BY <1>1, <1>2, Invariance, PTL
    DEF Spec, ServerImplementsSendDispatch, ServerView!Spec

\* SchedulerImplementsResultPolling: the rows reach the scheduler as
\* ResultPolling assumes, each of them once, and nothing else touches them.
THEOREM SchedulerRefines == Spec => SchedulerImplementsResultPolling
  <1>1. Init => SchedulerView!Init
    BY InitViews
  <1>2. Inv /\ [Next]_vars => [SchedulerView!Next]_SchedulerView!vars
    BY SchedulerStep
  <1>3. QED
    BY <1>1, <1>2, Invariance, PTL
    DEF Spec, SchedulerImplementsResultPolling, SchedulerView!Spec

-----------------------------------------------------------------------------
(***************************************************************************)
(* What readers see of both.                                               *)
(***************************************************************************)

\* The invariants of the two proofs hold of the views.
LEMMA ControlOfView == Spec => []DP!ControlInv
  <1>1. Init => DP!Init
    BY InitViews
  <1>2. Inv /\ [Next]_vars => [DP!Next]_DP!vars
    BY ServerStep
  <1>3. Spec => DP!Spec
    BY <1>1, <1>2, Invariance, PTL DEF Spec, DP!Spec
  <1>4. DP!Spec => []DP!ControlInv
    BY DP!ControlCorrect, ServiceAssumption, KeyAssumption, CodeAssumption, BoundAssumption
    DEF DP!Services, DP!ServiceType, DP!ReplyType, DP!Channels
  <1>5. QED
    BY <1>3, <1>4, PTL

LEMMA WebOfView == Spec => []SP!WebInv
  <1>1. Init => SP!Init
    BY InitViews
  <1>2. Inv /\ [Next]_vars => [SP!Next]_SP!vars
    BY SchedulerStep
  <1>3. Spec => SP!Spec
    BY <1>1, <1>2, Invariance, PTL DEF Spec, SP!Spec
  <1>4. SP!Spec => []SP!WebInv
    BY SP!WebCorrect, ReportAssumption, BoundAssumption
  <1>5. QED
    BY <1>3, <1>4, PTL

\* A request that is at a await of its handler before the outcome has the
\* row that readers see.
LEMMA ReaderSeesRequest ==
    ASSUME Inv, DP!ControlInv, NEW r \in Requests
    PROVE  /\ pc[r] = "create" => status[r] = "NONE"
           /\ pc[r] \in {"call", "await"} => status[r] = "DISPATCHING"
           /\ pc[r] = "call" => wire[r] = "idle"
  <1>1. pc[r] # "done" => ServerStatus[r] = status[r]
    BY HandledRow
  <1>2. QED
    BY <1>1 DEF DP!ControlInv

\* A handler's step is a creation, a hand-over, a settlement or none of them.
LEMMA ReaderSeesServer ==
    ASSUME Inv, DP!ControlInv, NEW r \in Requests,
           ServeOther(r) \/ ServeAcceptance(r), UNCHANGED <<result, told>>
    PROVE  [ReaderView!Next]_ReaderView!vars
  <1>1. UNCHANGED <<Counted, Told>>
    BY DEF Counted, Told
  <1>2. ASSUME UNCHANGED <<status, wire>>
        PROVE  UNCHANGED ReaderView!vars
    BY <1>1, <1>2 DEF Handed, ReaderView!vars
  <1>3. CASE \/ Send!Receive(r) \/ Send!RejectUnauthenticated(r)
             \/ Send!PassChecks(r) \/ Send!FailChecks(r)
             \/ Send!LookupMisses(r) \/ Send!LookupHits(r)
             \/ Send!RequestThrows(r) \/ Send!CallThrows(r) \/ Send!OutcomeThrows(r)
    <2>1. UNCHANGED <<status, wire>>
      BY <1>3 DEF Send!Receive, Send!RejectUnauthenticated, Send!PassChecks, Send!FailChecks,
                  Send!LookupMisses, Send!LookupHits, Send!RequestThrows, Send!CallThrows,
                  Send!OutcomeThrows, Send!database, Send!provider
    <2>2. QED
      BY <1>2, <2>1
  <1>4. CASE Send!ProviderTakes(r) \/ Send!ProviderRefuses(r)
    <2>1. status' = status /\ wire[r] = "sent" /\ wire' = [wire EXCEPT ![r] = "answered"]
      BY <1>4 DEF Send!ProviderTakes, Send!ProviderRefuses, Send!database
    <2>2. \A m \in Requests : wire'[m] = "idle" <=> wire[m] = "idle"
      BY <2>1 DEF Inv, Types, DP!TypeOK
    <2>3. Handed' = Handed
      BY <2>2 DEF Handed
    <2>4. QED
      BY <1>1, <2>1, <2>3 DEF ReaderView!vars
  <1>5. CASE Send!CallProvider(r)
    <2>1. /\ status' = status /\ wire' = [wire EXCEPT ![r] = "sent"]
          /\ status[r] = "DISPATCHING" /\ wire[r] = "idle"
      BY <1>5, ReaderSeesRequest DEF Send!CallProvider, Send!Goto, Send!database
    <2>2. ~Handed[r]
      BY <2>1 DEF Handed
    <2>3. Handed' = [Handed EXCEPT ![r] = TRUE]
      BY <2>1 DEF Handed, Inv, Types, DP!TypeOK
    <2>4. ReaderView!HandOver(r)
      BY <1>1, <2>1, <2>2, <2>3 DEF ReaderView!HandOver
    <2>5. QED
      BY <2>4 DEF ReaderView!Next
  <1>6. CASE Send!CreateMessage(r)
    <2>1. status' = [status EXCEPT ![r] = "DISPATCHING"] /\ status[r] = "NONE" /\ wire' = wire
      BY <1>6, ReaderSeesRequest DEF Send!CreateMessage, Send!Goto, Send!provider
    <2>2. ReaderView!Create(r)
      BY <1>1, <2>1 DEF Handed, ReaderView!Create, ReaderView!Become
    <2>3. QED
      BY <2>2 DEF ReaderView!Next
  <1>7. CASE \/ Send!RecordAccepted(r) \/ Send!RecordRetryable(r) \/ Send!RecordFatal(r)
             \/ Send!RecordNetworkError(r)
    <2>1. /\ status[r] = "DISPATCHING"
          /\ \E st \in {"ACCEPTED", "SCHEDULED", "PENDING", "FAILED"} :
               status' = [status EXCEPT ![r] = st]
      BY <1>7, OutcomeForm, ReaderSeesRequest
    <2>2. wire[r] # "idle" /\ wire' = wire
      BY <1>7 DEF Send!RecordAccepted, Send!RecordRetryable, Send!RecordFatal,
                  Send!RecordNetworkError, Send!CallEnded, Send!Outcome, Send!provider
    <2>3. Handed[r] /\ Handed' = Handed
      BY <2>2 DEF Handed
    <2>4. ReaderView!Settle(r)
      BY <1>1, <2>1, <2>3 DEF ReaderView!Settle, ReaderView!Become, ReaderView!Settlements
    <2>5. QED
      BY <2>4 DEF ReaderView!Next
  <1>8. QED
    BY <1>3, <1>4, <1>5, <1>6, <1>7 DEF ServeOther, ServeAcceptance

\* A job's step is a conclusion, a word to the client or neither.
LEMMA ReaderSeesJob ==
    ASSUME Inv, SP!WebInv, NEW j \in Jobs, Schedule(j)
    PROVE  [ReaderView!Next]_ReaderView!vars
  <1>1. UNCHANGED <<wire, Handed>>
    BY DEF Schedule, serverVars, Handed
  <1>2. ASSUME UNCHANGED <<status, result, told>>
        PROVE  UNCHANGED ReaderView!vars
    BY <1>1, <1>2 DEF Counted, Told, ReaderView!vars
  <1>3. CASE Poll!Save(j)
    <2> DEFINE m == Poll!Current(j)
    <2>1. m \in Requests /\ status[m] = "ACCEPTED" /\ result[m] = NoReport
      BY <1>3, SaveForm DEF Concludes
    <2>2. /\ status' = [status EXCEPT ![m] = Poll!FinalStatus(found[j])]
          /\ result' = [result EXCEPT ![m] = found[j]] /\ told' = told
      BY <1>3 DEF Poll!Save, Poll!outside
    <2>3. found[j] # NoReport
      BY <1>3, ReportAssumption DEF Poll!Save, Inv, SP!RowsInv, SP!Types, SP!JobTypes
    <2>4. Poll!FinalStatus(found[j]) \in ReaderView!Conclusions
      BY DEF Poll!FinalStatus, ReaderView!Conclusions
    <2>5. ~Counted[m] /\ Counted' = [Counted EXCEPT ![m] = TRUE]
      BY <2>1, <2>2, <2>3 DEF Counted, Inv, SP!RowsInv, SP!Types, SP!RowTypes
    <2>6. Told' = Told
      BY <2>2 DEF Told
    <2> HIDE DEF m
    <2>7. ReaderView!Conclude(m)
      BY <1>1, <2>1, <2>2, <2>4, <2>5, <2>6 DEF ReaderView!Conclude, ReaderView!Become
    <2>8. QED
      BY <2>1, <2>7 DEF ReaderView!Next
  <1>4. CASE Poll!PatchAnswered(j) \/ Poll!PatchFails(j)
    <2> DEFINE m == Poll!Current(j)
    <2>1. m = SP!Current(j)
      BY SameHelpers
    <2>2. /\ step[j] = "patch" /\ UNCHANGED <<status, result>>
          /\ \/ told' = [told EXCEPT ![m] = Append(told[m], found[j])]
             \/ told' = told
      BY <1>4 DEF Poll!PatchAnswered, Poll!PatchFails, Poll!rows
    <2>3. m \in Requests
      BY <2>1, <2>2, SP!CurrentTyped, ReportAssumption, BoundAssumption
      DEF SP!Busy, SP!Steps, Inv, SP!RowsInv, SP!Types
    <2>4. result[m] # NoReport /\ told[m] = <<>>
      BY <2>1, <2>2 DEF SP!WebInv, SP!Hooks, SP!Hooking
    <2>5. Counted[m] /\ ~Told[m] /\ Counted' = Counted
      BY <2>2, <2>3, <2>4 DEF Counted, Told
    <2> HIDE DEF m
    <2>6. CASE told' = told
      BY <1>2, <2>2, <2>6
    <2>7. CASE told' = [told EXCEPT ![m] = Append(told[m], found[j])]
      <3>1. told \in [Requests -> Seq(Reports)] /\ Append(told[m], found[j]) # <<>>
        BY <2>2, <2>3, <2>4 DEF Inv, SP!RowsInv, SP!Types, SP!JobTypes, SP!OtherTypes
      <3>2. Told' = [Told EXCEPT ![m] = TRUE]
        BY <2>3, <2>7, <3>1 DEF Told
      <3>3. ReaderView!Tell(m)
        BY <1>1, <2>2, <2>5, <3>2 DEF ReaderView!Tell
      <3>4. QED
        BY <2>3, <3>3 DEF ReaderView!Next
    <2>8. QED
      BY <2>2, <2>6, <2>7
  <1>5. CASE ~Poll!Save(j) /\ ~Poll!PatchAnswered(j) /\ ~Poll!PatchFails(j)
    <2>1. UNCHANGED <<status, result, told>>
      BY <1>5 DEF Schedule, Poll!Tick, Poll!Work, Poll!Select, Poll!SelectThrows,
                  Poll!QueryFinds, Poll!QueryFindsNothing, Poll!QueryThrows, Poll!SaveThrows,
                  Poll!MarkNotFound, Poll!MarkThrows, Poll!Hook, Poll!HookThrows,
                  Poll!RecordAttempt, Poll!RecordAttemptAgain, Poll!RecordThrows,
                  Poll!rows, Poll!outside
    <2>2. QED
      BY <1>2, <2>1
  <1>6. QED
    BY <1>3, <1>4, <1>5

LEMMA ReaderStep ==
    ASSUME Inv, DP!ControlInv, SP!WebInv, [Next]_vars
    PROVE  [ReaderView!Next]_ReaderView!vars
  <1>1. ASSUME NEW r \in Requests, ServeOther(r) \/ ServeAcceptance(r)
        PROVE  UNCHANGED <<result, told>>
    BY <1>1 DEF ServeOther, ServeAcceptance, schedulerVars, Poll!Accept, Poll!AcceptOverdue,
                Poll!Accepted, Poll!outside
  <1>2. ASSUME \/ UNCHANGED vars \/ ServerCrash \/ SchedulerCrash
               \/ \E r \in Requests : CountDelivery(r) \/ TimePasses(r)
        PROVE  UNCHANGED <<status, wire, result, told>>
    BY <1>2 DEF vars, serverVars, schedulerVars, ServerCrash, Send!Crash, Send!database,
                Send!provider, SchedulerCrash, Poll!Crash, Poll!rows, CountDelivery,
                Poll!ProviderReports, TimePasses, Poll!TimePasses, Poll!outside
  <1>3. ASSUME UNCHANGED <<status, wire, result, told>>
        PROVE  UNCHANGED ReaderView!vars
    BY <1>3 DEF Handed, Counted, Told, ReaderView!vars
  <1>4. QED
    BY <1>1, <1>2, <1>3, ReaderSeesServer, ReaderSeesJob DEF Next

\* ImplementsLifecycle: a message is created, handed to the provider once,
\* settled once, concluded at most once and told of at most once, in this
\* order, whichever process is at it and whenever they die.
THEOREM LifecycleRefines == Spec => ImplementsLifecycle
  <1>1. Init => ReaderView!Init
    <2> SUFFICES ASSUME Init
                 PROVE  ReaderView!Init
      OBVIOUS
    <2>1. /\ status = [m \in Requests |-> "NONE"]
          /\ \A m \in Requests : wire[m] = "idle" /\ result[m] = NoReport /\ told[m] = <<>>
      BY DEF Init, Send!Init
    <2>2. /\ Handed = [m \in Requests |-> FALSE]
          /\ Counted = [m \in Requests |-> FALSE]
          /\ Told = [m \in Requests |-> FALSE]
      BY <2>1, Zenon DEF Handed, Counted, Told
    <2>3. QED
      BY <2>1, <2>2 DEF ReaderView!Init
  <1>2. Inv /\ DP!ControlInv /\ SP!WebInv /\ [Next]_vars => [ReaderView!Next]_ReaderView!vars
    BY ReaderStep
  <1>3. QED
    BY <1>1, <1>2, Invariance, ControlOfView, WebOfView, PTL
    DEF Spec, ImplementsLifecycle, ReaderView!Spec

\* What was said of a message with status st is true while it is now.
Holds(st, now) ==
    /\ st = "DELIVERED" => now = "DELIVERED"
    /\ st \in {"FAILED", "SCHEDULED", "PENDING"} => now = st
    /\ st = "ACCEPTED" => now \in {"ACCEPTED", "DELIVERED", "FAILED"}

\* A step of a life never takes back what was said of it.
LEMMA LifeGoesOn ==
    ASSUME Inv, [ReaderView!Next]_ReaderView!vars, NEW m \in Requests, NEW st,
           Holds(st, status[m])
    PROVE  Holds(st, status'[m])
  <1>1. CASE UNCHANGED ReaderView!vars
    BY <1>1 DEF ReaderView!vars
  <1>2. ASSUME NEW n \in Requests, ReaderView!HandOver(n) \/ ReaderView!Tell(n)
        PROVE  status' = status
    BY <1>2 DEF ReaderView!HandOver, ReaderView!Tell
  <1>3. ASSUME NEW n \in Requests,
               ReaderView!Create(n) \/ ReaderView!Settle(n) \/ ReaderView!Conclude(n)
        PROVE  Holds(st, status'[m])
    <2>1. /\ status[n] \in {"NONE", "DISPATCHING", "ACCEPTED"}
          /\ \E now : /\ status' = [status EXCEPT ![n] = now]
                      /\ status[n] = "ACCEPTED" => now \in {"DELIVERED", "FAILED"}
      BY <1>3 DEF ReaderView!Create, ReaderView!Settle, ReaderView!Conclude, ReaderView!Become,
                  ReaderView!Conclusions
    <2>2. CASE n = m
      BY <2>1, <2>2 DEF Holds, Inv, Types
    <2>3. CASE n # m
      BY <2>1, <2>3 DEF Inv, Types
    <2>4. QED
      BY <2>2, <2>3
  <1>4. QED
    BY <1>1, <1>2, <1>3 DEF ReaderView!Next

\* The one answer a step gives is true after the step.
LEMMA NewAnswerHolds ==
    ASSUME Inv, NEW r \in Requests, ServeOther(r) \/ ServeAcceptance(r),
           \E q \in Requests : answer'[q] # answer[q]
    PROVE  /\ \A q \in Requests \ {r} : answer'[q] = answer[q]
           /\ Holds(answer'[r].status, status'[answer'[r].of])
  <1> USE DEF Inv, Types
  <1>1. CASE \/ Send!Receive(r) \/ Send!PassChecks(r) \/ Send!LookupMisses(r)
             \/ Send!CreateMessage(r) \/ Send!CallProvider(r)
             \/ Send!ProviderTakes(r) \/ Send!ProviderRefuses(r)
    BY <1>1 DEF Send!Receive, Send!PassChecks, Send!LookupMisses, Send!CreateMessage,
                Send!CallProvider, Send!ProviderTakes, Send!ProviderRefuses
  <1>2. CASE \/ Send!RejectUnauthenticated(r) \/ Send!FailChecks(r) \/ Send!RequestThrows(r)
             \/ Send!CallThrows(r) \/ Send!OutcomeThrows(r)
    <2>1. PICK kind \in {"refused", "error"} :
            answer' = [answer EXCEPT ![r] = [kind |-> kind, of |-> r, status |-> "NONE"]]
      BY <1>2 DEF Send!RejectUnauthenticated, Send!FailChecks, Send!RequestThrows,
                  Send!CallThrows, Send!OutcomeThrows, Send!Finish
    <2>2. QED
      BY <2>1 DEF Holds
  <1>3. CASE Send!LookupHits(r)
    <2>1. PICK m \in Requests :
            /\ answer' = [answer EXCEPT ![r] =
                            [kind |-> "duplicate", of |-> m, status |-> status[m]]]
            /\ status' = status
      BY <1>3 DEF Send!LookupHits, Send!SameRequest, Send!Finish, Send!database
    <2>2. QED
      BY <2>1 DEF Holds
  <1>4. CASE \/ Send!RecordAccepted(r) \/ Send!RecordRetryable(r) \/ Send!RecordFatal(r)
             \/ Send!RecordNetworkError(r)
    <2>1. PICK st \in {"ACCEPTED", "SCHEDULED", "PENDING", "FAILED"} :
            /\ status' = [status EXCEPT ![r] = st]
            /\ answer' = [answer EXCEPT ![r] = [kind |-> "result", of |-> r, status |-> st]]
      BY <1>4, OutcomeForm
    <2>2. QED
      BY <2>1 DEF Holds
  <1>5. QED
    BY <1>1, <1>2, <1>3, <1>4 DEF ServeOther, ServeAcceptance

\* AnswersStayTrue: a client that was told a status may rely on it, whatever
\* the other process has done to the message since.
THEOREM AnswersRemain == Spec => []AnswersStayTrue
  <1> DEFINE Said == \A r \in Requests : Holds(answer[r].status, status[answer[r].of])
  <1>1. Init => Said
    <2> SUFFICES ASSUME Init, NEW r \in Requests
                 PROVE  Holds(answer[r].status, status[answer[r].of])
      OBVIOUS
    <2>1. answer[r] = [kind |-> "none", of |-> r, status |-> "NONE"]
      BY DEF Init, Send!Init
    <2>2. answer[r].status = "NONE"
      BY <2>1
    <2>3. QED
      BY <2>2 DEF Holds
  <1>2. Inv /\ DP!ControlInv /\ SP!WebInv /\ Said /\ [Next]_vars => Said'
    <2> SUFFICES ASSUME Inv, DP!ControlInv, SP!WebInv, Said, [Next]_vars,
                        NEW q \in Requests
                 PROVE  Holds(answer'[q].status, status'[answer'[q].of])
      OBVIOUS
    <2>1. CASE answer'[q] = answer[q]
      <3>1. answer[q].of \in Requests
        BY DEF Inv, Types, AllAnswers
      <3>2. Holds(answer[q].status, status'[answer[q].of])
        BY <3>1, ReaderStep, LifeGoesOn
      <3>3. QED
        BY <2>1, <3>2
    <2>2. CASE answer'[q] # answer[q]
      <3>1. answer' # answer
        BY <2>2
      <3>2. PICK r \in Requests : ServeOther(r) \/ ServeAcceptance(r)
        BY <3>1 DEF Next, vars, serverVars, CountDelivery, TimePasses, Schedule, ServerCrash,
                    Send!Crash, SchedulerCrash
      <3>3. QED
        BY <2>2, <3>2, NewAnswerHolds
    <2>3. QED
      BY <2>1, <2>2
  <1>3. Said => AnswersStayTrue
    BY DEF Holds, AnswersStayTrue
  <1>4. QED
    BY <1>1, <1>2, <1>3, Invariance, ControlOfView, WebOfView, PTL DEF Spec

-----------------------------------------------------------------------------
(***************************************************************************)
(* From end to end: what the client hears is of a message the provider     *)
(* took, if the tag a message goes out with is its key.                    *)
(***************************************************************************)

\* c counts a part of d.
Part(c, d) == d # NoReport /\ c.success <= d.success /\ c.failed <= d.failed

\* Counts are of what was taken; those a job is about to store, and those
\* that are stored, are of the row's own message.
CountsInv ==
    /\ \A m \in Requests : report[m] # NoReport => taken[m]
    /\ \A j \in Jobs : step[j] = "save" => Part(found[j], report[SP!Current(j)])
    /\ \A m \in Requests : result[m] # NoReport => Part(result[m], report[m])

\* What SendDispatch's theorems say of the server's view.
WireOfView == DP!ControlInv /\ DP!WireInv /\ DP!OutcomeIsTrue /\ DP!OneDispatchPerKey

LEMMA WireHolds == Spec => []WireOfView
  <1>1. Init => DP!Init
    BY InitViews
  <1>2. Inv /\ [Next]_vars => [DP!Next]_DP!vars
    BY ServerStep
  <1>3. Spec => DP!Spec
    BY <1>1, <1>2, Invariance, PTL DEF Spec, DP!Spec
  <1> USE ServiceAssumption, KeyAssumption, CodeAssumption, BoundAssumption
      DEF DP!Services, DP!ServiceType, DP!ReplyType, DP!Channels
  <1>4. DP!Spec => []DP!ControlInv
    BY DP!ControlCorrect
  <1>5. DP!Spec => []DP!WireInv
    BY DP!WireCorrect
  <1>6. DP!Spec => []DP!OutcomeIsTrue
    BY DP!OutcomesAreTrue
  <1>7. DP!Spec => []DP!OneDispatchPerKey
    BY DP!OneDispatch
  <1>8. QED
    BY <1>3, <1>4, <1>5, <1>6, <1>7, PTL DEF WireOfView

\* The counts a row's key leads to are its own: it and the message they are
\* of have both been on the wire, with one key.
LEMMA CountsAreOwn ==
    ASSUME Tag = RowKey, Inv, WireOfView, CountsInv,
           NEW m \in Requests, poll[m] # "NONE", RowKey[m] # NoKey,
           NEW n \in Requests, Tag[n] = RowKey[m], report[n] # NoReport
    PROVE  n = m
  <1>1. wire[n] # "idle"
    BY DEF CountsInv, WireOfView, DP!WireInv
  <1>2. ServerStatus[m] = "ACCEPTED"
    BY RowFacts, ServerSees DEF Inv
  <1>3. wire[m] # "idle"
    BY <1>2 DEF WireOfView, DP!OutcomeIsTrue, DP!WireInv
  <1>4. DP!Key(m) = RowKey[m] /\ DP!Key(n) = RowKey[n]
    BY DEF DP!Key, RowKey, Inv, Types
  <1>5. QED
    BY <1>1, <1>3, <1>4 DEF WireOfView, DP!OneDispatchPerKey

LEMMA PartIsPart ==
    ASSUME NEW c \in Reports, NEW d \in Reports, NEW e \in Reports,
           Part(c, d), d.success <= e.success, d.failed <= e.failed
    PROVE  Part(c, e)
  <1>1. \A x \in Reports : x.success \in Nat /\ x.failed \in Nat /\ x # NoReport
    BY ReportAssumption
  <1>2. QED
    BY <1>1 DEF Part

\* The other steps of a job take it anywhere but to a row to store.
MovesOn(j) ==
    \A k \in Jobs : step'[k] = "save" =>
        /\ step[k] = "save"
        /\ found'[k] = found[k] /\ batch'[k] = batch[k]

LEMMA WorkMovesOn ==
    ASSUME Inv, NEW j \in Jobs, Poll!Tick(j) \/ Poll!Work(j),
           ~Poll!QueryFinds(j), ~Poll!Save(j)
    PROVE  MovesOn(j)
  <1>1. step \in [Jobs -> SP!Steps] /\ found \in [Jobs -> Reports \union {NoReport}]
        /\ batch \in [Jobs -> Seq(SP!Entries)]
    BY DEF Inv, SP!RowsInv, SP!Types, SP!JobTypes
  <1>2. ASSUME NEW to, to # "save", step' = [step EXCEPT ![j] = to],
               found' = found \/ found' = [found EXCEPT ![j] = NoReport]
                              \/ \E c : found' = [found EXCEPT ![j] = c],
               batch' = batch \/ \E b : batch' = [batch EXCEPT ![j] = b]
        PROVE  MovesOn(j)
    BY <1>1, <1>2 DEF MovesOn
  <1>3. CASE \/ Poll!Tick(j) \/ Poll!QueryFindsNothing(j) \/ Poll!Hook(j)
             \/ Poll!PatchAnswered(j) \/ Poll!PatchFails(j)
    <2>1. /\ \E to \in {"select", "mark", "patch", "record"} : step' = [step EXCEPT ![j] = to]
          /\ found' = found \/ \E c : found' = [found EXCEPT ![j] = c]
          /\ batch' = batch
      BY <1>3 DEF Poll!Tick, Poll!QueryFindsNothing, Poll!Hook, Poll!PatchAnswered,
                  Poll!PatchFails, Poll!Goto
    <2>2. QED
      BY <1>2, <2>1
  <1>4. ASSUME Poll!EndJob(j), found' = found \/ found' = [found EXCEPT ![j] = NoReport]
        PROVE  MovesOn(j)
    BY <1>2, <1>4 DEF Poll!EndJob, Poll!Goto
  <1>5. CASE Poll!Select(j) \/ Poll!SelectThrows(j)
    <2>1. CASE Poll!EndJob(j)
      BY <1>4, <1>5, <2>1 DEF Poll!Select, Poll!SelectThrows
    <2>2. CASE ~Poll!EndJob(j)
      <3>1. /\ step' = [step EXCEPT ![j] = "query"] /\ found' = found
            /\ batch' = [batch EXCEPT ![j] = Poll!FirstDue]
        BY <1>5, <2>2 DEF Poll!Select, Poll!SelectThrows, Poll!Goto
      <3>2. QED
        BY <1>2, <3>1
    <2>3. QED
      BY <2>1, <2>2
  <1>6. ASSUME Poll!NextRow(j)
        PROVE  MovesOn(j)
    <2>1. found' = [found EXCEPT ![j] = NoReport]
      BY <1>6 DEF Poll!NextRow
    <2>2. CASE Poll!EndJob(j)
      BY <1>4, <2>1, <2>2
    <2>3. CASE ~Poll!EndJob(j)
      <3>1. /\ step' = [step EXCEPT ![j] = "query"]
            /\ batch' = [batch EXCEPT ![j] = Tail(batch[j])]
        BY <1>6, <2>3 DEF Poll!NextRow, Poll!Goto
      <3>2. QED
        BY <1>2, <2>1, <3>1
    <2>4. QED
      BY <2>2, <2>3
  <1>7. QED
    BY <1>3, <1>5, <1>6
    DEF Poll!Work, Poll!QueryThrows, Poll!SaveThrows, Poll!MarkNotFound, Poll!MarkThrows,
        Poll!HookThrows, Poll!RecordAttempt, Poll!RecordAttemptAgain, Poll!RecordThrows

LEMMA CountsStep ==
    ASSUME Tag = RowKey, Unasked = {}, Inv, WireOfView, CountsInv, [Next]_vars
    PROVE  CountsInv'
  <1> DEFINE Own == /\ \A j \in Jobs : step[j] = "save" => Part(found[j], report[SP!Current(j)])
                    /\ \A m \in Requests : result[m] # NoReport => Part(result[m], report[m])
             Taken == \A m \in Requests : report[m] # NoReport => taken[m]
  <1>1. /\ found \in [Jobs -> Reports \union {NoReport}]
        /\ step \in [Jobs -> SP!Steps]
        /\ result \in [Requests -> Reports \union {NoReport}]
        /\ report \in [Requests -> Reports \union {NoReport}]
        /\ \A j \in Jobs : step[j] = "save" => found[j] \in Reports
    BY DEF Inv, SP!RowsInv, SP!Types, SP!JobTypes, SP!RowTypes, SP!OtherTypes
  <1>2. \A j \in Jobs : step[j] \in {"query", "save"} => SP!Current(j) \in Requests
    BY SP!CurrentTyped, ReportAssumption, BoundAssumption
    DEF SP!Busy, SP!Steps, Inv, SP!RowsInv, SP!Types
  <1>3. ASSUME UNCHANGED <<step, batch, found, result, report>>
        PROVE  Own'
    BY <1>3 DEF CountsInv, SP!Current, Part
  <1>4. ASSUME NEW r \in Requests, ServeOther(r) \/ ServeAcceptance(r)
        PROVE  CountsInv'
    <2>1. UNCHANGED <<step, batch, found, result, report>>
      BY <1>4 DEF ServeOther, ServeAcceptance, schedulerVars, Poll!Accept, Poll!AcceptOverdue,
                  Poll!Accepted, Poll!job, Poll!outside
    <2>2. \A m \in Requests : taken[m] => taken'[m]
      BY <1>4 DEF ServeOther, ServeAcceptance, Send!Receive, Send!RejectUnauthenticated,
                  Send!PassChecks, Send!FailChecks, Send!LookupMisses, Send!LookupHits,
                  Send!CreateMessage, Send!RequestThrows, Send!CallProvider, Send!CallThrows,
                  Send!RecordAccepted, Send!RecordRetryable, Send!RecordFatal,
                  Send!RecordNetworkError, Send!OutcomeThrows, Send!ProviderTakes,
                  Send!ProviderRefuses, Send!Outcome, Send!provider, Inv, Types, DP!TypeOK
    <2>3. QED
      BY <1>3, <2>1, <2>2 DEF CountsInv
  <1>5. ASSUME NEW n \in Requests, CountDelivery(n)
        PROVE  CountsInv'
    <2>1. /\ taken[n] /\ UNCHANGED <<taken, step, batch, found, result>>
          /\ \E c \in Reports :
               /\ report[n] # NoReport => /\ report[n].success <= c.success
                                          /\ report[n].failed <= c.failed
               /\ report' = [report EXCEPT ![n] = c]
      BY <1>5 DEF CountDelivery, Poll!ProviderReports, serverVars, Poll!job, Poll!rows
    <2>2. PICK c \in Reports :
            /\ report[n] # NoReport => /\ report[n].success <= c.success
                                       /\ report[n].failed <= c.failed
            /\ report' = [report EXCEPT ![n] = c]
      BY <2>1
    <2>3. ASSUME NEW m \in Requests, NEW d \in Reports, Part(d, report[m])
          PROVE  Part(d, report'[m])
      <3>1. CASE m # n
        BY <1>1, <2>2, <2>3, <3>1
      <3>2. CASE m = n
        <4>1. report[m] \in Reports /\ report'[m] = c
          BY <1>1, <2>2, <2>3, <3>2 DEF Part
        <4>2. report[m].success <= c.success /\ report[m].failed <= c.failed
          BY <2>2, <2>3, <3>2 DEF Part
        <4>3. QED
          BY <2>3, <4>1, <4>2, PartIsPart
      <3>3. QED
        BY <3>1, <3>2
    <2>4. \A j \in Jobs : SP!Current(j)' = SP!Current(j)
      BY <2>1 DEF SP!Current
    <2>5. Own'
      BY <1>1, <1>2, <2>1, <2>3, <2>4 DEF CountsInv
    <2>6. Taken'
      BY <1>1, <2>1, <2>2 DEF CountsInv
    <2>7. QED
      BY <2>5, <2>6 DEF CountsInv
  <1>6. ASSUME NEW j \in Jobs, Schedule(j)
        PROVE  CountsInv'
    <2>1. /\ UNCHANGED <<taken, report>>
          /\ Poll!Tick(j) \/ Poll!Work(j)
      BY <1>6 DEF Schedule, serverVars, Poll!Tick, Poll!Work, Poll!Select, Poll!SelectThrows,
                  Poll!QueryFinds, Poll!QueryFindsNothing, Poll!QueryThrows, Poll!Save,
                  Poll!SaveThrows, Poll!MarkNotFound, Poll!MarkThrows, Poll!Hook,
                  Poll!HookThrows, Poll!PatchAnswered, Poll!PatchFails, Poll!RecordAttempt,
                  Poll!RecordAttemptAgain, Poll!RecordThrows, Poll!outside
    <2>2. ASSUME \A k \in Jobs : step'[k] = "save" =>
                   /\ step[k] = "save"
                   /\ found'[k] = found[k] /\ batch'[k] = batch[k],
                 \A m \in Requests : result'[m] # NoReport =>
                   \/ result'[m] = result[m]
                   \/ Part(result'[m], report[m])
          PROVE  CountsInv'
      <3>1. \A k \in Jobs : step'[k] = "save" => SP!Current(k)' = SP!Current(k)
        BY <2>2 DEF SP!Current
      <3>2. \A k \in Jobs : step'[k] = "save" => Part(found'[k], report'[SP!Current(k)'])
        BY <2>1, <2>2, <3>1 DEF CountsInv
      <3>3. \A m \in Requests : result'[m] # NoReport => Part(result'[m], report'[m])
        BY <2>1, <2>2 DEF CountsInv
      <3>4. QED
        BY <2>1, <3>2, <3>3 DEF CountsInv
    <2>3. CASE Poll!QueryFinds(j)
      <3> DEFINE m == SP!Current(j)
      <3>1. /\ step[j] = "query" /\ UNCHANGED <<batch, result>>
            /\ step' = [step EXCEPT ![j] = "save"]
        BY <2>3 DEF Poll!QueryFinds, Poll!Goto, Poll!rows
      <3>2. Poll!Current(j) = m
        BY SameHelpers
      <3>3. RowKey[m] # NoKey /\ \E n \in Poll!Tagged(RowKey[m]) :
                                    found' = [found EXCEPT ![j] = report[n]]
        BY <2>3, <3>2 DEF Poll!QueryFinds
      <3>4. PICK n \in Requests : /\ Tag[n] = RowKey[m] /\ report[n] # NoReport
                                  /\ found' = [found EXCEPT ![j] = report[n]]
        BY <3>3 DEF Poll!Tagged, Poll!Records
      <3>5. m \in Requests /\ poll[m] = "WAITING"
        BY <3>1, SP!CurrentWaits, ReportAssumption, BoundAssumption DEF Inv
      <3>6. n = m
        BY <3>3, <3>4, <3>5, CountsAreOwn
      <3>7. SP!Current(j)' = m
        BY <3>1 DEF SP!Current
      <3>8. found'[j] = report[m] /\ report[m] \in Reports
        BY <1>1, <3>4, <3>5, <3>6
      <3>9. Part(report[m], report[m])
        <4>1. report[m].success \in Nat /\ report[m].failed \in Nat
          BY <3>8, ReportAssumption
        <4>2. QED
          BY <3>4, <3>6, <4>1 DEF Part
      <3>10. Part(found'[j], report'[SP!Current(j)'])
        BY <2>1, <3>7, <3>8, <3>9
      <3>11. ASSUME NEW k \in Jobs, k # j, step'[k] = "save"
             PROVE  Part(found'[k], report'[SP!Current(k)'])
        <4>1. step[k] = "save" /\ found'[k] = found[k] /\ SP!Current(k)' = SP!Current(k)
          BY <1>1, <3>1, <3>4, <3>11 DEF SP!Current
        <4>2. QED
          BY <2>1, <4>1 DEF CountsInv
      <3>12. QED
        BY <2>1, <3>1, <3>10, <3>11 DEF CountsInv
    <2>4. CASE Poll!Save(j)
      <3> DEFINE m == SP!Current(j)
      <3>1. Poll!Current(j) = m
        BY SameHelpers
      <3>2. /\ step[j] = "save" /\ UNCHANGED <<batch, found>>
            /\ step' = [step EXCEPT ![j] = "hook"]
            /\ result' = [result EXCEPT ![m] = found[j]]
        BY <2>4, <3>1 DEF Poll!Save, Poll!Goto
      <3>3. Part(found[j], report[m])
        BY <3>2 DEF CountsInv
      <3>4. \A n \in Requests : result'[n] = result[n] \/ Part(result'[n], report[n])
        BY <1>1, <3>2, <3>3
      <3>5. QED
        BY <1>1, <2>2, <3>2, <3>4
    <2>5. ASSUME ~Poll!QueryFinds(j), ~Poll!Save(j)
          PROVE  CountsInv'
      <3>1. result' = result
        BY <2>1, <2>5 DEF Poll!Tick, Poll!Work, Poll!Select, Poll!SelectThrows,
                  Poll!QueryFindsNothing, Poll!QueryThrows, Poll!SaveThrows,
                  Poll!MarkNotFound, Poll!MarkThrows, Poll!Hook, Poll!HookThrows,
                  Poll!PatchAnswered, Poll!PatchFails, Poll!RecordAttempt,
                  Poll!RecordAttemptAgain, Poll!RecordThrows, Poll!rows
      <3>2. MovesOn(j)
        BY <1>1, <2>1, <2>5, WorkMovesOn
      <3>3. QED
        BY <2>2, <3>1, <3>2 DEF MovesOn
    <2>6. QED
      BY <2>3, <2>4, <2>5
  <1>7. CASE SchedulerCrash
    <2>1. /\ \A k \in Jobs : step'[k] # "save"
          /\ UNCHANGED <<taken, report, result>>
      BY <1>7 DEF SchedulerCrash, Poll!Crash, Poll!rows, serverVars
    <2>2. QED
      BY <2>1 DEF CountsInv
  <1>8. ASSUME \/ UNCHANGED vars \/ ServerCrash
               \/ \E m \in Requests : TimePasses(m)
        PROVE  CountsInv'
    <2>1. UNCHANGED <<taken, step, batch, found, result, report>>
      BY <1>8 DEF vars, serverVars, schedulerVars, ServerCrash, Send!Crash, Send!provider,
                  TimePasses, Poll!TimePasses, Poll!job, Poll!outside
    <2>2. QED
      BY <1>3, <2>1 DEF CountsInv
  <1>9. QED
    BY <1>4, <1>5, <1>6, <1>7, <1>8 DEF Next

\* A client whose ketc1 is its key is told only about a message the provider
\* took, and of it never more than the provider counted (ToldIsTaken), if the
\* provider's replies hold nothing but what they are asked for.
THEOREM ToldAreTaken ==
    ASSUME Tag = RowKey, Unasked = {}
    PROVE  Spec => []ToldIsTaken
  <1>1. Init => CountsInv
    BY DEF Init, Send!Init, CountsInv
  <1>2. Inv /\ WireOfView /\ CountsInv /\ [Next]_vars => CountsInv'
    BY CountsStep
  <1>3. SP!WebInv /\ CountsInv => ToldIsTaken
    <2> SUFFICES ASSUME SP!WebInv, CountsInv, NEW m \in Requests, told[m] # <<>>
                 PROVE  /\ taken[m]
                        /\ report[m] # NoReport
                        /\ \A i \in 1 .. Len(told[m]) :
                             /\ told[m][i].success <= report[m].success
                             /\ told[m][i].failed <= report[m].failed
      BY DEF ToldIsTaken
    <2>1. result[m] # NoReport /\ told[m] = <<result[m]>>
      BY DEF SP!WebInv, SP!Tells, SP!Telling
    <2>2. Part(result[m], report[m]) /\ taken[m]
      BY <2>1 DEF CountsInv, Part
    <2>3. \A i \in 1 .. Len(told[m]) : told[m][i] = result[m]
      BY <2>1
    <2>4. QED
      BY <2>2, <2>3 DEF Part
  <1>4. QED
    BY <1>1, <1>2, <1>3, Invariance, WireHolds, WebOfView, PTL DEF Spec
-----------------------------------------------------------------------------
(***************************************************************************)
(* The tables of both processes, and what their promises say of the whole. *)
(***************************************************************************)

LEMMA TablesOfView == Spec => []DP!TablesAgree
  <1>1. Init => DP!Init
    BY InitViews
  <1>2. Inv /\ [Next]_vars => [DP!Next]_DP!vars
    BY ServerStep
  <1>3. Spec => DP!Spec
    BY <1>1, <1>2, Invariance, PTL DEF Spec, DP!Spec
  <1>4. DP!Spec => []DP!TablesAgree
    BY DP!TablesCorrect, ServiceAssumption, KeyAssumption, CodeAssumption, BoundAssumption
    DEF DP!Services, DP!ServiceType, DP!ReplyType, DP!Channels
  <1>5. QED
    BY <1>3, <1>4, PTL

\* What a log says that ends with a final event.
LEMMA FinalLog ==
    ASSUME NEW log \in Seq(DP!EventTypes), NEW final \in Final
    PROVE  Send!LogStatus(log \o <<final>>) = final
  <1>1. PICK all : all = log \o <<final>>
    OBVIOUS
  <1>2. all # <<>> /\ all[Len(all)] = final
    <2>1. Len(all) = Len(log) + 1 /\ all[Len(log) + 1] = final
      BY <1>1
    <2>2. QED
      BY <2>1
  <1>3. Send!LogStatus(all) = final
    BY <1>2 DEF Send!LogStatus, Final
  <1>4. QED
    BY <1>1, <1>3

\* The row and its events agree, whoever wrote them.
LEMMA RowMatchesLog ==
    ASSUME Inv, DP!TablesAgree, NEW m \in Requests
    PROVE  status[m] = Send!LogStatus(events[m] \o finals[m])
  <1>1. events[m] \in Seq(DP!EventTypes)
    BY DEF Inv, Types, DP!TypeOK
  <1>2. SP!RowAgrees(m)
    BY DEF Inv, SP!RowsInv, SP!PollingAgrees
  <1>3. CASE result[m] = NoReport
    <2>1. finals[m] = <<>>
      BY <1>2, <1>3 DEF SP!RowAgrees
    <2>2. events[m] \o finals[m] = events[m]
      BY <1>1, <2>1
    <2>3. status[m] = DP!LogStatus(events[m])
      BY <1>3 DEF DP!TablesAgree, ServerStatus
    <2>4. QED
      BY <2>2, <2>3 DEF DP!LogStatus, Send!LogStatus
  <1>4. CASE result[m] # NoReport
    <2>1. finals[m] = <<status[m]>> /\ status[m] \in Final
      BY <1>2, <1>4 DEF SP!RowAgrees, SP!FinalStatus, SchedulerStatus, Final
    <2>2. QED
      BY <1>1, <2>1, FinalLog
  <1>5. QED
    BY <1>3, <1>4

\* DatabaseAgrees: two writers, and one story in all the tables.
THEOREM DatabaseCorrect == Spec => []DatabaseAgrees
  <1>1. Inv /\ DP!TablesAgree /\ DP!OutcomeIsTrue => DatabaseAgrees
    <2> SUFFICES ASSUME Inv, DP!TablesAgree, DP!OutcomeIsTrue, NEW m \in Requests
                 PROVE  /\ status[m] = Send!LogStatus(events[m] \o finals[m])
                        /\ poll[m] # "NONE" <=>
                             dispatch[m] = "accepted" /\ Send!ReplyOf(m).polled
                        /\ poll[m] # "NONE" => taken[m]
      BY DEF DatabaseAgrees
    <2>1. poll[m] \in {"NONE", "WAITING", "COMPLETE"}
      BY DEF Inv, SP!RowsInv, SP!Types, SP!RowTypes
    <2>2. ServerPoll[m] = "WAITING" <=> poll[m] # "NONE"
      BY <2>1 DEF ServerPoll
    <2>3. Send!ReplyOf(m) = DP!ReplyOf(m)
      BY DEF Send!ReplyOf, DP!ReplyOf
    <2>4. QED
      BY <2>2, <2>3, RowMatchesLog DEF DP!TablesAgree, DP!OutcomeIsTrue
  <1>2. Spec => []DP!OutcomeIsTrue
    BY WireHolds, PTL DEF WireOfView
  <1>3. QED
    BY <1>1, <1>2, Invariance, TablesOfView, PTL

\* What a client may rely on, of both processes together.
Promises ==
    /\ Send!OneDispatchPerKey
    /\ Send!NoUnrecordedDispatch
    /\ Send!DuplicateIsOwnMessage
    /\ Poll!OneWebhook
    /\ Poll!WebhookIsTrue

LEMMA ServerPromises ==
    Spec => [](DP!OneDispatchPerKey /\ DP!NoUnrecordedDispatch /\ DP!DuplicateIsOwnMessage)
  <1>1. Init => DP!Init
    BY InitViews
  <1>2. Inv /\ [Next]_vars => [DP!Next]_DP!vars
    BY ServerStep
  <1>3. Spec => DP!Spec
    BY <1>1, <1>2, Invariance, PTL DEF Spec, DP!Spec
  <1> USE ServiceAssumption, KeyAssumption, CodeAssumption, BoundAssumption
      DEF DP!Services, DP!ServiceType, DP!ReplyType, DP!Channels
  <1>4. DP!Spec => []DP!OneDispatchPerKey
    BY DP!OneDispatch
  <1>5. DP!Spec => []DP!NoUnrecordedDispatch
    BY DP!DispatchesAreRecorded
  <1>6. DP!Spec => []DP!DuplicateIsOwnMessage
    BY DP!DuplicatesAreOwn
  <1>7. QED
    BY <1>3, <1>4, <1>5, <1>6, PTL

LEMMA SchedulerPromises == Spec => [](SP!OneWebhook /\ SP!WebhookIsTrue)
  <1>1. Init => SP!Init
    BY InitViews
  <1>2. Inv /\ [Next]_vars => [SP!Next]_SP!vars
    BY SchedulerStep
  <1>3. Spec => SP!Spec
    BY <1>1, <1>2, Invariance, PTL DEF Spec, SP!Spec
  <1> USE ReportAssumption, BoundAssumption
  <1>4. SP!Spec => []SP!OneWebhook
    BY SP!AtMostOneWebhook
  <1>5. SP!Spec => []SP!WebhookIsTrue
    BY SP!WebhookTrue
  <1>6. QED
    BY <1>3, <1>4, <1>5, PTL

\* Server and scheduler together, in the tables as they are: a key reaches the
\* provider once, nothing reaches it that is not recorded, a duplicate answer is
\* about the client's own message, and the client is told once and the truth.
THEOREM PromisesHold == Spec => []Promises
  <1>1. Inv => /\ \A m \in Requests : DP!Exists(m) <=> Send!Exists(m)
               /\ \A r \in Requests : /\ ServerAnswer[r].kind = answer[r].kind
                                      /\ ServerAnswer[r].of = answer[r].of
    <2> SUFFICES ASSUME Inv
                 PROVE  /\ \A m \in Requests : DP!Exists(m) <=> Send!Exists(m)
                        /\ \A r \in Requests : /\ ServerAnswer[r].kind = answer[r].kind
                                               /\ ServerAnswer[r].of = answer[r].of
      OBVIOUS
    <2>1. ASSUME NEW m \in Requests PROVE DP!Exists(m) <=> Send!Exists(m)
      BY ServerSees DEF DP!Exists, Send!Exists
    <2>2. ASSUME NEW r \in Requests
          PROVE  ServerAnswer[r].kind = answer[r].kind /\ ServerAnswer[r].of = answer[r].of
      <3>1. answer[r] \in AllAnswers
        BY DEF Inv, Types
      <3>2. QED
        BY <3>1 DEF ServerAnswer, AllAnswers
    <2>3. QED
      BY <2>1, <2>2
  <1>2. /\ DP!OneDispatchPerKey => Send!OneDispatchPerKey
        /\ SP!OneWebhook => Poll!OneWebhook
        /\ SP!WebhookIsTrue => Poll!WebhookIsTrue
    BY DEF DP!OneDispatchPerKey, Send!OneDispatchPerKey, DP!Key, Send!Key,
           SP!OneWebhook, Poll!OneWebhook, SP!WebhookIsTrue, Poll!WebhookIsTrue
  <1>3. Inv /\ DP!NoUnrecordedDispatch => Send!NoUnrecordedDispatch
    BY <1>1 DEF DP!NoUnrecordedDispatch, Send!NoUnrecordedDispatch
  <1>4. Inv /\ DP!DuplicateIsOwnMessage => Send!DuplicateIsOwnMessage
    <2> SUFFICES ASSUME Inv, DP!DuplicateIsOwnMessage, NEW r \in Requests,
                        answer[r].kind = "duplicate"
                 PROVE  /\ answer[r].of # r
                        /\ Send!Exists(answer[r].of)
                        /\ input[answer[r].of].client = input[r].client
                        /\ Send!Key(answer[r].of) = Send!Key(r) /\ Send!Key(r) # NoKey
                        /\ ~Send!Exists(r) /\ wire[r] = "idle"
      BY DEF Send!DuplicateIsOwnMessage
    <2>1. answer[r].of \in Requests
      BY DEF Inv, Types, AllAnswers
    <2>2. QED
      BY <1>1, <2>1 DEF DP!DuplicateIsOwnMessage, DP!Key, Send!Key
  <1>5. Inv /\ DP!OneDispatchPerKey /\ DP!NoUnrecordedDispatch /\ DP!DuplicateIsOwnMessage
          /\ SP!OneWebhook /\ SP!WebhookIsTrue => Promises
    BY <1>2, <1>3, <1>4 DEF Promises
  <1>6. QED
    BY <1>5, Invariance, ServerPromises, SchedulerPromises, PTL

=============================================================================
