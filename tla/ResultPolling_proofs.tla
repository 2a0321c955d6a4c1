------------------------ MODULE ResultPolling_proofs ------------------------
(***************************************************************************)
(* Theorems about ResultPolling, for any messages, jobs, counts, batch     *)
(* size, attempt limit and number of crashes.                              *)
(***************************************************************************)
EXTENDS ResultPolling, SequenceTheorems, TLAPS

(***************************************************************************)
(* Sequences.                                                              *)
(***************************************************************************)

\* The sequence without its i-th element.
LEMMA RemoveAtProperties ==
    ASSUME NEW S, NEW s \in Seq(S), NEW i \in 1 .. Len(s)
    PROVE  /\ RemoveAt(s, i) \in Seq(S)
           /\ Len(RemoveAt(s, i)) = Len(s) - 1
           /\ \A k \in 1 .. Len(s) - 1 :
                RemoveAt(s, i)[k] = IF k < i THEN s[k] ELSE s[k + 1]
  <1> DEFINE a == SubSeq(s, 1, i - 1)
             b == SubSeq(s, i + 1, Len(s))
  <1>1. Len(s) \in Nat /\ i - 1 \in Int /\ i + 1 \in Int
    BY LenProperties
  <1>2. /\ \A k \in 1 .. i - 1 : s[k] \in S
        /\ \A k \in i + 1 .. Len(s) : s[k] \in S
    BY <1>1, ElementOfSeq
  <1>3. /\ a \in Seq(S) /\ Len(a) = i - 1
        /\ \A k \in 1 .. i - 1 : a[k] = s[k]
    BY <1>1, <1>2, SubSeqProperties
  <1>4. /\ b \in Seq(S) /\ Len(b) = Len(s) - i
        /\ \A k \in 1 .. Len(s) - i : b[k] = s[i + k]
    <2>1. /\ b \in Seq(S)
          /\ Len(b) = IF i + 1 <= Len(s) THEN Len(s) - (i + 1) + 1 ELSE 0
          /\ \A k \in 1 .. Len(s) - (i + 1) + 1 : b[k] = s[(i + 1) + k - 1]
      BY <1>1, <1>2, SubSeqProperties
    <2>2. QED
      BY <2>1, <1>1
  <1> HIDE DEF a, b
  <1>5. /\ a \o b \in Seq(S) /\ Len(a \o b) = Len(a) + Len(b)
        /\ \A k \in 1 .. Len(a) + Len(b) : (a \o b)[k] =
             IF k <= Len(a) THEN a[k] ELSE b[k - Len(a)]
    BY <1>3, <1>4, ConcatProperties
  <1>6. Len(a) + Len(b) = Len(s) - 1
    BY <1>1, <1>3, <1>4
  <1>7. ASSUME NEW k \in 1 .. Len(s) - 1
        PROVE  (a \o b)[k] = IF k < i THEN s[k] ELSE s[k + 1]
    <2>1. (a \o b)[k] = IF k <= Len(a) THEN a[k] ELSE b[k - Len(a)]
      BY <1>5, <1>6
    <2>2. CASE k < i
      BY <1>1, <1>3, <2>1, <2>2
    <2>3. CASE ~(k < i)
      <3>1. k - Len(a) = k - i + 1 /\ k - i + 1 \in 1 .. Len(s) - i /\ ~(k <= Len(a))
        BY <1>1, <1>3, <2>3
      <3>2. b[k - i + 1] = s[k + 1]
        BY <1>1, <1>4, <3>1
      <3>3. QED
        BY <2>1, <2>3, <3>1, <3>2
    <2>4. QED
      BY <2>2, <2>3
  <1>8. RemoveAt(s, i) = a \o b
    BY DEF RemoveAt, a, b
  <1>9. QED
    BY <1>5, <1>6, <1>7, <1>8

\* The sequence with e before its i-th element, or at its end.
LEMMA InsertAtProperties ==
    ASSUME NEW S, NEW s \in Seq(S), NEW e \in S, NEW i \in 1 .. Len(s) + 1
    PROVE  /\ InsertAt(s, i, e) \in Seq(S)
           /\ Len(InsertAt(s, i, e)) = Len(s) + 1
           /\ \A k \in 1 .. Len(s) + 1 :
                InsertAt(s, i, e)[k] = IF k < i THEN s[k] ELSE IF k = i THEN e ELSE s[k - 1]
  <1> DEFINE a == SubSeq(s, 1, i - 1)
             b == SubSeq(s, i, Len(s))
             c == a \o <<e>>
  <1>1. Len(s) \in Nat /\ i - 1 \in Int /\ i \in Int
    BY LenProperties
  <1>2. /\ \A k \in 1 .. i - 1 : s[k] \in S
        /\ \A k \in i .. Len(s) : s[k] \in S
    BY <1>1, ElementOfSeq
  <1>3. /\ a \in Seq(S) /\ Len(a) = i - 1
        /\ \A k \in 1 .. i - 1 : a[k] = s[k]
    BY <1>1, <1>2, SubSeqProperties
  <1>4. /\ b \in Seq(S) /\ Len(b) = Len(s) - i + 1
        /\ \A k \in 1 .. Len(s) - i + 1 : b[k] = s[i + k - 1]
    BY <1>1, <1>2, SubSeqProperties
  <1> HIDE DEF a, b
  <1>5. /\ c \in Seq(S) /\ Len(c) = i
        /\ \A k \in 1 .. i : c[k] = IF k < i THEN s[k] ELSE e
    <2>1. <<e>> \in Seq(S) /\ Len(<<e>>) = 1 /\ <<e>>[1] = e
      OBVIOUS
    <2>2. /\ c \in Seq(S) /\ Len(c) = Len(a) + 1
          /\ \A k \in 1 .. Len(a) + 1 : c[k] =
               IF k <= Len(a) THEN a[k] ELSE <<e>>[k - Len(a)]
      BY <1>3, <2>1, ConcatProperties
    <2>3. ASSUME NEW k \in 1 .. i
          PROVE  c[k] = IF k < i THEN s[k] ELSE e
      <3>1. c[k] = IF k <= Len(a) THEN a[k] ELSE <<e>>[k - Len(a)]
        BY <1>1, <1>3, <2>2
      <3>2. CASE k < i
        BY <1>1, <1>3, <3>1, <3>2
      <3>3. CASE k = i
        <4>1. ~(k <= Len(a)) /\ k - Len(a) = 1
          BY <1>1, <1>3, <3>3
        <4>2. QED
          BY <2>1, <3>1, <3>3, <4>1
      <3>4. /\ k < i \/ k = i
            /\ k = i => ~(k < i)
        BY <1>1
      <3>5. QED
        BY <3>2, <3>3, <3>4
    <2>4. Len(a) + 1 = i
      BY <1>1, <1>3
    <2>5. QED
      BY <2>2, <2>3, <2>4
  <1> HIDE DEF c
  <1>6. /\ c \o b \in Seq(S) /\ Len(c \o b) = Len(c) + Len(b)
        /\ \A k \in 1 .. Len(c) + Len(b) : (c \o b)[k] =
             IF k <= Len(c) THEN c[k] ELSE b[k - Len(c)]
    BY <1>4, <1>5, ConcatProperties
  <1>7. \A k \in 1 .. Len(s) + 1 :
          (c \o b)[k] = IF k < i THEN s[k] ELSE IF k = i THEN e ELSE s[k - 1]
    BY <1>1, <1>4, <1>5, <1>6
  <1>8. InsertAt(s, i, e) = c \o b
    BY DEF InsertAt, a, b, c
  <1>9. QED
    BY <1>1, <1>4, <1>5, <1>6, <1>7, <1>8

-----------------------------------------------------------------------------
(***************************************************************************)
(* Types.  The bound on attempt is a matter of the protocol and comes      *)
(* later; an empty batch is what a job has before the query and after the  *)
(* last row.                                                               *)
(***************************************************************************)

Busy == Steps \ {"idle", "select"}

JobTypes ==
    /\ isRunning \in BOOLEAN
    /\ step \in [Jobs -> Steps]
    /\ batch \in [Jobs -> Seq(Entries)]
    /\ found \in [Jobs -> Reports \union {NoReport}]
    /\ reply \in [Jobs -> {"none", "ok", "refused", "lost"}]
    /\ \A j \in Jobs : step[j] \in Busy <=> batch[j] # <<>>
    /\ \A j \in Jobs : step[j] \in {"save", "patch"} => found[j] \in Reports

RowTypes ==
    /\ status \in [Messages -> Statuses]
    /\ poll \in [Messages -> {"NONE", "WAITING", "COMPLETE"}]
    /\ attempt \in [Messages -> Nat]
    /\ reason \in [Messages -> {"none", "partial", "failed", "notFound"}]
    /\ due \in Seq(Messages)
    /\ result \in [Messages -> Reports \union {NoReport}]
    /\ finals \in [Messages -> Seq({"DELIVERED", "FAILED"})]

OtherTypes ==
    /\ callbacks \in [Messages -> Seq(BOOLEAN)]
    /\ report \in [Messages -> Reports \union {NoReport}]
    /\ told \in [Messages -> Seq(Reports)]
    /\ crashes \in 0 .. MaxCrashes

Types == JobTypes /\ RowTypes /\ OtherTypes

\* A job that has rows to do has a current one.
LEMMA CurrentTyped ==
    ASSUME JobTypes, NEW j \in Jobs, step[j] \in Busy
    PROVE  /\ batch[j] \in Seq(Entries) /\ batch[j] # <<>>
           /\ Len(batch[j]) \in Nat \ {0}
           /\ batch[j][1] \in Entries
           /\ Current(j) \in Messages
           /\ batch[j][1].attempt \in Nat
  <1>1. batch[j] \in Seq(Entries) /\ batch[j] # <<>>
    BY DEF JobTypes
  <1>2. Len(batch[j]) \in Nat \ {0}
    BY <1>1, EmptySeq
  <1>3. batch[j][1] \in Entries
    BY <1>1, <1>2, ElementOfSeq
  <1>4. QED
    BY <1>1, <1>2, <1>3 DEF Entries, Current

\* The next row: the job is over, or has one row less.
NextRowTo(j, to, rest, on) ==
    /\ step' = [step EXCEPT ![j] = to]
    /\ batch' = [batch EXCEPT ![j] = rest]
    /\ isRunning' = on
    /\ found' = [found EXCEPT ![j] = NoReport]
    /\ reply' = [reply EXCEPT ![j] = "none"]
    /\ \/ to = "idle" /\ rest = <<>> /\ on = FALSE
       \/ to = "query" /\ rest # <<>> /\ on = isRunning
    /\ Len(rest) = Len(batch[j]) - 1
    /\ \A i \in 1 .. Len(rest) : rest[i] = batch[j][i + 1]

LEMMA NextRowForm ==
    ASSUME JobTypes, NEW j \in Jobs, step[j] \in Busy, NextRow(j)
    PROVE  \E to \in {"idle", "query"}, rest \in Seq(Entries), on \in BOOLEAN :
             NextRowTo(j, to, rest, on)
  <1>1. batch[j] \in Seq(Entries) /\ batch[j] # <<>> /\ Len(batch[j]) \in Nat \ {0}
    BY CurrentTyped
  <1>2. CASE Len(batch[j]) = 1
    <2>1. <<>> \in Seq(Entries) /\ Len(<<>>) = 0
      BY EmptySeq
    <2>2. NextRowTo(j, "idle", <<>>, FALSE)
      BY <1>1, <1>2, <2>1 DEF NextRow, EndJob, Goto, NextRowTo
    <2>3. QED
      BY <2>1, <2>2
  <1>3. CASE Len(batch[j]) # 1
    <2>1. /\ Tail(batch[j]) \in Seq(Entries)
          /\ Len(Tail(batch[j])) = Len(batch[j]) - 1
          /\ \A i \in 1 .. Len(Tail(batch[j])) : Tail(batch[j])[i] = batch[j][i + 1]
      BY <1>1, HeadTailProperties
    <2>2. Tail(batch[j]) # <<>>
      <3>1. Len(Tail(batch[j])) # 0
        BY <1>1, <1>3, <2>1
      <3>2. QED
        BY <3>1, EmptySeq
    <2>3. NextRowTo(j, "query", Tail(batch[j]), isRunning)
      <3>1. batch' = [batch EXCEPT ![j] = Tail(batch[j])]
        BY <1>3 DEF NextRow, JobTypes
      <3>2. QED
        BY <1>3, <2>1, <2>2, <3>1 DEF NextRow, Goto, NextRowTo
    <2>4. isRunning \in BOOLEAN
      BY DEF JobTypes
    <2>5. QED
      BY <2>1, <2>3, <2>4
  <1>4. QED
    BY <1>2, <1>3

\* The batch a query returns: due rows in their order, with their attempts.
LEMMA FirstDueForm ==
    ASSUME RowTypes, due # <<>>
    PROVE  /\ FirstDue \in Seq(Entries)
           /\ FirstDue # <<>>
           /\ Len(FirstDue) \in 1 .. Len(due) /\ Len(FirstDue) <= BatchSize
           /\ \A i \in 1 .. Len(FirstDue) :
                FirstDue[i] = [of |-> due[i], attempt |-> attempt[due[i]]]
  <1> DEFINE n == IF Len(due) < BatchSize THEN Len(due) ELSE BatchSize
  <1>1. due \in Seq(Messages) /\ Len(due) \in Nat \ {0}
    BY EmptySeq DEF RowTypes
  <1>2. n \in Nat \ {0} /\ n <= Len(due) /\ n <= BatchSize
    BY <1>1, BoundAssumption
  <1>3. \A i \in 1 .. n : [of |-> due[i], attempt |-> attempt[due[i]]] \in Entries
    <2>1. \A i \in 1 .. n : due[i] \in Messages
      BY <1>1, <1>2, ElementOfSeq
    <2>2. QED
      BY <2>1 DEF RowTypes, Entries
  <1> HIDE DEF n
  <1>4. [i \in 1 .. n |-> [of |-> due[i], attempt |-> attempt[due[i]]]] \in Seq(Entries)
    BY <1>2, <1>3, IsASeq
  <1>5. FirstDue = [i \in 1 .. n |-> [of |-> due[i], attempt |-> attempt[due[i]]]]
    BY DEF FirstDue, n
  <1>6. FirstDue \in Seq(Entries) /\ Len(FirstDue) = n
    <2>1. DOMAIN FirstDue = 1 .. n /\ DOMAIN FirstDue = 1 .. Len(FirstDue)
      BY <1>4, <1>5, LenProperties
    <2>2. Len(FirstDue) \in Nat
      BY <1>4, <1>5, LenProperties
    <2>3. QED
      BY <1>2, <1>4, <1>5, <2>1, <2>2
  <1>7. Len(FirstDue) \in 1 .. Len(due) /\ Len(FirstDue) <= BatchSize
    BY <1>1, <1>2, <1>6, BoundAssumption
  <1>8. FirstDue # <<>>
    BY <1>2, <1>6, EmptySeq
  <1>9. \A i \in 1 .. Len(FirstDue) :
          FirstDue[i] = [of |-> due[i], attempt |-> attempt[due[i]]]
    BY <1>5, <1>6
  <1>10. QED
    BY <1>6, <1>7, <1>8, <1>9

\* A job goes on with the same rows, for the rest of its body.
LEMMA ForwardTypes ==
    ASSUME JobTypes, NEW j \in Jobs, step[j] \in Busy, NEW to \in Busy,
           step' = [step EXCEPT ![j] = to],
           UNCHANGED <<isRunning, batch>>,
           NEW c \in Reports \union {NoReport}, found' = [found EXCEPT ![j] = c],
           NEW how \in {"none", "ok", "refused", "lost"},
           reply' = [reply EXCEPT ![j] = how],
           to \in {"save", "patch"} => c \in Reports
    PROVE  JobTypes'
  BY DEF JobTypes, Busy, Steps

\* A job is over.
LEMMA EndJobTypes ==
    ASSUME JobTypes, NEW j \in Jobs, EndJob(j),
           NEW c \in Reports \union {NoReport}, found' = [found EXCEPT ![j] = c],
           NEW how \in {"none", "ok", "refused", "lost"},
           reply' = [reply EXCEPT ![j] = how]
    PROVE  JobTypes'
  <1>1. <<>> \in Seq(Entries)
    BY EmptySeq
  <1>2. QED
    BY <1>1 DEF JobTypes, Busy, Steps, EndJob, Goto

\* A job is done with a row.
LEMMA NextRowTypes ==
    ASSUME JobTypes, NEW j \in Jobs, step[j] \in Busy, NextRow(j)
    PROVE  JobTypes'
  <1>1. PICK to \in {"idle", "query"}, rest \in Seq(Entries), on \in BOOLEAN :
          NextRowTo(j, to, rest, on)
    BY NextRowForm
  <1>2. QED
    BY <1>1 DEF JobTypes, Busy, Steps, NextRowTo

LEMMA JobTypesNext ==
    ASSUME Types, Next
    PROVE  JobTypes'
  <1> USE DEF Types
  <1>1. ASSUME UNCHANGED job
        PROVE  JobTypes'
    BY <1>1 DEF JobTypes, job
  <1>2. ASSUME NEW m \in Messages,
               Accept(m) \/ AcceptOverdue(m) \/ TimePasses(m) \/ ProviderReports(m)
        PROVE  JobTypes'
    BY <1>1, <1>2 DEF Accept, AcceptOverdue, Accepted, TimePasses, ProviderReports
  <1>3. ASSUME NEW j \in Jobs, Tick(j)
        PROVE  JobTypes'
    BY <1>3 DEF Tick, Goto, JobTypes, Busy, Steps
  <1>4. ASSUME NEW j \in Jobs, Work(j)
        PROVE  JobTypes'
    <2>1. /\ found[j] \in Reports \union {NoReport} /\ found = [found EXCEPT ![j] = found[j]]
          /\ reply[j] \in {"none", "ok", "refused", "lost"}
          /\ reply = [reply EXCEPT ![j] = reply[j]]
      BY DEF JobTypes
    <2>2. CASE Select(j)
      <3>1. CASE due = <<>>
        BY <2>1, <2>2, <3>1, EndJobTypes DEF Select
      <3>2. CASE due # <<>>
        <4>1. FirstDue \in Seq(Entries) /\ FirstDue # <<>>
          BY <3>2, FirstDueForm
        <4>2. QED
          BY <2>2, <3>2, <4>1 DEF Select, Goto, JobTypes, Busy, Steps
      <3>3. QED
        BY <3>1, <3>2
    <2>3. CASE SelectThrows(j)
      BY <2>1, <2>3, EndJobTypes DEF SelectThrows
    <2>4. CASE QueryFinds(j)
      <3>1. step[j] \in Busy /\ "save" \in Busy
        BY <2>4 DEF QueryFinds, Busy, Steps
      <3>2. PICK n \in Tagged(Key[Current(j)]) : found' = [found EXCEPT ![j] = report[n]]
        BY <2>4 DEF QueryFinds
      <3>3. report[n] \in Reports
        BY <3>2 DEF Tagged, Records, OtherTypes
      <3>4. QED
        BY <2>1, <2>4, <3>1, <3>2, <3>3, ForwardTypes DEF QueryFinds, Goto
    <2>5. CASE QueryFindsNothing(j)
      <3>1. step[j] \in Busy /\ "mark" \in Busy
        BY <2>5 DEF QueryFindsNothing, Busy, Steps
      <3>2. /\ step' = [step EXCEPT ![j] = "mark"] /\ UNCHANGED <<isRunning, batch>>
            /\ found' = [found EXCEPT ![j] = found[j]]
            /\ reply' = [reply EXCEPT ![j] = reply[j]]
        BY <2>1, <2>5 DEF QueryFindsNothing, Goto
      <3>3. QED
        BY <2>1, <3>1, <3>2, ForwardTypes
    <2>6. CASE Save(j)
      <3>1. step[j] \in Busy /\ "hook" \in Busy
        BY <2>6 DEF Save, Busy, Steps
      <3>2. /\ step' = [step EXCEPT ![j] = "hook"] /\ UNCHANGED <<isRunning, batch>>
            /\ found' = [found EXCEPT ![j] = found[j]]
            /\ reply' = [reply EXCEPT ![j] = reply[j]]
        BY <2>1, <2>6 DEF Save, Goto
      <3>3. QED
        BY <2>1, <3>1, <3>2, ForwardTypes
    <2>7. CASE Hook(j)
      <3>1. step[j] \in Busy /\ "patch" \in Busy /\ "hook" \in Busy
        BY <2>7 DEF Hook, Busy, Steps
      <3>2. Current(j) \in Messages
        BY <3>1, CurrentTyped
      <3>3. result[Current(j)] \in Reports
        BY <2>7, <3>2 DEF Hook, RowTypes
      <3>4. QED
        BY <2>1, <2>7, <3>1, <3>3, ForwardTypes DEF Hook, Goto
    <2>8. CASE PatchAnswered(j) \/ PatchFails(j)
      <3>1. step[j] \in Busy /\ "record" \in Busy
        BY <2>8 DEF PatchAnswered, PatchFails, Busy, Steps
      <3>2. /\ step' = [step EXCEPT ![j] = "record"] /\ UNCHANGED <<isRunning, batch>>
            /\ found' = [found EXCEPT ![j] = found[j]]
        BY <2>1, <2>8 DEF PatchAnswered, PatchFails, Goto
      <3>3. PICK how \in {"ok", "refused", "lost"} : reply' = [reply EXCEPT ![j] = how]
        BY <2>8 DEF PatchAnswered, PatchFails
      <3>4. QED
        BY <2>1, <3>1, <3>2, <3>3, ForwardTypes
    <2>9. CASE \/ QueryThrows(j) \/ SaveThrows(j) \/ MarkNotFound(j) \/ MarkThrows(j)
               \/ HookThrows(j) \/ RecordAttempt(j) \/ RecordAttemptAgain(j) \/ RecordThrows(j)
      <3>1. step[j] \in Busy /\ NextRow(j)
        BY <2>9 DEF QueryThrows, SaveThrows, MarkNotFound, MarkThrows, HookThrows,
                    RecordAttempt, RecordAttemptAgain, RecordThrows, Busy, Steps
      <3>2. QED
        BY <3>1, NextRowTypes
    <2>10. QED
      BY <1>4, <2>2, <2>3, <2>4, <2>5, <2>6, <2>7, <2>8, <2>9 DEF Work
  <1>5. ASSUME Crash
        PROVE  JobTypes'
    <2>1. <<>> \in Seq(Entries)
      BY EmptySeq
    <2>2. QED
      BY <1>5, <2>1 DEF Crash, JobTypes, Busy, Steps
  <1>6. QED
    BY <1>2, <1>3, <1>4, <1>5 DEF Next

\* A message that is no longer due.
LEMMA NoLongerDueForm ==
    ASSUME RowTypes, NEW m \in Messages, NoLongerDue(m)
    PROVE  \/ ~IsDue(m) /\ due' = due
           \/ \E i \in 1 .. Len(due) : due[i] = m /\ due' = RemoveAt(due, i)
  <1>1. CASE IsDue(m)
    <2> DEFINE i == CHOOSE k \in 1 .. Len(due) : due[k] = m
    <2>1. i \in 1 .. Len(due) /\ due[i] = m
      BY <1>1 DEF IsDue
    <2>2. due' = RemoveAt(due, i)
      BY <1>1 DEF NoLongerDue
    <2> HIDE DEF i
    <2>3. QED
      BY <2>1, <2>2
  <1>2. CASE ~IsDue(m)
    BY <1>2 DEF NoLongerDue
  <1>3. QED
    BY <1>1, <1>2

LEMMA NoLongerDueTyped ==
    ASSUME RowTypes, NEW m \in Messages, NoLongerDue(m)
    PROVE  due' \in Seq(Messages)
  <1>1. due \in Seq(Messages)
    BY DEF RowTypes
  <1>2. QED
    BY <1>1, NoLongerDueForm, RemoveAtProperties

LEMMA FinalTyped ==
    ASSUME NEW c \in Reports
    PROVE  /\ FinalStatus(c) \in {"DELIVERED", "FAILED"}
           /\ StatusReason(c) \in {"none", "partial", "failed"}
  BY DEF FinalStatus, StatusReason

LEMMA RowTypesNext ==
    ASSUME Types, Next
    PROVE  RowTypes'
  <1> USE DEF Types
  <1>0. due \in Seq(Messages)
    BY DEF RowTypes
  <1>1. ASSUME UNCHANGED rows
        PROVE  RowTypes'
    BY <1>1 DEF RowTypes, rows
  <1>2. ASSUME NEW m \in Messages, Accept(m) \/ AcceptOverdue(m)
        PROVE  RowTypes'
    <2>1. due' \in Seq(Messages)
      <3>1. CASE Accept(m)
        BY <1>0, <3>1 DEF Accept
      <3>2. CASE AcceptOverdue(m)
        BY <1>0, <3>2, InsertAtProperties DEF AcceptOverdue
      <3>3. QED
        BY <1>2, <3>1, <3>2
    <2>2. Accepted(m)
      BY <1>2 DEF Accept, AcceptOverdue
    <2>3. QED
      BY <2>1, <2>2 DEF Accepted, RowTypes, Statuses
  <1>3. ASSUME NEW m \in Messages, TimePasses(m)
        PROVE  RowTypes'
    <2>1. due' \in Seq(Messages)
      BY <1>0, <1>3, AppendProperties DEF TimePasses
    <2>2. QED
      BY <1>3, <2>1 DEF TimePasses, RowTypes
  <1>4. ASSUME NEW j \in Jobs, Save(j)
        PROVE  RowTypes'
    <2> DEFINE m == Current(j)
    <2>1. m \in Messages /\ found[j] \in Reports
      BY <1>4, CurrentTyped DEF Save, JobTypes, Busy, Steps
    <2>2. /\ FinalStatus(found[j]) \in {"DELIVERED", "FAILED"}
          /\ StatusReason(found[j]) \in {"none", "partial", "failed"}
      BY <2>1, FinalTyped
    <2>3. due' \in Seq(Messages)
      BY <1>4, <2>1, NoLongerDueTyped DEF Save
    <2>4. Append(finals[m], FinalStatus(found[j])) \in Seq({"DELIVERED", "FAILED"})
      BY <2>1, <2>2, AppendProperties DEF RowTypes
    <2> HIDE DEF m
    <2>5. /\ result' = [result EXCEPT ![m] = found[j]]
          /\ status' = [status EXCEPT ![m] = FinalStatus(found[j])]
          /\ reason' = [reason EXCEPT ![m] = StatusReason(found[j])]
          /\ poll' = [poll EXCEPT ![m] = "COMPLETE"]
          /\ attempt' = [attempt EXCEPT ![m] = attempt[m] + 1]
          /\ finals' = [finals EXCEPT ![m] = Append(finals[m], FinalStatus(found[j]))]
      BY <1>4 DEF Save, m
    <2>6. QED
      BY <2>1, <2>2, <2>3, <2>4, <2>5 DEF RowTypes, Statuses
  <1>5. ASSUME NEW j \in Jobs, MarkNotFound(j)
        PROVE  RowTypes'
    <2> DEFINE m == Current(j)
               n == batch[j][1].attempt + 1
    <2>1. m \in Messages /\ n \in Nat
      BY <1>5, CurrentTyped DEF MarkNotFound, Busy, Steps
    <2>2. due' \in Seq(Messages)
      BY <1>0, <1>5, <2>1, NoLongerDueTyped DEF MarkNotFound
    <2> HIDE DEF m, n
    <2>3. /\ attempt' = attempt \/ attempt' = [attempt EXCEPT ![m] = n]
          /\ poll' = poll \/ poll' = [poll EXCEPT ![m] = "COMPLETE"]
          /\ reason' = reason \/ reason' = [reason EXCEPT ![m] = "notFound"]
          /\ UNCHANGED <<status, result, finals>>
      BY <1>5 DEF MarkNotFound, m, n
    <2>4. QED
      BY <2>1, <2>2, <2>3 DEF RowTypes
  <1>6. ASSUME NEW j \in Jobs, Work(j), ~Save(j), ~MarkNotFound(j)
        PROVE  UNCHANGED rows
    BY <1>6 DEF Work, Select, SelectThrows, QueryFinds, QueryFindsNothing, QueryThrows,
                SaveThrows, MarkThrows, Hook, HookThrows, PatchAnswered, PatchFails,
                RecordAttempt, RecordAttemptAgain, RecordThrows
  <1>7. QED
    BY <1>1, <1>2, <1>3, <1>4, <1>5, <1>6 DEF Next, ProviderReports, Tick, Crash

LEMMA OtherTypesNext ==
    ASSUME Types, Next
    PROVE  OtherTypes'
  <1> USE DEF Types
  <1>1. ASSUME UNCHANGED <<callbacks, outside>>
        PROVE  OtherTypes'
    BY <1>1 DEF OtherTypes, outside
  <1>2. ASSUME NEW m \in Messages, ProviderReports(m)
        PROVE  OtherTypes'
    BY <1>2 DEF ProviderReports, OtherTypes
  <1>3. ASSUME NEW j \in Jobs, PatchAnswered(j) \/ PatchFails(j)
        PROVE  OtherTypes'
    <2> DEFINE m == Current(j)
    <2>1. m \in Messages /\ found[j] \in Reports
      BY <1>3, CurrentTyped DEF PatchAnswered, PatchFails, JobTypes, Busy, Steps
    <2>2. told[m] \in Seq(Reports)
      BY <2>1 DEF OtherTypes
    <2>3. Append(told[m], found[j]) \in Seq(Reports)
      BY <2>1, <2>2, AppendProperties
    <2> HIDE DEF m
    <2>4. /\ told' = told \/ told' = [told EXCEPT ![m] = Append(told[m], found[j])]
          /\ UNCHANGED <<callbacks, report, crashes>>
      BY <1>3 DEF PatchAnswered, PatchFails, m
    <2>5. QED
      BY <2>1, <2>3, <2>4 DEF OtherTypes
  <1>4. ASSUME NEW j \in Jobs, RecordAttempt(j) \/ RecordAttemptAgain(j)
        PROVE  OtherTypes'
    <2> DEFINE m == Current(j)
    <2>1. m \in Messages
      BY <1>4, CurrentTyped DEF RecordAttempt, RecordAttemptAgain, Busy, Steps
    <2>2. callbacks[m] \in Seq(BOOLEAN)
      BY <2>1 DEF OtherTypes
    <2>3. PICK b \in BOOLEAN : callbacks' = [callbacks EXCEPT ![m] = Append(callbacks[m], b)]
      BY <1>4 DEF RecordAttempt, RecordAttemptAgain, Succeeded
    <2>4. Append(callbacks[m], b) \in Seq(BOOLEAN)
      BY <2>2, AppendProperties
    <2> HIDE DEF m
    <2>5. UNCHANGED <<report, told, crashes>>
      BY <1>4 DEF RecordAttempt, RecordAttemptAgain, outside
    <2>6. QED
      BY <2>1, <2>3, <2>4, <2>5 DEF OtherTypes
  <1>5. ASSUME NEW j \in Jobs, Work(j), ~PatchAnswered(j), ~PatchFails(j),
               ~RecordAttempt(j), ~RecordAttemptAgain(j)
        PROVE  UNCHANGED <<callbacks, outside>>
    BY <1>5 DEF Work, Select, SelectThrows, QueryFinds, QueryFindsNothing, QueryThrows,
                Save, SaveThrows, MarkNotFound, MarkThrows, Hook, HookThrows, RecordThrows
  <1>6. CASE Crash
    BY <1>6, BoundAssumption DEF Crash, OtherTypes
  <1>7. ASSUME NEW m \in Messages, Accept(m) \/ AcceptOverdue(m) \/ TimePasses(m)
        PROVE  UNCHANGED <<callbacks, outside>>
    BY <1>7 DEF Accept, AcceptOverdue, Accepted, TimePasses
  <1>8. ASSUME NEW j \in Jobs, Tick(j)
        PROVE  UNCHANGED <<callbacks, outside>>
    BY <1>8 DEF Tick
  <1>9. QED
    BY <1>1, <1>2, <1>3, <1>4, <1>5, <1>6, <1>7, <1>8 DEF Next

LEMMA TypesInit ==
    ASSUME Init
    PROVE  Types
  <1>1. /\ <<>> \in Seq(Entries) /\ <<>> \in Seq(Messages) /\ <<>> \in Seq(BOOLEAN)
        /\ <<>> \in Seq(Reports) /\ <<>> \in Seq({"DELIVERED", "FAILED"})
    BY EmptySeq
  <1>2. JobTypes
    BY <1>1 DEF Init, JobTypes, Busy, Steps
  <1>3. RowTypes
    BY <1>1 DEF Init, RowTypes, Statuses
  <1>4. OtherTypes
    BY <1>1, BoundAssumption DEF Init, OtherTypes
  <1>5. QED
    BY <1>2, <1>3, <1>4 DEF Types

LEMMA TypesStep ==
    ASSUME Types, [Next]_vars
    PROVE  Types'
  <1>1. CASE Next
    BY <1>1, JobTypesNext, RowTypesNext, OtherTypesNext DEF Types
  <1>2. CASE UNCHANGED vars
    BY <1>2 DEF vars, Types, JobTypes, RowTypes, OtherTypes
  <1>3. QED
    BY <1>1, <1>2

-----------------------------------------------------------------------------
(***************************************************************************)
(* One job at a time: isRunning is up while a job is at work, so a second  *)
(* one never starts beside it.                                             *)
(***************************************************************************)

OneJob ==
    /\ \A j \in Jobs : step[j] # "idle" => isRunning
    /\ \A j, k \in Jobs : step[j] # "idle" /\ step[k] # "idle" => j = k

LEMMA OneJobStep ==
    ASSUME JobTypes, OneJob, [Next]_vars
    PROVE  OneJob'
  <1>1. ASSUME UNCHANGED <<isRunning, step>>
        PROVE  OneJob'
    BY <1>1 DEF OneJob
  <1>2. ASSUME NEW j \in Jobs, Tick(j)
        PROVE  OneJob'
    BY <1>2 DEF Tick, Goto, OneJob, JobTypes
  <1>3. ASSUME NEW j \in Jobs, step[j] # "idle", UNCHANGED isRunning,
               NEW to \in Steps, step' = [step EXCEPT ![j] = to]
        PROVE  OneJob'
    BY <1>3 DEF OneJob, JobTypes
  <1>4. ASSUME NEW j \in Jobs, step[j] # "idle", EndJob(j)
        PROVE  OneJob'
    BY <1>4 DEF EndJob, Goto, OneJob, JobTypes
  <1>5. ASSUME NEW j \in Jobs, step[j] # "idle", NextRow(j)
        PROVE  OneJob'
    <2>1. CASE Len(batch[j]) = 1
      BY <1>4, <1>5, <2>1 DEF NextRow
    <2>2. CASE Len(batch[j]) # 1
      BY <1>3, <1>5, <2>2 DEF NextRow, Goto, Steps
    <2>3. QED
      BY <2>1, <2>2
  <1>6. ASSUME NEW j \in Jobs, Work(j)
        PROVE  OneJob'
    <2>1. CASE Select(j)
      BY <1>3, <1>4, <2>1 DEF Select, Goto, Steps
    <2>2. CASE SelectThrows(j)
      BY <1>4, <2>2 DEF SelectThrows
    <2>3. CASE \/ QueryFinds(j) \/ QueryFindsNothing(j) \/ Save(j)
               \/ Hook(j) \/ PatchAnswered(j) \/ PatchFails(j)
      <3>1. /\ step[j] # "idle" /\ UNCHANGED isRunning
            /\ \E to \in Steps : step' = [step EXCEPT ![j] = to]
        BY <2>3 DEF QueryFinds, QueryFindsNothing, Save, Hook, PatchAnswered, PatchFails,
                    Goto, Steps
      <3>2. QED
        BY <1>3, <3>1
    <2>4. CASE \/ QueryThrows(j) \/ SaveThrows(j) \/ MarkNotFound(j) \/ MarkThrows(j)
               \/ HookThrows(j) \/ RecordAttempt(j) \/ RecordAttemptAgain(j) \/ RecordThrows(j)
      <3>1. step[j] # "idle" /\ NextRow(j)
        BY <2>4 DEF QueryThrows, SaveThrows, MarkNotFound, MarkThrows, HookThrows,
                    RecordAttempt, RecordAttemptAgain, RecordThrows
      <3>2. QED
        BY <1>5, <3>1
    <2>5. QED
      BY <1>6, <2>1, <2>2, <2>3, <2>4 DEF Work
  <1>7. CASE Crash
    BY <1>7 DEF Crash, OneJob
  <1>8. ASSUME NEW m \in Messages,
               Accept(m) \/ AcceptOverdue(m) \/ TimePasses(m) \/ ProviderReports(m)
        PROVE  UNCHANGED <<isRunning, step>>
    BY <1>8 DEF Accept, AcceptOverdue, Accepted, TimePasses, ProviderReports, job
  <1>9. QED
    BY <1>1, <1>2, <1>6, <1>7, <1>8 DEF Next, vars

-----------------------------------------------------------------------------
(***************************************************************************)
(* The rows, the due ones among them, and what a job holds of them.  Each  *)
(* of the three parts needs the others: what Save and MarkNotFound make of *)
(* a row is right because the row is as the job has read it; it is so,     *)
(* because a query returns waiting rows, each of them once; and it does,   *)
(* because Save and MarkNotFound take a row out of the due ones.           *)
(***************************************************************************)

DueWaits ==
    \A i \in 1 .. Len(due) :
        /\ poll[due[i]] = "WAITING"
        /\ \A k \in 1 .. Len(due) : k # i => due[k] # due[i]

\* The rows of a batch differ, and the ones the transaction of their
\* iteration has not changed yet are as they were read.
Fresh(j, i) ==
    /\ \A k \in 1 .. Len(batch[j]) : k # i => batch[j][k].of # batch[j][i].of
    /\ i > 1 \/ step[j] \in {"query", "save", "mark"} =>
         /\ poll[batch[j][i].of] = "WAITING"
         /\ attempt[batch[j][i].of] = batch[j][i].attempt

BatchFresh == \A j \in Jobs : \A i \in 1 .. Len(batch[j]) : Fresh(j, i)

RowsInv == Types /\ OneJob /\ PollingAgrees /\ DueWaits /\ BatchFresh

\* Beside a job at work, no other one has a row.
LEMMA OthersIdle ==
    ASSUME JobTypes, OneJob, NEW j \in Jobs, step[j] # "idle", NEW k \in Jobs, k # j
    PROVE  step[k] = "idle" /\ Len(batch[k]) = 0
  <1>1. step[k] = "idle"
    BY DEF OneJob
  <1>2. batch[k] = <<>>
    BY <1>1 DEF JobTypes, Busy
  <1>3. QED
    BY <1>1, <1>2, EmptySeq

\* The row a transaction is about to change: the job has it as it is, and
\* nothing is known of the message.
LEMMA CurrentWaits ==
    ASSUME RowsInv, NEW j \in Jobs, step[j] \in {"query", "save", "mark"}
    PROVE  /\ Current(j) \in Messages
           /\ poll[Current(j)] = "WAITING"
           /\ attempt[Current(j)] = batch[j][1].attempt
           /\ status[Current(j)] = "ACCEPTED"
           /\ reason[Current(j)] = "none"
           /\ attempt[Current(j)] \in Nat /\ attempt[Current(j)] < MaxAttempts
           /\ result[Current(j)] = NoReport
           /\ finals[Current(j)] = <<>>
  <1>1. Len(batch[j]) \in Nat \ {0} /\ Current(j) \in Messages
    BY CurrentTyped DEF RowsInv, Types, Busy, Steps
  <1>2. Fresh(j, 1)
    BY <1>1 DEF RowsInv, BatchFresh
  <1>3. poll[Current(j)] = "WAITING" /\ attempt[Current(j)] = batch[j][1].attempt
    BY <1>2 DEF Fresh, Current
  <1>4. RowAgrees(Current(j))
    BY <1>1 DEF RowsInv, PollingAgrees
  <1>5. attempt[Current(j)] \in Nat
    BY <1>1 DEF RowsInv, Types, RowTypes
  <1>6. QED
    BY <1>1, <1>3, <1>4, <1>5 DEF RowAgrees

LEMMA PollingAgreesNext ==
    ASSUME RowsInv, Next
    PROVE  PollingAgrees'
  <1> USE DEF RowsInv, Types
  <1>1. ASSUME UNCHANGED <<status, poll, attempt, reason, result, finals>>
        PROVE  PollingAgrees'
    BY <1>1 DEF PollingAgrees, RowAgrees
  <1>2. ASSUME NEW m \in Messages, Accepted(m)
        PROVE  PollingAgrees'
    <2>1. poll[m] = "NONE" /\ result[m] = NoReport /\ finals[m] = <<>>
      BY <1>2 DEF Accepted, PollingAgrees, RowAgrees
    <2>2. RowAgrees(m)'
      BY <1>2, <2>1, BoundAssumption DEF Accepted, RowAgrees, RowTypes
    <2>3. ASSUME NEW n \in Messages, n # m
          PROVE  RowAgrees(n)'
      BY <1>2, <2>3 DEF Accepted, PollingAgrees, RowAgrees, RowTypes
    <2>4. QED
      BY <2>2, <2>3 DEF PollingAgrees
  <1>3. ASSUME NEW j \in Jobs, Save(j)
        PROVE  PollingAgrees'
    <2>1. step[j] = "save" /\ found[j] \in Reports
      BY <1>3 DEF Save, JobTypes
    <2>0. PICK m \in Messages : m = Current(j)
      BY <2>1, CurrentWaits
    <2>2. /\ m \in Messages /\ attempt[m] \in Nat /\ attempt[m] < MaxAttempts
          /\ finals[m] = <<>>
      BY <2>0, <2>1, CurrentWaits
    <2>3. /\ result' = [result EXCEPT ![m] = found[j]]
          /\ status' = [status EXCEPT ![m] = FinalStatus(found[j])]
          /\ reason' = [reason EXCEPT ![m] = StatusReason(found[j])]
          /\ poll' = [poll EXCEPT ![m] = "COMPLETE"]
          /\ attempt' = [attempt EXCEPT ![m] = attempt[m] + 1]
          /\ finals' = [finals EXCEPT ![m] = Append(finals[m], FinalStatus(found[j]))]
      BY <1>3, <2>0 DEF Save
    <2>4. RowAgrees(m)'
      <3>1. /\ result'[m] = found[j] /\ found[j] # NoReport
            /\ status'[m] = FinalStatus(found[j])
            /\ reason'[m] = StatusReason(found[j])
            /\ poll'[m] = "COMPLETE"
            /\ attempt'[m] \in 1 .. MaxAttempts
        BY <2>1, <2>2, <2>3, ReportAssumption, BoundAssumption DEF RowTypes
      <3>2. finals'[m] = <<FinalStatus(found[j])>>
        BY <2>2, <2>3 DEF RowTypes
      <3>3. FinalStatus(found[j]) \in {"DELIVERED", "FAILED"}
        BY <2>1, FinalTyped
      <3>4. QED
        BY <3>1, <3>2, <3>3 DEF RowAgrees
    <2>5. ASSUME NEW n \in Messages, n # m
          PROVE  RowAgrees(n)'
      BY <2>3, <2>5 DEF PollingAgrees, RowAgrees, RowTypes
    <2>6. QED
      BY <2>4, <2>5 DEF PollingAgrees
  <1>4. ASSUME NEW j \in Jobs, MarkNotFound(j)
        PROVE  PollingAgrees'
    <2>0. PICK m \in Messages : m = Current(j)
      BY <1>4, CurrentWaits DEF MarkNotFound
    <2> DEFINE n == batch[j][1].attempt + 1
    <2>1. /\ m \in Messages /\ attempt[m] \in Nat /\ n = attempt[m] + 1 /\ n <= MaxAttempts
          /\ status[m] = "ACCEPTED" /\ poll[m] = "WAITING" /\ reason[m] = "none"
          /\ result[m] = NoReport /\ finals[m] = <<>>
      BY <1>4, <2>0, CurrentWaits, BoundAssumption DEF MarkNotFound
    <2>2. /\ attempt' = [attempt EXCEPT ![m] = n]
          /\ IF n >= MaxAttempts
             THEN /\ poll' = [poll EXCEPT ![m] = "COMPLETE"]
                  /\ reason' = [reason EXCEPT ![m] = "notFound"]
             ELSE UNCHANGED <<poll, reason>>
          /\ UNCHANGED <<status, result, finals>>
      BY <1>4, <2>0, <2>1 DEF MarkNotFound, Exhausted
    <2> HIDE DEF n
    <2>3. RowAgrees(m)'
      <3>1. CASE n >= MaxAttempts
        BY <2>1, <2>2, <3>1, BoundAssumption DEF RowAgrees, RowTypes
      <3>2. CASE ~(n >= MaxAttempts)
        BY <2>1, <2>2, <3>2, BoundAssumption DEF RowAgrees, RowTypes
      <3>3. QED
        BY <3>1, <3>2
    <2>4. ASSUME NEW k \in Messages, k # m
          PROVE  RowAgrees(k)'
      BY <2>2, <2>4 DEF PollingAgrees, RowAgrees, RowTypes
    <2>5. QED
      BY <2>3, <2>4 DEF PollingAgrees
  <1>5. ASSUME NEW j \in Jobs, Work(j), ~Save(j), ~MarkNotFound(j)
        PROVE  UNCHANGED <<status, poll, attempt, reason, result, finals>>
    BY <1>5 DEF Work, Select, SelectThrows, QueryFinds, QueryFindsNothing, QueryThrows,
                SaveThrows, MarkThrows, Hook, HookThrows, PatchAnswered, PatchFails,
                RecordAttempt, RecordAttemptAgain, RecordThrows, rows
  <1>6. QED
    BY <1>1, <1>2, <1>3, <1>4, <1>5
    DEF Next, Accept, AcceptOverdue, TimePasses, ProviderReports, Tick, Crash, rows

\* A message that is no longer due is not among the due ones, and they are
\* fewer at most.
LEMMA NoLongerDueWaits ==
    ASSUME RowTypes, DueWaits, NEW m \in Messages, NoLongerDue(m)
    PROVE  /\ \A i \in 1 .. Len(due)' : due'[i] # m
           /\ \A i \in 1 .. Len(due)' : \E k \in 1 .. Len(due) : due'[i] = due[k]
           /\ \A i, k \in 1 .. Len(due)' : k # i => due'[k] # due'[i]
  <1>1. due \in Seq(Messages) /\ Len(due) \in Nat
    BY DEF RowTypes
  <1>2. CASE ~IsDue(m) /\ due' = due
    BY <1>1, <1>2 DEF IsDue, DueWaits
  <1>3. ASSUME NEW i \in 1 .. Len(due), due[i] = m, due' = RemoveAt(due, i)
        PROVE  /\ \A h \in 1 .. Len(due)' : due'[h] # m
               /\ \A h \in 1 .. Len(due)' : \E k \in 1 .. Len(due) : due'[h] = due[k]
               /\ \A h, k \in 1 .. Len(due)' : k # h => due'[k] # due'[h]
    <2> DEFINE old(h) == IF h < i THEN h ELSE h + 1
    <2>1. /\ Len(due)' = Len(due) - 1
          /\ \A h \in 1 .. Len(due) - 1 : due'[h] = IF h < i THEN due[h] ELSE due[h + 1]
      BY <1>1, <1>3, RemoveAtProperties
    <2>2. \A h \in 1 .. Len(due) - 1 : old(h) \in 1 .. Len(due) /\ old(h) # i
      BY <1>1
    <2>3. \A h, k \in 1 .. Len(due) - 1 : k # h => old(k) # old(h)
      BY <1>1
    <2>4. \A h \in 1 .. Len(due) - 1 : due'[h] = due[old(h)]
      BY <2>1
    <2> HIDE DEF old
    <2>5. Len(due)' = Len(due) - 1
      BY <2>1
    <2>6. \A h, k \in 1 .. Len(due) : k # h => due[k] # due[h]
      BY DEF DueWaits
    <2>7. \A h \in 1 .. Len(due) - 1 : due'[h] # m
      BY <1>3, <2>2, <2>4, <2>6
    <2>8. \A h \in 1 .. Len(due) - 1 : \E k \in 1 .. Len(due) : due'[h] = due[k]
      BY <2>2, <2>4
    <2>9. \A h, k \in 1 .. Len(due) - 1 : k # h => due'[k] # due'[h]
      BY <2>2, <2>3, <2>4, <2>6
    <2>10. QED
      BY <2>5, <2>7, <2>8, <2>9, Zenon
  <1>4. QED
    BY <1>2, <1>3, NoLongerDueForm

LEMMA DueWaitsNext ==
    ASSUME RowsInv, Next
    PROVE  DueWaits'
  <1> USE DEF RowsInv, Types
  <1>0. due \in Seq(Messages) /\ Len(due) \in Nat
    BY DEF RowTypes
  <1>1. ASSUME UNCHANGED <<due, poll>>
        PROVE  DueWaits'
    BY <1>1 DEF DueWaits
  <1>2. ASSUME NEW m \in Messages, Accepted(m)
        PROVE  /\ poll[m] = "NONE" /\ poll' = [poll EXCEPT ![m] = "WAITING"]
               /\ \A i \in 1 .. Len(due) : due[i] # m /\ poll'[due[i]] = "WAITING"
    <2>1. poll[m] = "NONE" /\ poll' = [poll EXCEPT ![m] = "WAITING"]
      BY <1>2 DEF Accepted, PollingAgrees, RowAgrees
    <2>2. \A i \in 1 .. Len(due) : due[i] \in Messages /\ poll[due[i]] = "WAITING"
      BY <1>0, ElementOfSeq DEF DueWaits
    <2>3. QED
      BY <2>1, <2>2 DEF RowTypes
  <1>3. ASSUME NEW m \in Messages, Accept(m)
        PROVE  DueWaits'
    <2>1. Accepted(m) /\ due' = due
      BY <1>3 DEF Accept
    <2>2. QED
      BY <1>2, <2>1 DEF DueWaits
  <1>4. ASSUME NEW m \in Messages, AcceptOverdue(m)
        PROVE  DueWaits'
    <2>1. PICK i \in 1 .. Len(due) + 1 : due' = InsertAt(due, i, m)
      BY <1>4 DEF AcceptOverdue
    <2>2. /\ Len(due)' = Len(due) + 1
          /\ \A k \in 1 .. Len(due) + 1 :
               due'[k] = IF k < i THEN due[k] ELSE IF k = i THEN m ELSE due[k - 1]
      BY <1>0, <2>1, InsertAtProperties
    <2>3. /\ poll'[m] = "WAITING"
          /\ \A k \in 1 .. Len(due) : due[k] # m /\ poll'[due[k]] = "WAITING"
      BY <1>2, <1>4 DEF AcceptOverdue, RowTypes
    <2>4. ASSUME NEW k \in 1 .. Len(due) + 1
          PROVE  poll'[due'[k]] = "WAITING"
      <3>1. CASE k = i
        BY <2>2, <2>3, <3>1
      <3>2. CASE k < i
        <4>1. k \in 1 .. Len(due) /\ due'[k] = due[k]
          BY <1>0, <2>2, <3>2
        <4>2. QED
          BY <2>3, <4>1
      <3>3. CASE k > i
        <4>1. k - 1 \in 1 .. Len(due) /\ due'[k] = due[k - 1]
          BY <1>0, <2>2, <3>3
        <4>2. QED
          BY <2>3, <4>1
      <3>4. QED
        BY <1>0, <3>1, <3>2, <3>3
    <2>5. ASSUME NEW k \in 1 .. Len(due) + 1, NEW h \in 1 .. Len(due) + 1, h # k
          PROVE  due'[h] # due'[k]
      <3> DEFINE old(x) == IF x < i THEN x ELSE x - 1
      <3>1. \A x \in 1 .. Len(due) + 1 :
              x # i => old(x) \in 1 .. Len(due) /\ due'[x] = due[old(x)]
        BY <1>0, <2>2
      <3>2. h # i /\ k # i => old(h) # old(k)
        BY <1>0, <2>5
      <3>3. due'[i] = m
        BY <1>0, <2>2
      <3> HIDE DEF old
      <3>4. CASE h # i /\ k # i
        BY <3>1, <3>2, <3>4 DEF DueWaits
      <3>5. CASE h = i \/ k = i
        BY <2>3, <2>5, <3>1, <3>3, <3>5
      <3>6. QED
        BY <3>4, <3>5
    <2>6. QED
      BY <2>2, <2>4, <2>5 DEF DueWaits
  <1>5. ASSUME NEW m \in Messages, TimePasses(m)
        PROVE  DueWaits'
    <2>1. /\ Len(due)' = Len(due) + 1
          /\ \A k \in 1 .. Len(due) : due'[k] = due[k]
          /\ due'[Len(due) + 1] = m
      BY <1>0, <1>5, AppendProperties DEF TimePasses
    <2>2. poll' = poll /\ poll[m] = "WAITING" /\ \A k \in 1 .. Len(due) : due[k] # m
      BY <1>5 DEF TimePasses, IsDue
    <2>3. \A k \in 1 .. Len(due) + 1 : k \in 1 .. Len(due) \/ k = Len(due) + 1
      BY <1>0
    <2>4. QED
      BY <1>0, <2>1, <2>2, <2>3 DEF DueWaits
  <1>6. ASSUME NEW m \in Messages, NoLongerDue(m),
               \A n \in Messages : n # m => poll'[n] = poll[n]
        PROVE  DueWaits'
    <2>1. \A k \in 1 .. Len(due) : due[k] \in Messages
      BY <1>0, ElementOfSeq
    <2>2. QED
      BY <1>6, <2>1, NoLongerDueWaits DEF DueWaits
  <1>7. ASSUME NEW j \in Jobs, Save(j) \/ MarkNotFound(j)
        PROVE  DueWaits'
    <2>0. step[j] \in {"query", "save", "mark"}
      BY <1>7 DEF Save, MarkNotFound
    <2>1. PICK m \in Messages : m = Current(j)
      BY <2>0, CurrentWaits
    <2>2. status[m] = "ACCEPTED" /\ poll[m] = "WAITING"
      BY <2>0, <2>1, CurrentWaits
    <2>3. NoLongerDue(m)
      BY <1>7, <2>1, <2>2 DEF Save, MarkNotFound
    <2>4. poll' = poll \/ poll' = [poll EXCEPT ![m] = "COMPLETE"]
      BY <1>7, <2>1 DEF Save, MarkNotFound
    <2>5. \A n \in Messages : n # m => poll'[n] = poll[n]
      BY <2>4 DEF RowTypes
    <2>6. QED
      BY <1>6, <2>3, <2>5
  <1>8. ASSUME NEW j \in Jobs, Work(j), ~Save(j), ~MarkNotFound(j)
        PROVE  UNCHANGED <<due, poll>>
    BY <1>8 DEF Work, Select, SelectThrows, QueryFinds, QueryFindsNothing, QueryThrows,
                SaveThrows, MarkThrows, Hook, HookThrows, PatchAnswered, PatchFails,
                RecordAttempt, RecordAttemptAgain, RecordThrows, rows
  <1>9. QED
    BY <1>1, <1>3, <1>4, <1>5, <1>7, <1>8 DEF Next, ProviderReports, Tick, Crash, rows

\* A job is done with its current row, whatever has become of that row.
LEMMA NextRowFresh ==
    ASSUME JobTypes, OneJob, BatchFresh, NEW j \in Jobs, step[j] \in Busy, NextRow(j),
           \A m \in Messages : m # Current(j) => poll'[m] = poll[m] /\ attempt'[m] = attempt[m]
    PROVE  BatchFresh'
  <1>1. PICK to \in {"idle", "query"}, rest \in Seq(Entries), on \in BOOLEAN :
          NextRowTo(j, to, rest, on)
    BY NextRowForm
  <1>2. batch[j] \in Seq(Entries) /\ Len(batch[j]) \in Nat \ {0}
    BY CurrentTyped
  <1>3. ASSUME NEW i \in 1 .. Len(rest)
        PROVE  Fresh(j, i)'
    <2>1. batch'[j] = rest /\ Len(rest) = Len(batch[j]) - 1
      BY <1>1 DEF NextRowTo, JobTypes
    <2>2. \A k \in 1 .. Len(rest) : rest[k] = batch[j][k + 1] /\ k + 1 \in 1 .. Len(batch[j])
      BY <1>1, <1>2, <2>1 DEF NextRowTo
    <2>3. Fresh(j, i + 1) /\ Fresh(j, 1)
      BY <1>2, <2>2 DEF BatchFresh
    <2>4. batch[j][i + 1] \in Entries
      BY <1>2, <2>2, ElementOfSeq
    <2>5. /\ batch[j][i + 1].of \in Messages /\ batch[j][i + 1].of # Current(j)
          /\ poll[batch[j][i + 1].of] = "WAITING"
          /\ attempt[batch[j][i + 1].of] = batch[j][i + 1].attempt
      <3>1. i + 1 > 1 /\ i + 1 # 1
        OBVIOUS
      <3>2. i + 1 \in 1 .. Len(batch[j])
        BY <2>2
      <3>3. QED
        BY <2>3, <2>4, <3>1, <3>2 DEF Fresh, Current, Entries
    <2>6. ASSUME NEW k \in 1 .. Len(rest), k # i
          PROVE  rest[k].of # rest[i].of
      <3>1. k + 1 # i + 1
        BY <2>6
      <3>2. QED
        BY <2>2, <2>3, <3>1 DEF Fresh
    <2>7. QED
      BY <2>1, <2>2, <2>5, <2>6 DEF Fresh
  <1>4. batch'[j] = rest
    BY <1>1 DEF NextRowTo, JobTypes
  <1>5. ASSUME NEW k \in Jobs, k # j
        PROVE  Len(batch'[k]) = 0
    <2>1. step[j] # "idle"
      BY DEF Busy
    <2>2. batch'[k] = batch[k]
      BY <1>1, <1>5 DEF NextRowTo, JobTypes
    <2>3. QED
      BY <1>5, <2>1, <2>2, OthersIdle
  <1>6. QED
    BY <1>3, <1>4, <1>5 DEF BatchFresh

LEMMA BatchFreshNext ==
    ASSUME RowsInv, Next
    PROVE  BatchFresh'
  <1> USE DEF RowsInv, Types
  <1>1. ASSUME UNCHANGED <<step, batch, poll, attempt>>
        PROVE  BatchFresh'
    BY <1>1 DEF BatchFresh, Fresh
  <1>2. ASSUME NEW m \in Messages, Accepted(m)
        PROVE  BatchFresh'
    <2>1. poll[m] = "NONE"
      BY <1>2 DEF Accepted, PollingAgrees, RowAgrees
    <2>2. /\ UNCHANGED <<step, batch>>
          /\ poll' = [poll EXCEPT ![m] = "WAITING"]
          /\ attempt' = [attempt EXCEPT ![m] = 0]
      BY <1>2 DEF Accepted, job
    <2>3. ASSUME NEW j \in Jobs, NEW i \in 1 .. Len(batch[j])
          PROVE  Fresh(j, i)'
      <3>1. Fresh(j, i)
        BY DEF BatchFresh
      <3>2. batch[j][i].of \in Messages
        <4>1. batch[j] \in Seq(Entries)
          BY DEF JobTypes
        <4>2. batch[j][i] \in Entries
          BY <4>1, ElementOfSeq
        <4>3. QED
          BY <4>2 DEF Entries
      <3>3. QED
        BY <2>1, <2>2, <3>1, <3>2 DEF Fresh, RowTypes
    <2>4. QED
      BY <2>2, <2>3 DEF BatchFresh
  <1>3. ASSUME NEW j \in Jobs, Tick(j)
        PROVE  BatchFresh'
    <2>1. batch[j] = <<>>
      BY <1>3 DEF Tick, JobTypes, Busy
    <2>2. Len(batch[j]) = 0
      BY <2>1, EmptySeq
    <2>3. ASSUME NEW k \in Jobs, NEW i \in 1 .. Len(batch[k])
          PROVE  Fresh(k, i)'
      <3>1. k # j /\ Fresh(k, i)
        BY <2>2 DEF BatchFresh
      <3>2. QED
        BY <1>3, <3>1 DEF Tick, Goto, Fresh, JobTypes, rows
    <2>4. QED
      BY <1>3, <2>3 DEF Tick, BatchFresh
  <1>4. ASSUME NEW j \in Jobs, step[j] = "select", EndJob(j)
        PROVE  BatchFresh'
    <2>1. batch' = [batch EXCEPT ![j] = <<>>]
      BY <1>4 DEF EndJob
    <2>2. Len(batch'[j]) = 0
      BY <2>1, EmptySeq DEF JobTypes
    <2>3. ASSUME NEW k \in Jobs, k # j
          PROVE  Len(batch'[k]) = 0
      BY <1>4, <2>1, <2>3, OthersIdle DEF JobTypes
    <2>4. QED
      BY <2>2, <2>3 DEF BatchFresh
  <1>5. ASSUME NEW j \in Jobs, Select(j), due # <<>>
        PROVE  BatchFresh'
    <2>1. batch' = [batch EXCEPT ![j] = FirstDue] /\ UNCHANGED <<poll, attempt>>
      BY <1>5 DEF Select, rows
    <2>2. ASSUME NEW k \in Jobs, k # j
          PROVE  Len(batch'[k]) = 0
      <3>1. step[j] # "idle"
        BY <1>5 DEF Select
      <3>2. QED
        BY <2>1, <2>2, <3>1, OthersIdle DEF JobTypes
    <2>3. batch'[j] = FirstDue
      BY <2>1 DEF JobTypes
    <2>4. /\ Len(FirstDue) \in 1 .. Len(due)
          /\ \A i \in 1 .. Len(FirstDue) :
               FirstDue[i] = [of |-> due[i], attempt |-> attempt[due[i]]]
      BY <1>5, FirstDueForm
    <2>5. \A i \in 1 .. Len(FirstDue) :
            /\ FirstDue[i].of = due[i] /\ FirstDue[i].attempt = attempt[due[i]]
            /\ i \in 1 .. Len(due)
      <3>1. Len(due) \in Nat
        BY LenProperties DEF RowTypes
      <3>2. Len(FirstDue) \in Nat /\ Len(FirstDue) <= Len(due)
        BY <2>4, <3>1
      <3>3. \A i \in 1 .. Len(FirstDue) : i \in 1 .. Len(due)
        BY <3>1, <3>2
      <3>4. ASSUME NEW i \in 1 .. Len(FirstDue)
            PROVE  FirstDue[i].of = due[i] /\ FirstDue[i].attempt = attempt[due[i]]
        <4>1. FirstDue[i] = [of |-> due[i], attempt |-> attempt[due[i]]]
          BY <2>4
        <4>2. QED
          BY <4>1
      <3>5. QED
        BY <3>3, <3>4
    <2>6. ASSUME NEW i \in 1 .. Len(FirstDue)
          PROVE  Fresh(j, i)'
      BY <2>1, <2>3, <2>5 DEF DueWaits, Fresh
    <2>7. QED
      BY <2>2, <2>3, <2>6 DEF BatchFresh
  <1>6. ASSUME NEW j \in Jobs, NEW to \in Steps, step[j] \in Busy,
               step' = [step EXCEPT ![j] = to], batch' = batch,
               \A m \in Messages : m # Current(j) => poll'[m] = poll[m] /\ attempt'[m] = attempt[m],
               to \in {"query", "save", "mark"} =>
                  step[j] \in {"query", "save", "mark"} /\ UNCHANGED <<poll, attempt>>
        PROVE  BatchFresh'
    <2>1. ASSUME NEW k \in Jobs, k # j
          PROVE  Len(batch'[k]) = 0
      BY <1>6, <2>1, OthersIdle DEF Busy
    <2>2. ASSUME NEW i \in 1 .. Len(batch[j])
          PROVE  Fresh(j, i)'
      <3>1. Fresh(j, i) /\ batch[j] \in Seq(Entries) /\ Len(batch[j]) \in Nat \ {0}
        BY <1>6, CurrentTyped DEF BatchFresh
      <3>2. batch[j][i] \in Entries
        BY <3>1, ElementOfSeq
      <3>3. batch[j][i].of \in Messages
        BY <3>2 DEF Entries
      <3>4. step'[j] = to
        BY <1>6 DEF JobTypes
      <3>5. CASE to \in {"query", "save", "mark"}
        BY <1>6, <3>1, <3>4, <3>5 DEF Fresh
      <3>6. CASE to \notin {"query", "save", "mark"} /\ i > 1
        <4>1. batch[j][i].of # Current(j)
          <5>1. 1 # i /\ 1 \in 1 .. Len(batch[j])
            BY <3>1, <3>6
          <5>2. QED
            BY <3>1, <5>1 DEF Fresh, Current
        <4>2. QED
          BY <1>6, <3>1, <3>3, <3>6, <4>1 DEF Fresh
      <3>7. CASE to \notin {"query", "save", "mark"} /\ ~(i > 1)
        BY <1>6, <3>1, <3>4, <3>7 DEF Fresh
      <3>8. QED
        BY <3>5, <3>6, <3>7
    <2>3. QED
      BY <1>6, <2>1, <2>2 DEF BatchFresh
  <1>7. ASSUME NEW j \in Jobs, Save(j)
        PROVE  BatchFresh'
    <2>1. Current(j) \in Messages /\ step[j] \in Busy
      BY <1>7, CurrentWaits DEF Save, Busy, Steps
    <2>2. /\ step' = [step EXCEPT ![j] = "hook"] /\ batch' = batch
          /\ poll' = [poll EXCEPT ![Current(j)] = "COMPLETE"]
          /\ attempt' = [attempt EXCEPT ![Current(j)] = attempt[Current(j)] + 1]
      BY <1>7 DEF Save, Goto
    <2>3. \A m \in Messages : m # Current(j) => poll'[m] = poll[m] /\ attempt'[m] = attempt[m]
      BY <2>1, <2>2 DEF RowTypes
    <2>4. "hook" \in Steps /\ "hook" \notin {"query", "save", "mark"}
      BY DEF Steps
    <2>5. QED
      BY <1>6, <2>1, <2>2, <2>3, <2>4
  <1>8. ASSUME NEW j \in Jobs,
               \/ QueryFinds(j) \/ QueryFindsNothing(j)
               \/ Hook(j) \/ PatchAnswered(j) \/ PatchFails(j)
        PROVE  BatchFresh'
    <2>1. /\ step[j] \in Busy /\ batch' = batch /\ UNCHANGED <<poll, attempt>>
          /\ \E to \in Steps : /\ step' = [step EXCEPT ![j] = to]
                               /\ to \in {"query", "save", "mark"} => step[j] = "query"
      BY <1>8 DEF QueryFinds, QueryFindsNothing, Hook, PatchAnswered, PatchFails, Goto,
                  Busy, Steps, rows
    <2>2. QED
      BY <1>6, <2>1
  <1>9. ASSUME NEW j \in Jobs, NextRow(j), step[j] \in Busy, UNCHANGED <<poll, attempt>>
        PROVE  BatchFresh'
    BY <1>9, NextRowFresh
  <1>10. ASSUME NEW j \in Jobs, MarkNotFound(j)
         PROVE  BatchFresh'
    <2>1. Current(j) \in Messages /\ step[j] \in Busy /\ NextRow(j)
      BY <1>10, CurrentWaits DEF MarkNotFound, Busy, Steps
    <2>2. \E n : attempt' = [attempt EXCEPT ![Current(j)] = n] \/ attempt' = attempt
      BY <1>10 DEF MarkNotFound
    <2>3. poll' = poll \/ poll' = [poll EXCEPT ![Current(j)] = "COMPLETE"]
      BY <1>10 DEF MarkNotFound
    <2>4. \A m \in Messages : m # Current(j) => poll'[m] = poll[m] /\ attempt'[m] = attempt[m]
      BY <2>1, <2>2, <2>3 DEF RowTypes
    <2>5. QED
      BY <2>1, <2>4, NextRowFresh
  <1>11. ASSUME NEW j \in Jobs,
                \/ QueryThrows(j) \/ SaveThrows(j) \/ MarkThrows(j) \/ HookThrows(j)
                \/ RecordAttempt(j) \/ RecordAttemptAgain(j) \/ RecordThrows(j)
         PROVE  BatchFresh'
    <2>1. NextRow(j) /\ step[j] \in Busy /\ UNCHANGED <<poll, attempt>>
      BY <1>11 DEF QueryThrows, SaveThrows, MarkThrows, HookThrows, RecordAttempt,
                   RecordAttemptAgain, RecordThrows, Busy, Steps, rows
    <2>2. QED
      BY <1>9, <2>1
  <1>12. ASSUME NEW j \in Jobs, Select(j) \/ SelectThrows(j)
         PROVE  BatchFresh'
    BY <1>4, <1>5, <1>12 DEF Select, SelectThrows
  <1>13. CASE Crash
    <2>1. \A j \in Jobs : Len(batch'[j]) = 0
      BY <1>13, EmptySeq DEF Crash
    <2>2. QED
      BY <2>1 DEF BatchFresh
  <1>14. ASSUME NEW m \in Messages, TimePasses(m) \/ ProviderReports(m)
         PROVE  UNCHANGED <<step, batch, poll, attempt>>
    BY <1>14 DEF TimePasses, ProviderReports, job, rows
  <1>15. ASSUME NEW j \in Jobs, Work(j)
         PROVE  BatchFresh'
    BY <1>7, <1>8, <1>10, <1>11, <1>12, <1>15 DEF Work
  <1>16. QED
    BY <1>1, <1>2, <1>3, <1>13, <1>14, <1>15 DEF Next, Accept, AcceptOverdue

LEMMA RowsInvInit ==
    ASSUME Init
    PROVE  RowsInv
  <1>1. Types
    BY TypesInit
  <1>2. OneJob /\ PollingAgrees
    BY DEF Init, OneJob, PollingAgrees, RowAgrees
  <1>3. DueWaits
    BY EmptySeq DEF Init, DueWaits
  <1>4. BatchFresh
    <2>1. \A j \in Jobs : Len(batch[j]) = 0
      BY EmptySeq DEF Init
    <2>2. QED
      BY <2>1 DEF BatchFresh
  <1>5. QED
    BY <1>1, <1>2, <1>3, <1>4 DEF RowsInv

LEMMA RowsInvStep ==
    ASSUME RowsInv, [Next]_vars
    PROVE  RowsInv'
  <1>1. Types' /\ OneJob'
    BY TypesStep, OneJobStep DEF RowsInv, Types
  <1>2. CASE Next
    BY <1>1, <1>2, PollingAgreesNext, DueWaitsNext, BatchFreshNext DEF RowsInv
  <1>3. CASE UNCHANGED vars
    <2>1. UNCHANGED <<step, batch, status, poll, attempt, reason, due, result, finals>>
      BY <1>3 DEF vars
    <2>2. PollingAgrees' /\ DueWaits' /\ BatchFresh'
      BY <2>1 DEF RowsInv, PollingAgrees, RowAgrees, DueWaits, BatchFresh, Fresh
    <2>3. QED
      BY <1>1, <2>2 DEF RowsInv
  <1>4. QED
    BY <1>2, <1>3

THEOREM RowsCorrect == Spec => []RowsInv
  <1>1. Init => RowsInv
    BY RowsInvInit
  <1>2. RowsInv /\ [Next]_vars => RowsInv'
    BY RowsInvStep
  <1>3. QED
    BY <1>1, <1>2, PTL DEF Spec

\* TypeOK: the variables keep to their types, and no attempt is counted
\* beyond MAX_SEND_RESULT_POLL_ATTEMPT.
THEOREM TypeCorrect == Spec => []TypeOK
  <1>1. RowsInv => TypeOK
    <2> SUFFICES ASSUME RowsInv
                 PROVE  TypeOK
      OBVIOUS
    <2>1. ASSUME NEW m \in Messages
          PROVE  attempt[m] \in 0 .. MaxAttempts
      <3>1. RowAgrees(m) /\ attempt[m] \in Nat /\ poll[m] \in {"NONE", "WAITING", "COMPLETE"}
        BY DEF RowsInv, PollingAgrees, Types, RowTypes
      <3>2. QED
        BY <3>1, BoundAssumption DEF RowAgrees
    <2>2. attempt \in [Messages -> 0 .. MaxAttempts]
      BY <2>1 DEF RowsInv, Types, RowTypes
    <2>3. QED
      BY <2>2 DEF RowsInv, Types, JobTypes, RowTypes, OtherTypes, TypeOK
  <1>2. QED
    BY <1>1, RowsCorrect, PTL

\* PollingAgrees: whatever fails and wherever the scheduler dies, the
\* columns that say how far a message has come agree with its result.
THEOREM RowsAgree == Spec => []PollingAgrees
  <1>1. RowsInv => PollingAgrees
    BY DEF RowsInv
  <1>2. QED
    BY <1>1, RowsCorrect, PTL

\* BatchIsFresh: the rows a job holds are as it has read them, so that
\* neither Save nor MarkNotFound overwrites what it has not seen.
THEOREM BatchStaysFresh == Spec => []BatchIsFresh
  <1>1. RowsInv => BatchIsFresh
    <2> SUFFICES ASSUME RowsInv, NEW j \in Jobs, step[j] \in {"query", "save", "mark"},
                        NEW i \in 1 .. Len(batch[j])
                 PROVE  /\ poll[batch[j][i].of] = "WAITING"
                        /\ attempt[batch[j][i].of] = batch[j][i].attempt
                        /\ \A k \in 1 .. Len(batch[j]) : k # i => batch[j][k].of # batch[j][i].of
      BY DEF BatchIsFresh
    <2>1. Fresh(j, i)
      BY DEF RowsInv, BatchFresh
    <2>2. QED
      BY <2>1 DEF Fresh
  <1>2. QED
    BY <1>1, RowsCorrect, PTL

\* FinalIsFinal: no step changes a row that has its result.
THEOREM FinalStays == Spec => FinalIsFinal
  <1> DEFINE Stays(m) == result[m] # NoReport =>
               /\ result'[m] = result[m]
               /\ status'[m] = status[m]
               /\ attempt'[m] = attempt[m]
               /\ finals'[m] = finals[m]
  <1>1. RowsInv /\ [Next]_vars => [\A m \in Messages : Stays(m)]_vars
    <2> SUFFICES ASSUME RowsInv, Next, NEW m \in Messages, result[m] # NoReport
                 PROVE  Stays(m)
      OBVIOUS
    <2> USE DEF RowsInv, Types
    <2>1. ASSUME UNCHANGED <<status, attempt, result, finals>>
          PROVE  Stays(m)
      BY <2>1
    <2>2. ASSUME NEW n \in Messages, Accepted(n)
          PROVE  Stays(m)
      <3>1. n # m
        BY <2>2 DEF Accepted, PollingAgrees, RowAgrees
      <3>2. QED
        BY <2>2, <3>1 DEF Accepted, RowTypes
    <2>3. ASSUME NEW j \in Jobs, Save(j) \/ MarkNotFound(j)
          PROVE  Stays(m)
      <3>1. Current(j) \in Messages /\ Current(j) # m
        BY <2>3, CurrentWaits DEF Save, MarkNotFound
      <3>2. CASE Save(j)
        BY <3>1, <3>2 DEF Save, RowTypes
      <3>3. CASE MarkNotFound(j)
        BY <3>1, <3>3 DEF MarkNotFound, RowTypes
      <3>4. QED
        BY <2>3, <3>2, <3>3
    <2>4. ASSUME NEW j \in Jobs, Work(j), ~Save(j), ~MarkNotFound(j)
          PROVE  UNCHANGED <<status, attempt, result, finals>>
      BY <2>4 DEF Work, Select, SelectThrows, QueryFinds, QueryFindsNothing, QueryThrows,
                  SaveThrows, MarkThrows, Hook, HookThrows, PatchAnswered, PatchFails,
                  RecordAttempt, RecordAttemptAgain, RecordThrows, rows
    <2>5. QED
      BY <2>1, <2>2, <2>3, <2>4
      DEF Next, Accept, AcceptOverdue, TimePasses, ProviderReports, Tick, Crash, rows
  <1>2. QED
    BY <1>1, RowsCorrect, PTL DEF Spec, FinalIsFinal

-----------------------------------------------------------------------------
(***************************************************************************)
(* The webhook.  Nothing is told before there is a result, and the job     *)
(* that has saved it is the only one to tell the client, once: a restart   *)
(* in between drops the webhook, it never sends it again.                  *)
(***************************************************************************)

Telling(m) ==
    /\ result[m] = NoReport => told[m] = <<>> /\ callbacks[m] = <<>>
    /\ told[m] \in {<<>>, <<result[m]>>}
    /\ callbacks[m] \in {<<>>, <<FALSE>>, <<TRUE>>}
    /\ callbacks[m] = <<TRUE>> => told[m] # <<>>

\* The webhook of job j's current row: still to be sent, or sent and not on
\* record.
Hooking(j) ==
    step[j] \in {"hook", "patch", "record"} =>
        /\ result[Current(j)] # NoReport
        /\ callbacks[Current(j)] = <<>>
        /\ step[j] \in {"hook", "patch"} => told[Current(j)] = <<>>
        /\ step[j] = "patch" => found[j] = result[Current(j)]
        /\ step[j] = "record" /\ reply[j] = "ok" => told[Current(j)] # <<>>

Tells == \A m \in Messages : Telling(m)
Hooks == \A j \in Jobs : Hooking(j)

WebInv == RowsInv /\ Tells /\ Hooks

LEMMA TellsNext ==
    ASSUME WebInv, Next
    PROVE  Tells'
  <1> USE DEF WebInv, RowsInv, Types
  <1>1. ASSUME UNCHANGED <<result, told, callbacks>>
        PROVE  Tells'
    BY <1>1 DEF Tells, Telling
  <1>2. ASSUME NEW j \in Jobs, Save(j)
        PROVE  Tells'
    <2>1. PICK m \in Messages : m = Current(j)
      BY <1>2, CurrentWaits DEF Save
    <2>2. result[m] = NoReport
      BY <1>2, <2>1, CurrentWaits DEF Save
    <2>3. /\ result' = [result EXCEPT ![m] = found[j]] /\ told' = told /\ callbacks' = callbacks
      BY <1>2, <2>1 DEF Save, outside
    <2>4. told[m] = <<>> /\ callbacks[m] = <<>>
      BY <2>2 DEF Tells, Telling
    <2>5. Telling(m)'
      BY <2>3, <2>4, ReportAssumption, <1>2 DEF Telling, Save, JobTypes, RowTypes
    <2>6. ASSUME NEW n \in Messages, n # m
          PROVE  Telling(n)'
      BY <2>3, <2>6 DEF Tells, Telling, RowTypes
    <2>7. QED
      BY <2>5, <2>6 DEF Tells
  <1>3. ASSUME NEW j \in Jobs, PatchAnswered(j) \/ PatchFails(j)
        PROVE  Tells'
    <2>1. step[j] = "patch" /\ step[j] \in Busy
      BY <1>3 DEF PatchAnswered, PatchFails, Busy, Steps
    <2>2. PICK m \in Messages : m = Current(j)
      BY <2>1, CurrentTyped
    <2>3. /\ result[m] # NoReport /\ callbacks[m] = <<>> /\ told[m] = <<>>
          /\ found[j] = result[m]
      BY <2>1, <2>2 DEF Hooks, Hooking
    <2>4. /\ UNCHANGED <<result, callbacks>>
          /\ told' = told \/ told' = [told EXCEPT ![m] = Append(told[m], found[j])]
      BY <1>3, <2>2 DEF PatchAnswered, PatchFails, rows
    <2>5. Append(told[m], found[j]) = <<result[m]>>
      BY <2>3
    <2>6. Telling(m)'
      <3>1. told'[m] = <<>> \/ told'[m] = <<result[m]>>
        BY <2>3, <2>4, <2>5 DEF OtherTypes
      <3>2. <<>> # <<TRUE>>
        OBVIOUS
      <3>3. result'[m] = result[m] /\ callbacks'[m] = <<>>
        BY <2>3, <2>4
      <3>4. QED
        BY <2>3, <3>1, <3>2, <3>3, Zenon DEF Telling
    <2>7. ASSUME NEW n \in Messages, n # m
          PROVE  Telling(n)'
      <3>1. told'[n] = told[n]
        BY <2>4, <2>7 DEF OtherTypes
      <3>2. result'[n] = result[n] /\ callbacks'[n] = callbacks[n]
        BY <2>4
      <3>3. Telling(n)
        BY DEF Tells
      <3>4. QED
        BY <3>1, <3>2, <3>3, Zenon DEF Telling
    <2>8. QED
      BY <2>6, <2>7 DEF Tells
  <1>4. ASSUME NEW j \in Jobs, RecordAttempt(j) \/ RecordAttemptAgain(j)
        PROVE  Tells'
    <2>1. step[j] = "record" /\ step[j] \in Busy
      BY <1>4 DEF RecordAttempt, RecordAttemptAgain, Busy, Steps
    <2>2. PICK m \in Messages : m = Current(j)
      BY <2>1, CurrentTyped
    <2>3. /\ result[m] # NoReport /\ callbacks[m] = <<>>
          /\ reply[j] = "ok" => told[m] # <<>>
      BY <2>1, <2>2 DEF Hooks, Hooking
    <2>4. PICK b \in BOOLEAN : /\ callbacks' = [callbacks EXCEPT ![m] = Append(callbacks[m], b)]
                               /\ b = TRUE => reply[j] = "ok"
      BY <1>4, <2>2 DEF RecordAttempt, RecordAttemptAgain, Succeeded
    <2>5. UNCHANGED <<result, told>>
      BY <1>4 DEF RecordAttempt, RecordAttemptAgain, rows, outside
    <2>6. callbacks'[m] = <<b>>
      BY <2>3, <2>4 DEF OtherTypes
    <2>7. Telling(m)'
      <3>1. Telling(m)
        BY DEF Tells
      <3>2. CASE b = TRUE
        BY <2>3, <2>4, <2>5, <2>6, <3>1, <3>2 DEF Telling
      <3>3. CASE b = FALSE
        <4>1. <<FALSE>> # <<TRUE>>
          OBVIOUS
        <4>2. QED
          BY <2>3, <2>5, <2>6, <3>1, <3>3, <4>1 DEF Telling
      <3>4. QED
        BY <3>2, <3>3
    <2>8. ASSUME NEW n \in Messages, n # m
          PROVE  Telling(n)'
      BY <2>4, <2>5, <2>8 DEF Tells, Telling, OtherTypes
    <2>9. QED
      BY <2>7, <2>8 DEF Tells
  <1>5. ASSUME NEW j \in Jobs, Work(j), ~Save(j), ~PatchAnswered(j), ~PatchFails(j),
               ~RecordAttempt(j), ~RecordAttemptAgain(j)
        PROVE  UNCHANGED <<result, told, callbacks>>
    BY <1>5 DEF Work, Select, SelectThrows, QueryFinds, QueryFindsNothing, QueryThrows,
                SaveThrows, MarkNotFound, MarkThrows, Hook, HookThrows, RecordThrows,
                rows, outside
  <1>6. ASSUME NEW m \in Messages,
               Accept(m) \/ AcceptOverdue(m) \/ TimePasses(m) \/ ProviderReports(m)
        PROVE  UNCHANGED <<result, told, callbacks>>
    BY <1>6 DEF Accept, AcceptOverdue, Accepted, TimePasses, ProviderReports, rows, outside
  <1>7. QED
    BY <1>1, <1>2, <1>3, <1>4, <1>5, <1>6 DEF Next, Tick, Crash, rows, outside

LEMMA HooksNext ==
    ASSUME WebInv, Next
    PROVE  Hooks'
  <1> USE DEF WebInv, RowsInv, Types
  <1>1. ASSUME UNCHANGED <<job, told, callbacks>>,
               \A m \in Messages : result[m] # NoReport => result'[m] = result[m]
        PROVE  Hooks'
    <2>1. ASSUME NEW j \in Jobs, step[j] \in {"hook", "patch", "record"}
          PROVE  Hooking(j)'
      <3>1. Current(j) \in Messages
        BY <2>1, CurrentTyped DEF Busy, Steps
      <3>2. QED
        BY <1>1, <2>1, <3>1 DEF Hooks, Hooking, Current, job
    <2>2. QED
      BY <1>1, <2>1 DEF Hooks, Hooking, job
  <1>2. ASSUME NEW m \in Messages,
               Accept(m) \/ AcceptOverdue(m) \/ TimePasses(m) \/ ProviderReports(m)
        PROVE  Hooks'
    BY <1>1, <1>2 DEF Accept, AcceptOverdue, Accepted, TimePasses, ProviderReports, rows, outside
  <1>3. ASSUME NEW j \in Jobs, NEW to \in {"idle", "select", "query", "save", "mark"},
               step' = [step EXCEPT ![j] = to],
               \A k \in Jobs : k # j => step[k] \in {"idle", to}
        PROVE  Hooks'
    BY <1>3 DEF Hooks, Hooking, JobTypes
  <1>4. ASSUME NEW j \in Jobs, step[j] # "idle"
        PROVE  \A k \in Jobs : k # j => step[k] = "idle"
    BY <1>4 DEF OneJob
  <1>5. ASSUME NEW j \in Jobs, Tick(j)
        PROVE  Hooks'
    BY <1>3, <1>5 DEF Tick, Goto, OneJob
  <1>6. ASSUME NEW j \in Jobs, \/ Select(j) \/ SelectThrows(j)
                               \/ QueryFinds(j) \/ QueryFindsNothing(j)
        PROVE  Hooks'
    <2>1. /\ step[j] # "idle"
          /\ \E to \in {"idle", "select", "query", "save", "mark"} :
               step' = [step EXCEPT ![j] = to]
      BY <1>6 DEF Select, SelectThrows, QueryFinds, QueryFindsNothing, EndJob, Goto
    <2>2. QED
      BY <1>3, <1>4, <2>1
  <1>7. ASSUME NEW j \in Jobs, \/ QueryThrows(j) \/ SaveThrows(j) \/ MarkNotFound(j) \/ MarkThrows(j)
                               \/ HookThrows(j) \/ RecordAttempt(j) \/ RecordAttemptAgain(j)
                               \/ RecordThrows(j)
        PROVE  Hooks'
    <2>1. step[j] # "idle" /\ step[j] \in Busy /\ NextRow(j)
      BY <1>7 DEF QueryThrows, SaveThrows, MarkNotFound, MarkThrows, HookThrows,
                  RecordAttempt, RecordAttemptAgain, RecordThrows, Busy, Steps
    <2>2. \E to \in {"idle", "query"} : step' = [step EXCEPT ![j] = to]
      BY <2>1, NextRowForm DEF NextRowTo
    <2>3. QED
      BY <1>3, <1>4, <2>1, <2>2
  <1>8. ASSUME NEW j \in Jobs, NEW to \in Steps, step' = [step EXCEPT ![j] = to],
               step[j] # "idle", Hooking(j)'
        PROVE  Hooks'
    <2>1. ASSUME NEW k \in Jobs, k # j
          PROVE  Hooking(k)'
      <3>1. step[k] = "idle"
        BY <1>4, <1>8, <2>1
      <3>2. step'[k] = "idle"
        BY <1>8, <2>1, <3>1 DEF JobTypes
      <3>3. QED
        BY <3>2 DEF Hooking
    <2>2. QED
      BY <1>8, <2>1 DEF Hooks
  <1>9. ASSUME NEW j \in Jobs, Save(j)
        PROVE  Hooks'
    <2>1. /\ step[j] = "save" /\ step' = [step EXCEPT ![j] = "hook"] /\ batch' = batch
          /\ result' = [result EXCEPT ![Current(j)] = found[j]]
          /\ told' = told /\ callbacks' = callbacks
      BY <1>9 DEF Save, Goto, outside
    <2>2. Current(j) \in Messages /\ result[Current(j)] = NoReport
      BY <2>1, CurrentWaits
    <2>3. told[Current(j)] = <<>> /\ callbacks[Current(j)] = <<>>
      BY <2>2 DEF Tells, Telling
    <2>4. found[j] # NoReport
      BY <2>1, ReportAssumption DEF JobTypes
    <2>5. Current(j)' = Current(j) /\ step'[j] = "hook"
      BY <2>1 DEF Current, JobTypes
    <2>6. result'[Current(j)] = found[j]
      BY <2>1, <2>2 DEF RowTypes
    <2>7. Hooking(j)'
      BY <2>1, <2>3, <2>4, <2>5, <2>6 DEF Hooking
    <2>8. QED
      BY <1>8, <2>1, <2>7 DEF Steps
  <1>10. ASSUME NEW j \in Jobs, Hook(j)
         PROVE  Hooks'
    <2>1. /\ step[j] = "hook" /\ step' = [step EXCEPT ![j] = "patch"] /\ batch' = batch
          /\ found' = [found EXCEPT ![j] = result[Current(j)]]
          /\ UNCHANGED <<result, told, callbacks>>
      BY <1>10 DEF Hook, Goto, rows, outside
    <2>2. Current(j)' = Current(j) /\ step'[j] = "patch" /\ found'[j] = result[Current(j)]
      BY <2>1 DEF Current, JobTypes
    <2>3. Hooking(j)
      BY DEF Hooks
    <2>4. Hooking(j)'
      BY <2>1, <2>2, <2>3 DEF Hooking
    <2>5. QED
      BY <1>8, <2>1, <2>4 DEF Steps
  <1>11. ASSUME NEW j \in Jobs, PatchAnswered(j) \/ PatchFails(j)
         PROVE  Hooks'
    <2>1. /\ step[j] = "patch" /\ step' = [step EXCEPT ![j] = "record"] /\ batch' = batch
          /\ UNCHANGED <<result, callbacks>>
          /\ \/ told' = [told EXCEPT ![Current(j)] = Append(told[Current(j)], found[j])]
             \/ reply' = [reply EXCEPT ![j] = "lost"]
      BY <1>11 DEF PatchAnswered, PatchFails, Goto, rows
    <2>2. Current(j) \in Messages /\ step[j] \in Busy
      BY <2>1, CurrentTyped DEF Busy, Steps
    <2>3. Current(j)' = Current(j) /\ step'[j] = "record"
      BY <2>1 DEF Current, JobTypes
    <2>4. Hooking(j) /\ told[Current(j)] = <<>>
      BY <2>1 DEF Hooks, Hooking
    <2>5. reply'[j] = "ok" => told'[Current(j)] # <<>>
      <3>1. CASE told' = [told EXCEPT ![Current(j)] = Append(told[Current(j)], found[j])]
        BY <2>2, <2>4, <3>1 DEF OtherTypes
      <3>2. CASE reply' = [reply EXCEPT ![j] = "lost"]
        BY <3>2 DEF JobTypes
      <3>3. QED
        BY <2>1, <3>1, <3>2
    <2>6. Hooking(j)'
      BY <2>1, <2>3, <2>4, <2>5 DEF Hooking
    <2>7. QED
      BY <1>8, <2>1, <2>6 DEF Steps
  <1>12. CASE Crash
    BY <1>12 DEF Crash, Hooks, Hooking
  <1>13. ASSUME NEW j \in Jobs, Work(j)
         PROVE  Hooks'
    BY <1>6, <1>7, <1>9, <1>10, <1>11, <1>13 DEF Work
  <1>14. QED
    BY <1>2, <1>5, <1>12, <1>13 DEF Next

THEOREM WebCorrect == Spec => []WebInv
  <1>1. Init => WebInv
    <2> SUFFICES ASSUME Init
                 PROVE  WebInv
      OBVIOUS
    <2>1. Tells
      BY DEF Init, Tells, Telling
    <2>2. Hooks
      BY DEF Init, Hooks, Hooking
    <2>3. QED
      BY <2>1, <2>2, RowsInvInit DEF WebInv
  <1>2. WebInv /\ [Next]_vars => WebInv'
    <2> SUFFICES ASSUME WebInv, [Next]_vars
                 PROVE  WebInv'
      OBVIOUS
    <2>1. RowsInv'
      BY RowsInvStep DEF WebInv
    <2>2. CASE Next
      BY <2>1, <2>2, TellsNext, HooksNext DEF WebInv
    <2>3. CASE UNCHANGED vars
      <3>1. UNCHANGED <<step, batch, found, reply, result, told, callbacks>>
        BY <2>3 DEF vars
      <3>2. Tells' /\ Hooks'
        BY <3>1 DEF WebInv, Tells, Telling, Hooks, Hooking, Current
      <3>3. QED
        BY <2>1, <3>2 DEF WebInv
    <2>4. QED
      BY <2>2, <2>3
  <1>3. QED
    BY <1>1, <1>2, PTL DEF Spec

\* OneWebhook: no client hears of a message twice, and no second attempt
\* goes on record, whatever fails and however often the scheduler restarts.
THEOREM AtMostOneWebhook == Spec => []OneWebhook
  <1>1. WebInv => OneWebhook
    <2> SUFFICES ASSUME WebInv, NEW m \in Messages
                 PROVE  Len(told[m]) <= 1 /\ Len(callbacks[m]) <= 1
      BY DEF OneWebhook
    <2>1. Telling(m)
      BY DEF WebInv, Tells
    <2>2. told[m] = <<>> \/ told[m] = <<result[m]>>
      BY <2>1 DEF Telling
    <2>3. callbacks[m] = <<>> \/ callbacks[m] = <<FALSE>> \/ callbacks[m] = <<TRUE>>
      BY <2>1 DEF Telling
    <2>4. /\ Len(<<>>) = 0 /\ Len(<<result[m]>>) = 1
          /\ Len(<<FALSE>>) = 1 /\ Len(<<TRUE>>) = 1
      BY EmptySeq
    <2>5. Len(told[m]) \in {0, 1} /\ Len(callbacks[m]) \in {0, 1}
      BY <2>2, <2>3, <2>4, Zenon
    <2>6. 0 <= 1 /\ 1 <= 1
      OBVIOUS
    <2>7. QED
      BY <2>5, <2>6, Zenon
  <1>2. QED
    BY <1>1, WebCorrect, PTL

\* WebhookIsTrue: the client hears the counts that are stored, and a
\* success on record was heard.
THEOREM WebhookTrue == Spec => []WebhookIsTrue
  <1>1. WebInv => WebhookIsTrue
    <2> SUFFICES ASSUME WebInv, NEW m \in Messages
                 PROVE  /\ \A i \in 1 .. Len(told[m]) : result[m] = told[m][i]
                        /\ \A i \in 1 .. Len(callbacks[m]) : callbacks[m][i] => told[m] # <<>>
      BY DEF WebhookIsTrue
    <2>1. Telling(m)
      BY DEF WebInv, Tells
    <2>2. told[m] = <<>> \/ told[m] = <<result[m]>>
      BY <2>1 DEF Telling
    <2>3. \A i \in 1 .. Len(told[m]) : result[m] = told[m][i]
      BY <2>2
    <2>4. CASE callbacks[m] = <<TRUE>>
      BY <2>1, <2>3, <2>4 DEF Telling
    <2>5. CASE callbacks[m] = <<>> \/ callbacks[m] = <<FALSE>>
      <3>1. \A i \in 1 .. Len(callbacks[m]) : ~callbacks[m][i]
        <4>1. CASE callbacks[m] = <<>>
          BY <4>1, EmptySeq
        <4>2. CASE callbacks[m] = <<FALSE>>
          <5>1. Len(<<FALSE>>) = 1 /\ \A i \in 1 .. 1 : i = 1
            OBVIOUS
          <5>2. <<FALSE>>[1] = FALSE
            OBVIOUS
          <5>3. QED
            BY <4>2, <5>1, <5>2, Zenon
        <4>3. QED
          BY <2>5, <4>1, <4>2
      <3>2. QED
        BY <2>3, <3>1
    <2>6. QED
      BY <2>1, <2>4, <2>5 DEF Telling
  <1>2. QED
    BY <1>1, WebCorrect, PTL

-----------------------------------------------------------------------------
(***************************************************************************)
(* A job ends: what can be proved of it.  Every await it comes back from   *)
(* leaves it with fewer to go, so it goes back to nothing, asks for no row *)
(* twice and does not grow with the rows that fall due; that it comes back *)
(* from each of them is the event loop's part.                             *)
(***************************************************************************)

\* A query does not return more rows than it was asked for.
BatchBounded == \A j \in Jobs : Len(batch[j]) <= BatchSize

\* How a job moves on: to its end; to the first of the rows it selected; to
\* the next row; or to a later await of the same row.
MovesTo(j, to, rest) ==
    /\ step' = [step EXCEPT ![j] = to]
    /\ batch' = [batch EXCEPT ![j] = rest]
    /\ \/ to = "idle" /\ rest = <<>>
       \/ to = "query" /\ step[j] = "select" /\ Len(rest) \in 1 .. BatchSize
       \/ to = "query" /\ step[j] \in Busy /\ Len(rest) = Len(batch[j]) - 1 /\ rest # <<>>
       \/ /\ step[j] \in Busy /\ to \in Busy /\ rest = batch[j]
          /\ AwaitsOfRow[to] < AwaitsOfRow[step[j]]

Moves(j) == \E to \in Steps, rest \in Seq(Entries) : MovesTo(j, to, rest)

LEMMA JobMoves ==
    ASSUME JobTypes, RowTypes, NEW j \in Jobs, Work(j)
    PROVE  Moves(j)
  <1>1. ASSUME EndJob(j) PROVE Moves(j)
    <2>1. <<>> \in Seq(Entries) /\ "idle" \in Steps
      BY EmptySeq DEF Steps
    <2>2. MovesTo(j, "idle", <<>>)
      BY <1>1 DEF EndJob, Goto, MovesTo
    <2>3. QED
      BY <2>1, <2>2 DEF Moves
  <1>2. ASSUME step[j] \in Busy, NextRow(j) PROVE Moves(j)
    <2>1. PICK to \in {"idle", "query"}, rest \in Seq(Entries), on \in BOOLEAN :
            NextRowTo(j, to, rest, on)
      BY <1>2, NextRowForm
    <2>2. MovesTo(j, to, rest)
      BY <1>2, <2>1 DEF NextRowTo, MovesTo
    <2>3. to \in Steps
      BY DEF Steps
    <2>4. QED
      BY <2>2, <2>3 DEF Moves
  <1>3. ASSUME step[j] \in Busy, NEW to \in Busy, AwaitsOfRow[to] < AwaitsOfRow[step[j]],
               step' = [step EXCEPT ![j] = to], UNCHANGED batch
        PROVE  Moves(j)
    <2>1. batch[j] \in Seq(Entries) /\ batch' = [batch EXCEPT ![j] = batch[j]]
      BY <1>3 DEF JobTypes
    <2>2. MovesTo(j, to, batch[j])
      BY <1>3, <2>1 DEF MovesTo
    <2>3. to \in Steps
      BY DEF Busy
    <2>4. QED
      BY <2>1, <2>2, <2>3 DEF Moves
  <1>4. ASSUME Select(j) PROVE Moves(j)
    <2>1. CASE due = <<>>
      BY <1>1, <1>4, <2>1 DEF Select
    <2>2. CASE due # <<>>
      <3>1. /\ FirstDue \in Seq(Entries) /\ Len(FirstDue) \in 1 .. BatchSize
            /\ "query" \in Steps
        BY <2>2, FirstDueForm, BoundAssumption DEF Steps
      <3>2. MovesTo(j, "query", FirstDue)
        BY <1>4, <2>2, <3>1 DEF Select, Goto, MovesTo
      <3>3. QED
        BY <3>1, <3>2 DEF Moves
    <2>3. QED
      BY <2>1, <2>2
  <1>5. ASSUME SelectThrows(j) PROVE Moves(j)
    BY <1>1, <1>5 DEF SelectThrows
  <1>6. ASSUME \/ QueryFinds(j) \/ QueryFindsNothing(j) \/ Save(j)
               \/ Hook(j) \/ PatchAnswered(j) \/ PatchFails(j)
        PROVE  Moves(j)
    <2> DEFINE Later(f, to) == /\ step[j] = f /\ AwaitsOfRow[to] < AwaitsOfRow[f]
                               /\ step' = [step EXCEPT ![j] = to] /\ UNCHANGED batch
    <2>1. /\ AwaitsOfRow["query"] = 5 /\ AwaitsOfRow["save"] = 4 /\ AwaitsOfRow["hook"] = 3
          /\ AwaitsOfRow["patch"] = 2 /\ AwaitsOfRow["record"] = 1 /\ AwaitsOfRow["mark"] = 1
      BY DEF AwaitsOfRow
    <2>2. \A f, to \in Busy : Later(f, to) => Moves(j)
      BY <1>3 DEF Later
    <2>3. {"query", "save", "mark", "hook", "patch", "record"} \subseteq Busy
      BY DEF Busy, Steps
    <2> HIDE DEF Later
    <2>4. CASE QueryFinds(j)
      <3>1. Later("query", "save")
        BY <2>1, <2>4 DEF QueryFinds, Goto, Later
      <3>2. QED
        BY <2>2, <2>3, <3>1
    <2>5. CASE QueryFindsNothing(j)
      <3>1. Later("query", "mark")
        BY <2>1, <2>5 DEF QueryFindsNothing, Goto, Later
      <3>2. QED
        BY <2>2, <2>3, <3>1
    <2>6. CASE Save(j)
      <3>1. Later("save", "hook")
        BY <2>1, <2>6 DEF Save, Goto, Later
      <3>2. QED
        BY <2>2, <2>3, <3>1
    <2>7. CASE Hook(j)
      <3>1. Later("hook", "patch")
        BY <2>1, <2>7 DEF Hook, Goto, Later
      <3>2. QED
        BY <2>2, <2>3, <3>1
    <2>8. CASE PatchAnswered(j)
      <3>1. Later("patch", "record")
        BY <2>1, <2>8 DEF PatchAnswered, Goto, Later
      <3>2. QED
        BY <2>2, <2>3, <3>1
    <2>9. CASE PatchFails(j)
      <3>1. Later("patch", "record")
        BY <2>1, <2>9 DEF PatchFails, Goto, Later
      <3>2. QED
        BY <2>2, <2>3, <3>1
    <2>10. QED
      BY <1>6, <2>4, <2>5, <2>6, <2>7, <2>8, <2>9
  <1>7. ASSUME \/ QueryThrows(j) \/ SaveThrows(j) \/ MarkNotFound(j) \/ MarkThrows(j)
               \/ HookThrows(j) \/ RecordAttempt(j) \/ RecordAttemptAgain(j) \/ RecordThrows(j)
        PROVE  Moves(j)
    <2>1. step[j] \in Busy /\ NextRow(j)
      BY <1>7 DEF QueryThrows, SaveThrows, MarkNotFound, MarkThrows, HookThrows,
                  RecordAttempt, RecordAttemptAgain, RecordThrows, Busy, Steps
    <2>2. QED
      BY <1>2, <2>1
  <1>8. QED
    BY <1>4, <1>5, <1>6, <1>7 DEF Work

\* How the jobs move in a step: none does, one starts, one moves on, or all
\* are gone with the process.
LEMMA JobsMove ==
    ASSUME JobTypes, RowTypes, [Next]_vars
    PROVE  \/ UNCHANGED <<step, batch>>
           \/ \E j \in Jobs : /\ step[j] = "idle" /\ UNCHANGED batch
                              /\ step' = [step EXCEPT ![j] = "select"]
           \/ \E j \in Jobs : step[j] # "idle" /\ Moves(j)
           \/ /\ step' = [j \in Jobs |-> "idle"]
              /\ batch' = [j \in Jobs |-> <<>>]
  <1>1. CASE UNCHANGED vars
    BY <1>1 DEF vars
  <1>2. CASE \E m \in Messages :
               Accept(m) \/ AcceptOverdue(m) \/ TimePasses(m) \/ ProviderReports(m)
    BY <1>2 DEF Accept, AcceptOverdue, Accepted, TimePasses, ProviderReports, job
  <1>3. ASSUME NEW j \in Jobs, Tick(j)
        PROVE  /\ step[j] = "idle" /\ UNCHANGED batch
               /\ step' = [step EXCEPT ![j] = "select"]
    BY <1>3 DEF Tick, Goto
  <1>4. ASSUME NEW j \in Jobs, Work(j)
        PROVE  step[j] # "idle" /\ Moves(j)
    <2>1. Moves(j)
      BY <1>4, JobMoves
    <2>2. step[j] # "idle"
      BY <1>4 DEF Work, Select, SelectThrows, QueryFinds, QueryFindsNothing, QueryThrows,
                  Save, SaveThrows, MarkNotFound, MarkThrows, Hook, HookThrows,
                  PatchAnswered, PatchFails, RecordAttempt, RecordAttemptAgain, RecordThrows
    <2>3. QED
      BY <2>1, <2>2
  <1>5. CASE Crash
    BY <1>5 DEF Crash
  <1>6. QED
    BY <1>1, <1>2, <1>3, <1>4, <1>5 DEF Next

LEMMA BatchBoundedStep ==
    ASSUME JobTypes, RowTypes, BatchBounded, [Next]_vars
    PROVE  BatchBounded'
  <1>1. BatchSize \in Nat \ {0}
    BY BoundAssumption
  <1> SUFFICES ASSUME NEW k \in Jobs PROVE Len(batch'[k]) <= BatchSize
    BY DEF BatchBounded
  <1>2. Len(batch[k]) <= BatchSize /\ Len(batch[k]) \in Nat
    BY LenProperties DEF BatchBounded, JobTypes
  <1>3. CASE UNCHANGED batch
    BY <1>2, <1>3
  <1>4. ASSUME NEW j \in Jobs, Moves(j) PROVE Len(batch'[k]) <= BatchSize
    <2>1. PICK to \in Steps, rest \in Seq(Entries) : MovesTo(j, to, rest)
      BY <1>4 DEF Moves
    <2>2. batch' = [batch EXCEPT ![j] = rest] /\ batch \in [Jobs -> Seq(Entries)]
      BY <2>1 DEF MovesTo, JobTypes
    <2>3. CASE k # j
      BY <1>2, <2>2, <2>3
    <2>4. CASE k = j
      <3>1. batch'[k] = rest
        BY <2>2, <2>4
      <3>2. Len(rest) <= BatchSize
        <4>1. CASE rest = <<>>
          BY <1>1, <4>1, EmptySeq
        <4>2. CASE rest # <<>>
          BY <1>1, <1>2, <2>1, <2>4, <4>2 DEF MovesTo
        <4>3. QED
          BY <4>1, <4>2
      <3>3. QED
        BY <3>1, <3>2
    <2>5. QED
      BY <2>3, <2>4
  <1>5. CASE batch' = [j \in Jobs |-> <<>>]
    BY <1>1, <1>5, EmptySeq
  <1>6. QED
    BY <1>3, <1>4, <1>5, JobsMove

\* The awaits of a job that has rows.
LEMMA AwaitsTyped ==
    ASSUME NEW s \in Busy
    PROVE  AwaitsOfRow[s] \in 1 .. 5 /\ AwaitsOfRow["query"] = 5 /\ s # "idle" /\ s # "select"
  BY DEF AwaitsOfRow, Busy, Steps

\* An await leaves a job with fewer to go.
LEMMA MovesDown ==
    ASSUME JobTypes, BatchBounded, NEW j \in Jobs, step[j] # "idle", Moves(j)
    PROVE  AwaitsLeft(j)' \in 0 .. AwaitsLeft(j) - 1
  <1>1. PICK to \in Steps, rest \in Seq(Entries) : MovesTo(j, to, rest)
    BY DEF Moves
  <1>2. step'[j] = to /\ batch'[j] = rest
    BY <1>1 DEF MovesTo, JobTypes
  <1>3. BatchSize \in Nat \ {0}
    BY BoundAssumption
  <1>4. Len(rest) \in Nat /\ Len(batch[j]) \in Nat
    BY LenProperties DEF JobTypes
  <1>5. step[j] = "select" => AwaitsLeft(j) = 5 * BatchSize + 1
    BY DEF AwaitsLeft
  <1>6. step[j] \in Busy =>
          /\ AwaitsLeft(j) = 5 * (Len(batch[j]) - 1) + AwaitsOfRow[step[j]]
          /\ AwaitsOfRow[step[j]] \in 1 .. 5
          /\ Len(batch[j]) >= 1
    <2>1. ASSUME step[j] \in Busy
          PROVE  AwaitsLeft(j) = 5 * (Len(batch[j]) - 1) + AwaitsOfRow[step[j]]
      BY <2>1, AwaitsTyped DEF AwaitsLeft
    <2>2. ASSUME step[j] \in Busy
          PROVE  Len(batch[j]) >= 1
      BY <2>2, CurrentTyped
    <2>3. QED
      BY <2>1, <2>2, AwaitsTyped
  <1>7. step[j] = "select" \/ step[j] \in Busy
    BY DEF Busy, JobTypes
  <1>8. AwaitsLeft(j) \in Nat /\ AwaitsLeft(j) >= 1
    BY <1>3, <1>4, <1>5, <1>6, <1>7
  <1>9. CASE to = "idle"
    <2>1. AwaitsLeft(j)' = 0
      BY <1>2, <1>9 DEF AwaitsLeft
    <2>2. QED
      BY <1>8, <2>1
  <1>10. CASE to \in Busy
    <2>1. AwaitsLeft(j)' = 5 * (Len(rest) - 1) + AwaitsOfRow[to]
      BY <1>2, <1>10, AwaitsTyped DEF AwaitsLeft
    <2>2. AwaitsOfRow[to] \in 1 .. 5 /\ AwaitsOfRow["query"] = 5 /\ to # "idle"
      BY <1>10, AwaitsTyped
    <2>3. CASE to = "query" /\ step[j] = "select" /\ Len(rest) \in 1 .. BatchSize
      BY <1>3, <1>4, <1>5, <2>1, <2>2, <2>3
    <2>4. CASE /\ to = "query" /\ step[j] \in Busy /\ Len(rest) = Len(batch[j]) - 1
               /\ rest # <<>>
      <3>1. Len(rest) >= 1
        BY <1>4, <2>4, EmptySeq
      <3>2. QED
        BY <1>4, <1>6, <2>1, <2>2, <2>4, <3>1
    <2>5. CASE /\ step[j] \in Busy /\ rest = batch[j]
               /\ AwaitsOfRow[to] < AwaitsOfRow[step[j]]
      <3>1. AwaitsLeft(j)' = 5 * (Len(batch[j]) - 1) + AwaitsOfRow[to]
        BY <2>1, <2>5
      <3>2. /\ AwaitsLeft(j) = 5 * (Len(batch[j]) - 1) + AwaitsOfRow[step[j]]
            /\ Len(batch[j]) \in Nat \ {0} /\ AwaitsOfRow[step[j]] \in 1 .. 5
        BY <1>4, <1>6, <2>5
      <3>3. \A n \in Nat \ {0}, a, b \in 1 .. 5 :
              a < b => 5 * (n - 1) + a \in 0 .. (5 * (n - 1) + b) - 1
        OBVIOUS
      <3>4. AwaitsOfRow[to] \in 1 .. 5 /\ AwaitsOfRow[to] < AwaitsOfRow[step[j]]
        BY <2>2, <2>5
      <3>5. 5 * (Len(batch[j]) - 1) + AwaitsOfRow[to]
              \in 0 .. (5 * (Len(batch[j]) - 1) + AwaitsOfRow[step[j]]) - 1
        BY <3>2, <3>3, <3>4
      <3>6. QED
        BY <3>1, <3>2, <3>5
    <2>6. QED
      BY <1>1, <2>2, <2>3, <2>4, <2>5 DEF MovesTo
  <1>11. QED
    <2>1. to = "idle" \/ to \in Busy
      BY <1>1 DEF MovesTo, Busy
    <2>2. QED
      BY <1>9, <1>10, <2>1

\* Every await of a job that comes back, with an exception or without, leaves
\* the job fewer of them than it had: pollDueSendResults goes once through the
\* rows it selected, and isRunning is given back after 5 * BatchSize + 1
\* awaits at the most, whatever falls due meanwhile.
THEOREM JobsRunDown == Spec => JobRunsDown
  <1>1. Init => BatchBounded
    <2> SUFFICES ASSUME Init, NEW j \in Jobs PROVE Len(batch[j]) <= BatchSize
      BY DEF BatchBounded
    <2>1. QED
      BY EmptySeq, BoundAssumption DEF Init
  <1>2. RowsInv /\ BatchBounded /\ [Next]_vars => BatchBounded'
    BY BatchBoundedStep DEF RowsInv, Types
  <1>3. RowsInv /\ BatchBounded /\ [Next]_vars =>
          [\A j \in Jobs : step[j] # "idle" =>
             \/ step'[j] = step[j] /\ batch'[j] = batch[j]
             \/ AwaitsLeft(j)' \in 0 .. AwaitsLeft(j) - 1]_vars
    <2> SUFFICES ASSUME RowsInv, BatchBounded, [Next]_vars, NEW k \in Jobs, step[k] # "idle"
                 PROVE  \/ step'[k] = step[k] /\ batch'[k] = batch[k]
                        \/ AwaitsLeft(k)' \in 0 .. AwaitsLeft(k) - 1
      OBVIOUS
    <2>1. JobTypes /\ RowTypes
      BY DEF RowsInv, Types
    <2>2. CASE UNCHANGED <<step, batch>>
      BY <2>2
    <2>3. ASSUME NEW j \in Jobs, step[j] = "idle", UNCHANGED batch,
                 step' = [step EXCEPT ![j] = "select"]
          PROVE  step'[k] = step[k] /\ batch'[k] = batch[k]
      BY <2>1, <2>3 DEF JobTypes
    <2>4. ASSUME NEW j \in Jobs, step[j] # "idle", Moves(j)
          PROVE  \/ step'[k] = step[k] /\ batch'[k] = batch[k]
                 \/ AwaitsLeft(k)' \in 0 .. AwaitsLeft(k) - 1
      <3>1. CASE k = j
        BY <2>1, <2>4, <3>1, MovesDown
      <3>2. CASE k # j
        BY <2>1, <2>4, <3>2 DEF Moves, MovesTo, JobTypes
      <3>3. QED
        BY <3>1, <3>2
    <2>5. CASE step' = [j \in Jobs |-> "idle"] /\ batch' = [j \in Jobs |-> <<>>]
      <3>1. AwaitsLeft(k)' = 0
        BY <2>5 DEF AwaitsLeft
      <3>2. AwaitsLeft(k) \in Nat /\ AwaitsLeft(k) >= 1
        <4>1. CASE step[k] = "select"
          BY <4>1, BoundAssumption DEF AwaitsLeft
        <4>2. CASE step[k] \in Busy
          <5>1. AwaitsLeft(k) = 5 * (Len(batch[k]) - 1) + AwaitsOfRow[step[k]]
            BY <4>2, AwaitsTyped DEF AwaitsLeft
          <5>2. AwaitsOfRow[step[k]] \in 1 .. 5 /\ Len(batch[k]) \in Nat \ {0}
            BY <2>1, <4>2, AwaitsTyped, CurrentTyped
          <5>3. QED
            BY <5>1, <5>2
        <4>3. QED
          BY <2>1, <4>1, <4>2 DEF Busy, JobTypes
      <3>3. QED
        BY <3>1, <3>2
    <2>6. QED
      BY <2>1, <2>2, <2>3, <2>4, <2>5, JobsMove
  <1>4. QED
    BY <1>1, <1>2, <1>3, RowsCorrect, PTL DEF Spec, JobRunsDown

=============================================================================
