-------------------------- MODULE SendServices_proofs --------------------------
(***************************************************************************)
(* The theorems about SendDispatch hold for any table of services that     *)
(* satisfies its assumptions.  Here the table is that of the code, the six *)
(* services of SendServices: they satisfy the assumptions, so what is      *)
(* proved of any services is proved of them.                               *)
(***************************************************************************)
EXTENDS SendServices, TLAPS

CONSTANTS Requests, Clients, Keys, NoKey, Codes, NoCode, MaxCrashes

VARIABLES pc, input, status, poll, dispatch, events, wire, taken, code, answer, crashes

\* The send handlers with the six services.
Six == INSTANCE SendDispatch_proofs WITH Service <- RequestHalf, Reply <- ReplyHalf

Names == {"SmsSend", "SmsSchedule", "KakaoSend", "KakaoSchedule", "BrandTalkSend",
          "BrandTalkSchedule"}

\* The two halves have a record for each service, of the types SendDispatch
\* expects, and what is polled is born ACCEPTED.
LEMMA ServicesFit ==
    /\ Six!Services = Names
    /\ RequestHalf \in [Six!Services -> Six!ServiceType]
    /\ ReplyHalf \in [Six!Services -> Six!ReplyType]
    /\ \A s \in Six!Services : ReplyHalf[s].polled => ReplyHalf[s].onAccept = "ACCEPTED"
  <1>1. Six!Services = Names /\ DOMAIN ReplyHalf = Names
    BY DEF Six!Services, RequestHalf, ReplyHalf, Names
  <1>2. {SmsSend, SmsSchedule, KakaoSend, KakaoSchedule, BrandTalkSend, BrandTalkSchedule}
          \subseteq Six!ServiceType
    BY DEF Six!ServiceType, Six!Channels, SmsSend, SmsSchedule, KakaoSend, KakaoSchedule,
           BrandTalkSend, BrandTalkSchedule
  <1>3. {SmsSendReply, SmsScheduleReply, KakaoSendReply, KakaoScheduleReply,
         BrandTalkSendReply, BrandTalkScheduleReply} \subseteq Six!ReplyType
    BY DEF Six!ReplyType, SmsSendReply, SmsScheduleReply, KakaoSendReply,
           KakaoScheduleReply, BrandTalkSendReply, BrandTalkScheduleReply,
           SmsSendFatal, SmsScheduleFatal, KakaoSendFatal, KakaoScheduleFatal,
           BrandTalkSendFatal, BrandTalkScheduleFatal
  <1>4. RequestHalf \in [Names -> Six!ServiceType]
    BY <1>2 DEF RequestHalf, Names
  <1>5. ReplyHalf \in [Names -> Six!ReplyType]
    BY <1>3 DEF ReplyHalf, Names
  <1>6. \A s \in Names : ReplyHalf[s].polled => ReplyHalf[s].onAccept = "ACCEPTED"
    BY DEF Names, ReplyHalf, SmsSendReply, SmsScheduleReply, KakaoSendReply,
           KakaoScheduleReply, BrandTalkSendReply, BrandTalkScheduleReply
  <1>7. QED
    BY <1>1, <1>4, <1>5, <1>6

\* No table lists 0, an acceptance, as a failure that is final, nor a code
\* outside -14 .. -2.
LEMMA FatalCodes ==
    \A s \in Six!Services : ReplyHalf[s].fatal \subseteq -14 .. -2
  BY ServicesFit DEF Names, ReplyHalf, SmsSendReply, SmsScheduleReply, KakaoSendReply,
     KakaoScheduleReply, BrandTalkSendReply, BrandTalkScheduleReply,
     SmsSendFatal, SmsScheduleFatal, KakaoSendFatal, KakaoScheduleFatal,
     BrandTalkSendFatal, BrandTalkScheduleFatal

\* What SendDispatch_proofs proves, of the code's own services.
SixPromises ==
    /\ Six!TypeOK
    /\ Six!OneDispatchPerKey
    /\ Six!NoUnrecordedDispatch
    /\ Six!OutcomeIsTrue
    /\ Six!TablesAgree
    /\ Six!DuplicateIsOwnMessage
    /\ Six!AnswerMatchesRow

\* A key reaches the provider once, outcomes are true, the tables agree and so
\* do the answers, for the six services, any requests, keys, codes and crashes:
\* nothing about the services is left to assume.
THEOREM SixServices ==
    ASSUME NoKey \notin Keys, Codes \subseteq Int, NoCode \in Nat \ {0}, MaxCrashes \in Nat
    PROVE  Six!Spec => []SixPromises /\ Six!HistoryOnlyGrows
  <1>1. \A s \in Six!Services : 0 \notin ReplyHalf[s].fatal /\ NoCode \notin ReplyHalf[s].fatal
    BY FatalCodes
  <1>2. NoCode \in Int \ {0}
    OBVIOUS
  <1> USE <1>1, <1>2, ServicesFit
  <1>3. Six!Spec => []Six!TypeOK
    BY Six!TypeCorrect
  <1>4. Six!Spec => []Six!OneDispatchPerKey
    BY Six!OneDispatch
  <1>5. Six!Spec => []Six!NoUnrecordedDispatch
    BY Six!DispatchesAreRecorded
  <1>6. Six!Spec => []Six!OutcomeIsTrue
    BY Six!OutcomesAreTrue
  <1>7. Six!Spec => []Six!TablesAgree
    BY Six!TablesCorrect
  <1>8. Six!Spec => [](Six!AnswerMatchesRow /\ Six!DuplicateIsOwnMessage)
    BY Six!AnswersCorrect
  <1>9. Six!Spec => Six!HistoryOnlyGrows
    BY Six!HistoryGrows
  <1>10. QED
    BY <1>3, <1>4, <1>5, <1>6, <1>7, <1>8, <1>9, PTL DEF SixPromises

\* The polling is for alimtalk and brand talk, which is what the scheduler's
\* query takes: no text message waits for a poll that never comes, and no
\* accepted Kakao or brand talk message is left out.
PollingIsKakao ==
    \A r \in Requests :
        poll[r] = "WAITING" <=>
          dispatch[r] = "accepted" /\ Six!ServiceOf(r).channel \in {"ALIMTALK", "BRANDTALK"}

\* PollingIsKakao, for any requests, keys, codes and crashes.
THEOREM KakaoIsPolled ==
    ASSUME NoKey \notin Keys, Codes \subseteq Int, NoCode \in Nat \ {0}, MaxCrashes \in Nat
    PROVE  Six!Spec => []PollingIsKakao
  <1>1. \A s \in Six!Services :
          ReplyHalf[s].polled <=> RequestHalf[s].channel \in {"ALIMTALK", "BRANDTALK"}
    BY ServicesFit
    DEF Names, RequestHalf, ReplyHalf, SmsSend, SmsSchedule, KakaoSend, KakaoSchedule,
        BrandTalkSend, BrandTalkSchedule, SmsSendReply, SmsScheduleReply, KakaoSendReply,
        KakaoScheduleReply, BrandTalkSendReply, BrandTalkScheduleReply
  <1>2. Six!TypeOK /\ Six!TablesAgree => PollingIsKakao
    <2> SUFFICES ASSUME Six!TypeOK, Six!TablesAgree, NEW r \in Requests
                 PROVE  poll[r] = "WAITING" <=>
                          /\ dispatch[r] = "accepted"
                          /\ Six!ServiceOf(r).channel \in {"ALIMTALK", "BRANDTALK"}
      BY DEF PollingIsKakao
    <2>1. input[r].service \in Six!Services
      BY DEF Six!TypeOK, Six!Inputs
    <2>2. QED
      BY <1>1, <2>1 DEF Six!TablesAgree, Six!ReplyOf, Six!ServiceOf
  <1>3. QED
    BY <1>2, SixServices, PTL DEF SixPromises
===============================================================================
