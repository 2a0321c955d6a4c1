---------------------------- MODULE SendServices ----------------------------
(***************************************************************************)
(* The six send services of src/api/v1/client are one handler written six  *)
(* times.  What differs between them is a handful of constants, gathered   *)
(* here: one record for the half that checks a request and creates the     *)
(* message, one for the half that records what the provider answered.      *)
(* SendDispatch is the handler itself.                                     *)
(*                                                                         *)
(*   channel       the messageType written in the row; SMS and LMS take    *)
(*                 the same path and are one channel, "TEXT"               *)
(*   reserved      a row born SCHEDULED with sendType SCHEDULED, or born   *)
(*                 PENDING with sendType NOW                               *)
(*   checksSender  the sender number has to be the client's senderPhone    *)
(*   gate          what has to be registered and active for the client     *)
(*   onAccept      status and event written for ResCd = 0                  *)
(*   polled        the acceptance puts the row in the delivery polling     *)
(*   fatal         the ResCd values that are not retried                   *)
(***************************************************************************)
EXTENDS Integers

SmsSend ==
    [channel |-> "TEXT", reserved |-> FALSE, checksSender |-> TRUE, gate |-> "none"]
SmsSendFatal == {-2, -4, -5, -6, -7, -8, -9, -14}
SmsSendReply ==
    [onAccept |-> "ACCEPTED", polled |-> FALSE, fatal |-> SmsSendFatal]

\* The only service that does not compare the sender number.
SmsSchedule ==
    [channel |-> "TEXT", reserved |-> TRUE, checksSender |-> FALSE, gate |-> "none"]
SmsScheduleFatal == {-2, -4, -5, -6, -7, -8, -9, -10, -14}
\* An accepted reservation goes back to SCHEDULED.
SmsScheduleReply ==
    [onAccept |-> "SCHEDULED", polled |-> FALSE, fatal |-> SmsScheduleFatal]

KakaoSend ==
    [channel |-> "ALIMTALK", reserved |-> FALSE, checksSender |-> TRUE, gate |-> "template"]
KakaoSendFatal == {-2, -4, -5, -6, -7, -8, -9, -10}
KakaoSendReply ==
    [onAccept |-> "ACCEPTED", polled |-> TRUE, fatal |-> KakaoSendFatal]

\* Unlike KakaoSend, the reservation does not look at the template.
KakaoSchedule ==
    [channel |-> "ALIMTALK", reserved |-> TRUE, checksSender |-> TRUE, gate |-> "none"]
KakaoScheduleFatal == {-2, -4, -5, -6, -7, -8, -9, -10, -11}
KakaoScheduleReply ==
    [onAccept |-> "ACCEPTED", polled |-> TRUE, fatal |-> KakaoScheduleFatal]

BrandTalkSend ==
    [channel |-> "BRANDTALK", reserved |-> FALSE, checksSender |-> TRUE, gate |-> "profile"]
BrandTalkSendFatal == {-2, -4, -5, -6, -7, -8, -9, -14}
BrandTalkSendReply ==
    [onAccept |-> "ACCEPTED", polled |-> TRUE, fatal |-> BrandTalkSendFatal]

BrandTalkSchedule ==
    [channel |-> "BRANDTALK", reserved |-> TRUE, checksSender |-> TRUE, gate |-> "profile"]
BrandTalkScheduleFatal == {-2, -4, -5, -6, -7, -8, -9, -11, -14}
BrandTalkScheduleReply ==
    [onAccept |-> "ACCEPTED", polled |-> TRUE, fatal |-> BrandTalkScheduleFatal]

RequestHalf ==
    [SmsSend |-> SmsSend, SmsSchedule |-> SmsSchedule,
     KakaoSend |-> KakaoSend, KakaoSchedule |-> KakaoSchedule,
     BrandTalkSend |-> BrandTalkSend, BrandTalkSchedule |-> BrandTalkSchedule]

ReplyHalf ==
    [SmsSend |-> SmsSendReply, SmsSchedule |-> SmsScheduleReply,
     KakaoSend |-> KakaoSendReply, KakaoSchedule |-> KakaoScheduleReply,
     BrandTalkSend |-> BrandTalkSendReply,
     BrandTalkSchedule |-> BrandTalkScheduleReply]
=============================================================================
