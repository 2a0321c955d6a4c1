--------------------------- MODULE MCMessageServer ---------------------------
(* Values for the constants of MessageServer.                              *)
EXTENDS MessageServer, SendServices, TLC

CONSTANTS r1, r2, r3, c1, k1, k2

\* A reserved alimtalk message and a reserved SMS with one key: whichever
\* creates its row first, the other finds it, at any stage of its life.  A
\* brand talk message with a key of its own.  The first and the last are polled.
MCBodies ==
    [r \in Requests |->
        [service |-> IF r = r1 THEN "KakaoSchedule"
                     ELSE IF r = r2 THEN "SmsSchedule" ELSE "BrandTalkSend",
         client |-> c1, key |-> IF r = r3 THEN k2 ELSE k1]]

MCServices == {MCBodies[r].service : r \in Requests}
MCService == [s \in MCServices |-> RequestHalf[s]]
MCReply == [s \in MCServices |-> ReplyHalf[s]]

\* Clients send their key as ketc1.
MCTag == [r \in Requests |-> MCBodies[r].key]

MCCodes == {0, -2}
MCNoCode == 999

\* Delivered in part.
MCReports == {[total |-> 2, success |-> 1, failed |-> 1]}
=============================================================================
