--------------------------- MODULE MCSendDispatch ---------------------------
(* Values for the constants of SendDispatch.                               *)
EXTENDS SendDispatch, SendServices, TLC

CONSTANTS r1, r2, r3, c1, c2, k1

\* The service with the most to go through: a sender check, a gate and polling.
OneServiceName == {"KakaoSend"}

MCServiceAll == RequestHalf
MCReplyAll == ReplyHalf
MCServiceOne == [s \in OneServiceName |-> RequestHalf[s]]
MCReplyOne == [s \in OneServiceName |-> ReplyHalf[s]]

\* One code of each verdict, ...
MCCodesFew == {0, -2}
\* ... and the codes the six services disagree about.
MCCodesAll == {0, -2, -10, -11, -14}

MCNoCode == 999

\* Requests and clients are interchangeable: nothing orders or names them.
MCSymmetry == Permutations(Requests) \union Permutations(Clients)
=============================================================================
