----------------------------- MODULE SessionBook -----------------------------
(***************************************************************************)
(* What the login sessions promise to whoever holds refresh tokens: a      *)
(* rotation is one step, in which the old token dies and the new one comes *)
(* to life, and before it the old one was found good.  There are no rows   *)
(* that nobody holds, no half of a rotation, no crashes.                   *)
(*                                                                         *)
(* It does not promise that a token is rotated once: what was found good   *)
(* at one moment is acted upon at a later one.  Sessions implements this.  *)
(***************************************************************************)
CONSTANTS Requests, Users, None

VARIABLES
    status,  \* a token is not "NONE" once somebody may hold it
    owner,   \* its user
    next,    \* the token it was last rotated into
    claim,   \* what a request under way was found to have a right to
    active,  \* users in service
    expired  \* tokens past their time, <<"refresh", t>>

vars == <<status, owner, next, claim, active, expired>>
tokens == <<status, owner, next>>

NoClaim == [user |-> None, token |-> None]

Init ==
    /\ status = [t \in Requests |-> "NONE"]
    /\ owner = [t \in Requests |-> None]
    /\ next = [t \in Requests |-> None]
    /\ claim = [r \in Requests |-> NoClaim]
    /\ active = Users
    /\ expired = {}

\* A request is found to have a right to a token for u, in return for t.
Grant(r, u, t) ==
    /\ status[r] = "NONE" /\ claim[r] = NoClaim
    /\ u \in active
    /\ claim' = [claim EXCEPT ![r] = [user |-> u, token |-> t]]
    /\ UNCHANGED <<tokens, active, expired>>

\* By a password, ...
AdmitLogin(r) == \E u \in Users : Grant(r, u, None)

\* ... or by a token that is good, as far as it goes.
AdmitRotation(r) ==
    \E t \in Requests :
        /\ status[t] = "ACTIVE" /\ <<"refresh", t>> \notin expired
        /\ Grant(r, owner[t], t)

\* The right is used: for a new token, and the end of the one it was for.
Use(r) ==
    LET old == claim[r].token IN
    /\ claim[r] # NoClaim
    /\ owner' = [owner EXCEPT ![r] = claim[r].user]
    /\ status' = [t \in Requests |-> IF t = r THEN "ACTIVE"
                                     ELSE IF t = old THEN "REVOKED" ELSE status[t]]
    /\ next' = [t \in Requests |-> IF t = old THEN r ELSE next[t]]
    /\ claim' = [claim EXCEPT ![r] = NoClaim]
    /\ UNCHANGED <<active, expired>>

\* Or it comes to nothing, alone or with others.
Forget ==
    /\ \E gone \in SUBSET Requests :
         claim' = [r \in Requests |-> IF r \in gone THEN NoClaim ELSE claim[r]]
    /\ UNCHANGED <<tokens, active, expired>>

Logout(t) ==
    /\ status[t] = "ACTIVE"
    /\ status' = [status EXCEPT ![t] = "REVOKED"]
    /\ UNCHANGED <<owner, next, claim, active, expired>>

Expire(what, t) ==
    /\ expired' = expired \union {<<what, t>>}
    /\ UNCHANGED <<tokens, claim, active>>

Deactivate(u) ==
    /\ active' = active \ {u}
    /\ UNCHANGED <<tokens, claim, expired>>

Next ==
    \/ \E t \in Requests : Expire("access", t) \/ Expire("refresh", t)
    \/ \E u \in Users : Deactivate(u)
    \/ Forget
    \/ \E r \in Requests : AdmitLogin(r) \/ AdmitRotation(r) \/ Use(r) \/ Logout(r)

Spec == Init /\ [][Next]_vars
=============================================================================
