------------------------------- MODULE Sessions -------------------------------
(***************************************************************************)
(* The login sessions of the operators' web page: login, refresh (which    *)
(* rotates the refresh token), logout and the requests that carry an       *)
(* access token, over the tables ClientUser and ClientRefreshToken.        *)
(*                                                                         *)
(* A handler is cut at its awaits, each of which may throw, and the server *)
(* may die at each of them.  A browser keeps one refresh token, in a       *)
(* cookie, sends what it has when it asks, and gets answers late, in any   *)
(* order, or never.                                                        *)
(*                                                                         *)
(* A request creates at most one refresh token, so a token is named after  *)
(* the request that creates it, and so is the access token that goes with  *)
(* it.  A token is a signed text with a random jti: nobody makes up one,   *)
(* and the hash that is stored stands for it.                              *)
(***************************************************************************)
EXTENDS Integers

CONSTANTS
    Requests,   \* HTTP requests the browsers make
    Browsers,
    Users,      \* ClientUser rows
    None,       \* no token, no user
    MaxCrashes  \* bound: how often the server process dies

ASSUME NoneAssumption == None \notin Requests \union Users
ASSUME CrashAssumption == MaxCrashes \in Nat

VARIABLES
    \* the handlers, in memory, and what they were asked
    pc,         \* where the handler of a request is
    asked,      \* kind of request, browser, user it speaks for, token it carries
    \* the database
    status,     \* ClientRefreshToken.status, "NONE" before there is a row
    owner,      \* ClientRefreshToken.clientUserId
    next,       \* ClientRefreshToken.replacedById
    lastLogin,  \* the login that wrote ClientUser.lastLoginAt last
    active,     \* users who are ACTIVE, and whose client is
    \* time
    expired,    \* <<"access" or "refresh", t>>: tokens that have expired
    \* the browsers
    cookie,     \* the refresh token a browser keeps
    answer,     \* what a request was answered
    crashes,
    \* history: the token or the user was no good when the request was made
    doomed

memory == <<pc, asked>>
tokens == <<status, owner, next>>
outside == <<active, expired, crashes, doomed>>
vars == <<pc, asked, status, owner, next, lastLogin, active, expired, cookie, answer,
          crashes, doomed>>

Kinds == {"login", "refresh", "logout", "me"}
Waiting == {"sent", "read", "create", "revoke", "show"}
Places == Waiting \union {"new", "done", "delivered", "crashed"}
Asked == [kind: Kinds \union {"none"}, browser: Browsers \union {None},
          user: Users \union {None}, token: Requests \union {None}]
Nothing == [kind |-> "none", browser |-> None, user |-> None, token |-> None]

Exists(t) == status[t] # "NONE"
Lapsed(what, t) == <<what, t>> \in expired
Kind(r) == asked[r].kind
Token(r) == asked[r].token
User(r) == asked[r].user

\* The user a token names in its payload.
Payload(t) == IF t = None THEN None ELSE User(t)

Init ==
    /\ pc = [r \in Requests |-> "new"]
    /\ asked = [r \in Requests |-> Nothing]
    /\ status = [t \in Requests |-> "NONE"]
    /\ owner = [t \in Requests |-> None]
    /\ next = [t \in Requests |-> None]
    /\ lastLogin = [u \in Users |-> None]
    /\ active = Users
    /\ expired = {}
    /\ cookie = [b \in Browsers |-> None]
    /\ answer = [r \in Requests |-> "none"]
    /\ crashes = 0
    /\ doomed = {}

-----------------------------------------------------------------------------
(* The browsers and the world.                                             *)

\* What a browser may send along: a user's name and password, its cookie
\* unless that has expired, or an access token it was given.
Carried(k, b) ==
    IF k = "login" THEN {None}
    ELSE IF k = "me" THEN {t \in Requests : answer[t] = "granted" /\ asked[t].browser = b}
    ELSE {cookie[b]} \union (IF Lapsed("refresh", cookie[b]) THEN {None} ELSE {})

\* Whether a request with t for u can no longer be granted anything.
Dead(k, u, t) ==
    \/ u \notin active
    \/ k = "refresh" /\ (Lapsed("refresh", t) \/ status[t] = "REVOKED")
    \/ k = "me" /\ Lapsed("access", t)

Ask(r, k, b) ==
    /\ pc[r] = "new"
    /\ \E t \in Carried(k, b), u \in Users \union {None} :
         /\ IF k = "login" THEN u # None ELSE u = Payload(t)
         /\ asked' = [asked EXCEPT ![r] = [kind |-> k, browser |-> b,
                                           user |-> u, token |-> t]]
         /\ doomed' = IF Dead(k, u, t) THEN doomed \union {r} ELSE doomed
    /\ pc' = [pc EXCEPT ![r] = "sent"]
    /\ UNCHANGED <<tokens, lastLogin, active, expired, cookie, answer, crashes>>

\* An answer that sets or clears the cookie arrives.
Deliver(r) ==
    /\ pc[r] = "done"
    /\ answer[r] \in {"granted", "loggedOut", "noCookie"}
    /\ pc' = [pc EXCEPT ![r] = "delivered"]
    /\ cookie' = [cookie EXCEPT ![asked[r].browser] =
                     IF answer[r] = "granted" THEN r ELSE None]
    /\ UNCHANGED <<asked, tokens, lastLogin, answer, outside>>

\* A token expires; an access token nobody has been given expires unnoticed, and
\* its time is left out until then.
Expire(what, t) ==
    /\ Exists(t) /\ ~Lapsed(what, t)
    /\ what = "access" => answer[t] = "granted"
    /\ expired' = expired \union {<<what, t>>}
    /\ UNCHANGED <<memory, tokens, lastLogin, active, cookie, answer, crashes, doomed>>

\* Somebody takes a user or its client out of service, in the database: no
\* code does.
Deactivate(u) ==
    /\ u \in active
    /\ active' = active \ {u}
    /\ UNCHANGED <<memory, tokens, lastLogin, expired, cookie, answer, crashes, doomed>>

-----------------------------------------------------------------------------
(* The handlers.                                                           *)

Goto(r, from, to) ==
    /\ pc[r] = from
    /\ pc' = [pc EXCEPT ![r] = to]
    /\ UNCHANGED answer

Finish(r, from, what) ==
    /\ pc[r] = from
    /\ pc' = [pc EXCEPT ![r] = "done"]
    /\ answer' = [answer EXCEPT ![r] = what]

\* The rest stays as it is: nothing but memory and answers changes.
OnlyControl == UNCHANGED <<asked, tokens, lastLogin, cookie, outside>>

Insert(r, u) ==
    /\ status' = [status EXCEPT ![r] = "ACTIVE"]
    /\ owner' = [owner EXCEPT ![r] = u]

\* loginClientUser: the user is there, in service, and the password right;
LoginReads(r) ==
    /\ Kind(r) = "login"
    /\ User(r) \in active
    /\ Goto(r, "sent", "create")
    /\ OnlyControl

\* or the body, the account or the password is wrong, or the user inactive.
LoginRefused(r) ==
    /\ Kind(r) = "login"
    /\ Finish(r, "sent", "refused")
    /\ OnlyControl

\* Mutant: lastLoginAt first, the token in a statement of its own.
LoginCreates_TwoSteps(r) ==
    /\ Kind(r) = "login"
    /\ pc[r] = "create"
    /\ lastLogin' = [lastLogin EXCEPT ![User(r)] = r]
    /\ IF lastLogin[User(r)] = r
       THEN Insert(r, User(r)) /\ Finish(r, "create", "granted")
       ELSE UNCHANGED <<status, owner, pc, answer>>
    /\ UNCHANGED <<asked, next, cookie, outside>>

\* One transaction: lastLoginAt and the new token.
LoginCreates(r) ==
    /\ Kind(r) = "login"
    /\ Finish(r, "create", "granted")
    /\ lastLogin' = [lastLogin EXCEPT ![User(r)] = r]
    /\ Insert(r, User(r))
    /\ UNCHANGED <<asked, next, cookie, outside>>

\* No cookie: 401, and the answer clears it.
RefreshWithoutCookie(r) ==
    /\ Kind(r) = "refresh" /\ Token(r) = None
    /\ Finish(r, "sent", "noCookie")
    /\ OnlyControl

\* verifySignedToken: the signature is the server's; exp decides.
RefreshVerifies(r) ==
    /\ Kind(r) = "refresh" /\ Token(r) # None
    /\ IF Lapsed("refresh", Token(r)) THEN Finish(r, "sent", "refused")
                                      ELSE Goto(r, "sent", "read")
    /\ OnlyControl

\* The row a refresh has read is good: in time, not revoked, of the user the
\* token names, who is in service.
Usable(r) ==
    LET t == Token(r) IN
    /\ Exists(t)
    /\ ~Lapsed("refresh", t)
    /\ status[t] = "ACTIVE"
    /\ owner[t] = User(r)
    /\ owner[t] \in active

\* Mutant: a row found expired is marked EXPIRED, though it may be revoked.
RefreshReads_MarksExpired(r) ==
    /\ Kind(r) = "refresh"
    /\ pc[r] = "read"
    /\ IF Usable(r) THEN Goto(r, "read", "create") ELSE Finish(r, "read", "refused")
    /\ status' = IF Lapsed("refresh", Token(r))
                 THEN [status EXCEPT ![Token(r)] = "EXPIRED"] ELSE status
    /\ UNCHANGED <<asked, owner, next, lastLogin, cookie, outside>>

\* Mutant: the status of the row is not looked at.
RefreshReads_AnyStatus(r) ==
    /\ Kind(r) = "refresh"
    /\ pc[r] = "read"
    /\ IF Exists(Token(r)) /\ ~Lapsed("refresh", Token(r)) /\ User(r) \in active
       THEN Goto(r, "read", "create") ELSE Finish(r, "read", "refused")
    /\ OnlyControl

RefreshReads(r) ==
    /\ Kind(r) = "refresh"
    /\ pc[r] = "read"
    /\ IF Usable(r) THEN Goto(r, "read", "create") ELSE Finish(r, "read", "refused")
    /\ OnlyControl

\* Mutant: the answer does not wait for the old token to be revoked.
RefreshCreates_Answers(r) ==
    /\ Kind(r) = "refresh"
    /\ Finish(r, "create", "granted")
    /\ Insert(r, owner[Token(r)])
    /\ UNCHANGED <<asked, next, lastLogin, cookie, outside>>

\* The new token is inserted, whatever has become of the old one since, ...
RefreshCreates(r) ==
    /\ Kind(r) = "refresh"
    /\ Goto(r, "create", "revoke")
    /\ Insert(r, owner[Token(r)])
    /\ UNCHANGED <<asked, next, lastLogin, cookie, outside>>

\* Mutant: the old token is given its successor and left in service.
RefreshRevokes_KeepsOld(r) ==
    /\ Kind(r) = "refresh"
    /\ Finish(r, "revoke", "granted")
    /\ status' = [status EXCEPT ![Token(r)] = "ACTIVE"]
    /\ next' = [next EXCEPT ![Token(r)] = r]
    /\ UNCHANGED <<asked, owner, lastLogin, cookie, outside>>

\* ... and the old one revoked, whatever its status, in favour of the new.
RefreshRevokes(r) ==
    /\ Kind(r) = "refresh"
    /\ Finish(r, "revoke", "granted")
    /\ status' = [status EXCEPT ![Token(r)] = "REVOKED"]
    /\ next' = [next EXCEPT ![Token(r)] = r]
    /\ UNCHANGED <<asked, owner, lastLogin, cookie, outside>>

\* Mutant: the success is sent without waiting for the update.
LogoutRevokes_Unconfirmed(r) ==
    /\ Kind(r) = "logout"
    /\ Finish(r, "sent", "loggedOut")
    /\ \/ /\ Token(r) # None
          /\ status' = [status EXCEPT ![Token(r)] = "REVOKED"]
       \/ UNCHANGED status
    /\ UNCHANGED <<asked, owner, next, lastLogin, cookie, outside>>

\* logoutClientUser: a token that is ACTIVE is revoked, any other left alone.
LogoutRevokes(r) ==
    /\ Kind(r) = "logout"
    /\ Finish(r, "sent", "loggedOut")
    /\ status' = IF Token(r) # None /\ status[Token(r)] = "ACTIVE"
                 THEN [status EXCEPT ![Token(r)] = "REVOKED"] ELSE status
    /\ UNCHANGED <<asked, owner, next, lastLogin, cookie, outside>>

\* clientUserAuth: a valid access token of a user in service, ...
MeAuthenticates(r) ==
    /\ Kind(r) = "me"
    /\ ~Lapsed("access", Token(r))
    /\ User(r) \in active
    /\ Goto(r, "sent", "show")
    /\ OnlyControl

\* ... or 401; an exception is caught, and is 401 too.
MeRefused(r) ==
    /\ Kind(r) = "me"
    /\ Finish(r, "sent", "refused")
    /\ OnlyControl

\* getClientUserMe: the user is read again, in service or not.
MeShows(r) ==
    /\ Kind(r) = "me"
    /\ Finish(r, "show", "shown")
    /\ OnlyControl

\* A query fails: 500, and the cookie is left alone.
Throws(r) ==
    /\ \E from \in Waiting :
         /\ Finish(r, from, "error")
         /\ from = "sent" => Kind(r) \in {"login", "logout"}
    /\ Kind(r) = "logout" => Token(r) # None
    /\ OnlyControl

\* The server dies and is restarted.  With no request at work that changes
\* nothing, and is left out.
Crash ==
    /\ crashes < MaxCrashes
    /\ \E r \in Requests : pc[r] \in Waiting
    /\ crashes' = crashes + 1
    /\ pc' = [r \in Requests |-> IF pc[r] \in Waiting THEN "crashed" ELSE pc[r]]
    /\ UNCHANGED <<asked, tokens, lastLogin, active, expired, cookie, answer, doomed>>

-----------------------------------------------------------------------------
Handler(r) ==
    \/ LoginReads(r) \/ LoginRefused(r) \/ LoginCreates(r)
    \/ RefreshWithoutCookie(r) \/ RefreshVerifies(r)
    \/ RefreshReads(r) \/ RefreshCreates(r) \/ RefreshRevokes(r)
    \/ LogoutRevokes(r)
    \/ MeAuthenticates(r) \/ MeRefused(r) \/ MeShows(r)
    \/ Throws(r)

Next ==
    \/ \E r \in Requests :
         \/ \E k \in Kinds, b \in Browsers : Ask(r, k, b)
         \/ Handler(r)
         \/ Deliver(r)
         \/ Expire("access", r) \/ Expire("refresh", r)
    \/ \E u \in Users : Deactivate(u)
    \/ Crash

Spec == Init /\ [][Next]_vars

-----------------------------------------------------------------------------
(* What has to hold.                                                       *)

\* The variables have the values the code and the schema allow.
TypeOK ==
    /\ pc \in [Requests -> Places]
    /\ asked \in [Requests -> Asked]
    /\ status \in [Requests -> {"NONE", "ACTIVE", "REVOKED"}]
    /\ owner \in [Requests -> Users \union {None}]
    /\ next \in [Requests -> Requests \union {None}]
    /\ lastLogin \in [Users -> Requests \union {None}]
    /\ active \subseteq Users
    /\ expired \subseteq {"access", "refresh"} \X Requests
    /\ cookie \in [Browsers -> Requests \union {None}]
    /\ answer \in [Requests -> {"none", "granted", "refused", "noCookie", "loggedOut",
                                "shown", "error"}]
    /\ crashes \in 0 .. MaxCrashes
    /\ doomed \subseteq Requests

\* A rotation that was cut short after its insert.
CutShort(r) == pc[r] = "crashed" \/ answer[r] = "error"

\* A successor is of the same user as the token it was got for, and that
\* token is revoked, unless its rotation is on its way, or was cut short,
\* between the two statements.
SuccessorReplaces(n) ==
    LET t == Token(n) IN
    /\ t # None /\ owner[n] = owner[t]
    /\ \/ status[t] = "REVOKED" /\ next[t] # None
       \/ pc[n] = "revoke" \/ CutShort(n)

\* Rotations tell the truth: a successor replaces its token, and replacedById
\* leads from a revoked token to one that was got for it.
RotationsAreTrue ==
    /\ \A n \in Requests : Exists(n) /\ Kind(n) = "refresh" => SuccessorReplaces(n)
    /\ \A t \in Requests : next[t] # None =>
         /\ status[t] = "REVOKED"
         /\ Exists(next[t]) /\ Token(next[t]) = t

\* A request that was made with a revoked or expired token, or for a user
\* already out of service, is granted and shown nothing, though each is
\* looked at once, steps before the answer.
NothingForTheDead ==
    \A r \in doomed : answer[r] \notin {"granted", "shown"}

\* What a browser was told is so in the tables: a login or a rotation it was
\* granted has its token, of its user; a refusal has left nothing; a browser
\* that was logged out cannot refresh with what it had; and what it keeps is
\* its own.
AnswersAreTrue ==
    /\ \A r \in Requests :
         /\ answer[r] = "granted" => Exists(r) /\ owner[r] = User(r)
         /\ answer[r] \in {"refused", "noCookie"} => ~Exists(r)
         /\ answer[r] = "loggedOut" /\ Token(r) # None => status[Token(r)] = "REVOKED"
    /\ \A b \in Browsers : cookie[b] # None =>
         answer[cookie[b]] = "granted" /\ asked[cookie[b]].browser = b

\* lastLoginAt and the token of a login are there together or not at all.
LoginIsWhole ==
    /\ \A u \in Users : lastLogin[u] # None =>
         Exists(lastLogin[u]) /\ owner[lastLogin[u]] = u
    /\ \A t \in Requests : Exists(t) => lastLogin[owner[t]] # None

\* A token is created for a user and revoked for good.
TokenLife ==
    [][\A t \in Requests : Exists(t) =>
          /\ owner'[t] = owner[t]
          /\ status[t] = "REVOKED" => status'[t] = "REVOKED"
          /\ status'[t] # "NONE"]_vars

-----------------------------------------------------------------------------
(* What whoever holds tokens may rely on.                                  *)

\* A token is seen when it has been granted: a row that a rotation has
\* inserted and not yet answered with, or never will, is nobody's.
Seen(t) == answer[t] = "granted"
SeenStatus == [t \in Requests |-> IF Seen(t) THEN status[t] ELSE "NONE"]
SeenOwner == [t \in Requests |-> IF Seen(t) THEN owner[t] ELSE None]

\* A request that has passed its check.
Claim ==
    [r \in Requests |-> IF pc[r] \in {"create", "revoke"}
                        THEN [user |-> User(r), token |-> Token(r)]
                        ELSE [user |-> None, token |-> None]]

\* As far as the holders of tokens can tell, a rotation is one step, wherever
\* it is cut short, and begins with a token that was good.
Book == INSTANCE SessionBook WITH
    status <- SeenStatus, owner <- SeenOwner, claim <- Claim
RotationsAreAtomic == Book!Spec
=============================================================================
