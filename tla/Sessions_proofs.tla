--------------------------- MODULE Sessions_proofs ---------------------------
(***************************************************************************)
(* Proofs about Sessions, for any sets of requests, browsers and users and *)
(* any number of crashes: one inductive invariant, Inv, and what follows.  *)
(***************************************************************************)
EXTENDS Sessions, TLAPS

(***************************************************************************)
(* The inductive invariant.                                                *)
(***************************************************************************)

\* Where a handler is says what it is and what it has done.
Control == \A r \in Requests :
    /\ pc[r] = "new" => r \notin doomed
    /\ pc[r] = "read" => Kind(r) = "refresh"
    /\ pc[r] = "create" => Kind(r) \in {"login", "refresh"}
    /\ pc[r] = "revoke" => Kind(r) = "refresh" /\ Exists(r)
    /\ pc[r] = "show" => Kind(r) = "me"
    /\ answer[r] = "none" <=> pc[r] \notin {"done", "delivered"}

\* A token is created late, for the user the request speaks for.
Created == \A r \in Requests : Exists(r) =>
    /\ pc[r] \notin {"new", "sent", "read", "create"}
    /\ Kind(r) \in {"login", "refresh"}
    /\ User(r) \in Users
    /\ owner[r] = User(r)
    /\ lastLogin[User(r)] # None

\* The token a request carries is there, another than its own, and of the
\* user it speaks for; a request that goes on has one.
Carries == \A r \in Requests :
    /\ Token(r) # None =>
         /\ Exists(Token(r)) /\ Token(r) # r
         /\ User(r) = User(Token(r))
         /\ pc[r] # "new"
    /\ Kind(r) = "refresh" /\ Token(r) = None =>
         /\ User(r) = None
         /\ ~Exists(r) /\ pc[r] \notin {"read", "create", "revoke"}
    /\ Kind(r) = "login" => User(r) \in Users

\* What an answer says of the tables.
Told == \A r \in Requests :
    /\ answer[r] = "granted" => Exists(r)
    /\ answer[r] = "loggedOut" /\ Token(r) # None => status[Token(r)] = "REVOKED"
    /\ answer[r] \in {"refused", "noCookie"} => ~Exists(r)

\* A rotation has revoked its token, is about to, or was cut short.
Rotated ==
    /\ \A r \in Requests : Exists(r) /\ Kind(r) = "refresh" =>
         \/ status[Token(r)] = "REVOKED" /\ next[Token(r)] # None
         \/ pc[r] = "revoke" \/ CutShort(r)
    /\ \A t \in Requests : next[t] # None =>
         status[t] = "REVOKED" /\ Exists(next[t]) /\ Token(next[t]) = t

\* The cookies of a browser are its own.
Kept == \A b \in Browsers : cookie[b] # None =>
    answer[cookie[b]] = "granted" /\ asked[cookie[b]].browser = b

\* A login's transaction leaves both of its rows.
LoggedIn == \A u \in Users : lastLogin[u] # None =>
    Exists(lastLogin[u]) /\ User(lastLogin[u]) = u

\* What was dead when it was asked for stays so, and gets nowhere.
Doomed == \A r \in doomed :
    /\ Dead(Kind(r), User(r), Token(r))
    /\ pc[r] \notin {"create", "revoke", "show"}
    /\ answer[r] \notin {"granted", "shown"}

Inv == TypeOK /\ Control /\ Created /\ Carries /\ Told /\ Rotated /\ Kept /\ LoggedIn /\ Doomed

(***************************************************************************)
(* Every step keeps it.  Each lemma is about the handlers of one endpoint, *)
(* or about the world around them.                                         *)
(***************************************************************************)

\* A login.
LEMMA LoginKeeps ==
  ASSUME Inv, NEW r \in Requests, LoginReads(r) \/ LoginRefused(r) \/ LoginCreates(r)
  PROVE  Inv'
  <1> USE DEF Inv, TypeOK, tokens, outside, OnlyControl, Kind, Token, User, Exists, Asked,
              Waiting, Places, Lapsed
  <1>1. CASE LoginReads(r)
    <2>1. TypeOK' /\ Control' /\ Created' /\ Carries'
      BY <1>1 DEF LoginReads, Goto, Control, Created, Carries
    <2>2. Told' /\ Rotated' /\ Kept' /\ LoggedIn'
      BY <1>1 DEF LoginReads, Goto, Control, Created, Told, Rotated, CutShort, Kept,
         LoggedIn
    <2>3. Doomed'
      BY <1>1 DEF LoginReads, Goto, Carries, Doomed, Dead
    <2>4. QED
      BY <2>1, <2>2, <2>3
  <1>2. CASE LoginRefused(r)
    <2>1. TypeOK' /\ Control' /\ Created' /\ Carries'
      BY <1>2 DEF LoginRefused, Finish, Control, Created, Carries
    <2>2. Told' /\ Rotated' /\ Kept' /\ LoggedIn'
      BY <1>2 DEF LoginRefused, Finish, Control, Created, Told, Rotated, CutShort, Kept,
         LoggedIn
    <2>3. Doomed'
      BY <1>2 DEF LoginRefused, Finish, Carries, Doomed, Dead
    <2>4. QED
      BY <2>1, <2>2, <2>3
  <1>3. CASE LoginCreates(r)
    <2>1. TypeOK' /\ Control'
      BY <1>3 DEF LoginCreates, Finish, Insert, Control, Created, Carries
    <2>2. Created' /\ Carries'
      BY <1>3, NoneAssumption DEF LoginCreates, Finish, Insert, Control, Created, Carries
    <2>3. Told' /\ Kept' /\ LoggedIn'
      BY <1>3 DEF LoginCreates, Finish, Insert, Control, Created, Carries, Told, Kept,
         LoggedIn
    <2>4. Rotated'
      BY <1>3 DEF LoginCreates, Finish, Insert, Control, Created, Carries, Rotated, CutShort
    <2>5. Doomed'
      BY <1>3 DEF LoginCreates, Finish, Insert, Control, Created, Carries, Doomed, Dead
    <2>6. QED
      BY <2>1, <2>2, <2>3, <2>4, <2>5
  <1>4. QED
    BY <1>1, <1>2, <1>3

\* A refresh.
LEMMA RefreshKeeps ==
  ASSUME Inv, NEW r \in Requests,
         \/ RefreshWithoutCookie(r)
         \/ RefreshVerifies(r)
         \/ RefreshReads(r)
         \/ RefreshCreates(r)
         \/ RefreshRevokes(r)
  PROVE  Inv'
  <1> USE DEF Inv, TypeOK, tokens, outside, OnlyControl, Kind, Token, User, Exists, Asked,
              Waiting, Places, Lapsed
  <1>1. CASE RefreshWithoutCookie(r)
    <2>1. TypeOK' /\ Control' /\ Created' /\ Carries'
      BY <1>1 DEF RefreshWithoutCookie, Finish, Control, Created, Carries
    <2>2. Told' /\ Rotated' /\ Kept' /\ LoggedIn'
      BY <1>1 DEF RefreshWithoutCookie, Finish, Control, Created, Told, Rotated, CutShort,
         Kept, LoggedIn
    <2>3. Doomed'
      BY <1>1 DEF RefreshWithoutCookie, Finish, Carries, Doomed, Dead
    <2>4. QED
      BY <2>1, <2>2, <2>3
  <1>2. CASE RefreshVerifies(r)
    <2>1. CASE Finish(r, "sent", "refused")
      <3>1. TypeOK' /\ Control' /\ Created' /\ Carries'
        BY <1>2, <2>1 DEF RefreshVerifies, Finish, Control, Created, Carries
      <3>2. Told' /\ Rotated' /\ Kept' /\ LoggedIn'
        BY <1>2, <2>1 DEF RefreshVerifies, Finish, Control, Created, Told, Rotated,
           CutShort, Kept, LoggedIn
      <3>3. Doomed'
        BY <1>2, <2>1 DEF RefreshVerifies, Finish, Carries, Doomed, Dead
      <3>4. QED
        BY <3>1, <3>2, <3>3
    <2>2. CASE Goto(r, "sent", "read")
      <3>1. TypeOK' /\ Control' /\ Created' /\ Carries'
        BY <1>2, <2>2 DEF RefreshVerifies, Goto, Control, Created, Carries
      <3>2. Told' /\ Rotated' /\ Kept' /\ LoggedIn'
        BY <1>2, <2>2 DEF RefreshVerifies, Goto, Control, Created, Told, Rotated, CutShort,
           Kept, LoggedIn
      <3>3. Doomed'
        BY <1>2, <2>2 DEF RefreshVerifies, Goto, Carries, Doomed, Dead
      <3>4. QED
        BY <3>1, <3>2, <3>3
    <2>3. QED
      BY <1>2, <2>1, <2>2 DEF RefreshVerifies
  <1>3. CASE RefreshReads(r)
    <2>1. TypeOK' /\ Control' /\ Created' /\ Carries'
      BY <1>3 DEF RefreshReads, Goto, Finish, Usable, Control, Created, Carries
    <2>2. Told' /\ Rotated' /\ Kept' /\ LoggedIn'
      BY <1>3 DEF RefreshReads, Goto, Finish, Usable, Control, Created, Told, Rotated,
         CutShort, Kept, LoggedIn
    <2>3. Doomed'
      BY <1>3 DEF RefreshReads, Goto, Finish, Usable, Carries, Doomed, Dead
    <2>4. QED
      BY <2>1, <2>2, <2>3
  <1>4. CASE RefreshCreates(r)
    <2>1. TypeOK' /\ Control'
      BY <1>4 DEF RefreshCreates, Goto, Insert, Control, Created, Carries
    <2>2. Created' /\ Carries'
      BY <1>4 DEF RefreshCreates, Goto, Insert, Control, Created, Carries
    <2>3. Told' /\ Kept' /\ LoggedIn'
      BY <1>4 DEF RefreshCreates, Goto, Insert, Control, Created, Carries, Told, Kept,
         LoggedIn
    <2>4. Rotated'
      BY <1>4 DEF RefreshCreates, Goto, Insert, Control, Created, Carries, Rotated, CutShort
    <2>5. Doomed'
      BY <1>4 DEF RefreshCreates, Goto, Insert, Control, Created, Carries, Doomed, Dead
    <2>6. QED
      BY <2>1, <2>2, <2>3, <2>4, <2>5
  <1>5. CASE RefreshRevokes(r)
    <2>1. TypeOK' /\ Control'
      BY <1>5 DEF RefreshRevokes, Finish, Control, Created, Carries
    <2>2. Created' /\ Carries'
      BY <1>5 DEF RefreshRevokes, Finish, Control, Created, Carries
    <2>3. Told' /\ Kept' /\ LoggedIn'
      BY <1>5 DEF RefreshRevokes, Finish, Control, Created, Carries, Told, Kept, LoggedIn
    <2>4. Rotated'
      BY <1>5, NoneAssumption DEF RefreshRevokes, Finish, Control, Created, Carries,
         Rotated, CutShort
    <2>5. Doomed'
      BY <1>5 DEF RefreshRevokes, Finish, Control, Created, Carries, Doomed, Dead
    <2>6. QED
      BY <2>1, <2>2, <2>3, <2>4, <2>5
  <1>6. QED
    BY <1>1, <1>2, <1>3, <1>4, <1>5

\* A logout.
LEMMA LogoutKeeps ==
  ASSUME Inv, NEW r \in Requests, LogoutRevokes(r)
  PROVE  Inv'
  <1> USE DEF Inv, TypeOK, tokens, outside, OnlyControl, Kind, Token, User, Exists, Asked,
              Waiting, Places, Lapsed
  <1>1. CASE LogoutRevokes(r)
    <2>1. TypeOK' /\ Control'
      BY <1>1 DEF LogoutRevokes, Finish, Control, Created, Carries
    <2>2. Created' /\ Carries'
      BY <1>1 DEF LogoutRevokes, Finish, Control, Created, Carries
    <2>3. Told' /\ Kept' /\ LoggedIn'
      BY <1>1 DEF LogoutRevokes, Finish, Control, Created, Carries, Told, Kept, LoggedIn
    <2>4. Rotated'
      BY <1>1 DEF LogoutRevokes, Finish, Control, Created, Carries, Rotated, CutShort
    <2>5. Doomed'
      BY <1>1 DEF LogoutRevokes, Finish, Control, Created, Carries, Doomed, Dead
    <2>6. QED
      BY <2>1, <2>2, <2>3, <2>4, <2>5
  <1>2. QED
    BY <1>1

\* A request with an access token.
LEMMA MeKeeps ==
  ASSUME Inv, NEW r \in Requests, MeAuthenticates(r) \/ MeRefused(r) \/ MeShows(r)
  PROVE  Inv'
  <1> USE DEF Inv, TypeOK, tokens, outside, OnlyControl, Kind, Token, User, Exists, Asked,
              Waiting, Places, Lapsed
  <1>1. CASE MeAuthenticates(r)
    <2>1. TypeOK' /\ Control' /\ Created' /\ Carries'
      BY <1>1 DEF MeAuthenticates, Goto, Control, Created, Carries
    <2>2. Told' /\ Rotated' /\ Kept' /\ LoggedIn'
      BY <1>1 DEF MeAuthenticates, Goto, Control, Created, Told, Rotated, CutShort, Kept,
         LoggedIn
    <2>3. Doomed'
      BY <1>1 DEF MeAuthenticates, Goto, Carries, Doomed, Dead
    <2>4. QED
      BY <2>1, <2>2, <2>3
  <1>2. CASE MeRefused(r)
    <2>1. TypeOK' /\ Control' /\ Created' /\ Carries'
      BY <1>2 DEF MeRefused, Finish, Control, Created, Carries
    <2>2. Told' /\ Rotated' /\ Kept' /\ LoggedIn'
      BY <1>2 DEF MeRefused, Finish, Control, Created, Told, Rotated, CutShort, Kept,
         LoggedIn
    <2>3. Doomed'
      BY <1>2 DEF MeRefused, Finish, Carries, Doomed, Dead
    <2>4. QED
      BY <2>1, <2>2, <2>3
  <1>3. CASE MeShows(r)
    <2>1. TypeOK' /\ Control' /\ Created' /\ Carries'
      BY <1>3 DEF MeShows, Finish, Control, Created, Carries
    <2>2. Told' /\ Rotated' /\ Kept' /\ LoggedIn'
      BY <1>3 DEF MeShows, Finish, Control, Created, Told, Rotated, CutShort, Kept, LoggedIn
    <2>3. Doomed'
      BY <1>3 DEF MeShows, Finish, Carries, Doomed, Dead
    <2>4. QED
      BY <2>1, <2>2, <2>3
  <1>4. QED
    BY <1>1, <1>2, <1>3

\* A failing query.
LEMMA ThrowsKeeps ==
  ASSUME Inv, NEW r \in Requests, Throws(r)
  PROVE  Inv'
  <1> USE DEF Inv, TypeOK, tokens, outside, OnlyControl, Kind, Token, User, Exists, Asked,
              Waiting, Places, Lapsed
  <1>1. CASE Throws(r)
    <2>1. TypeOK' /\ Control' /\ Created' /\ Carries'
      BY <1>1 DEF Throws, Finish, Control, Created, Carries
    <2>2. Told' /\ Rotated' /\ Kept' /\ LoggedIn'
      BY <1>1 DEF Throws, Finish, Control, Created, Told, Rotated, CutShort, Kept, LoggedIn
    <2>3. Doomed'
      BY <1>1 DEF Throws, Finish, Carries, Doomed, Dead
    <2>4. QED
      BY <2>1, <2>2, <2>3
  <1>2. QED
    BY <1>1

\* A browser asks.
LEMMA AskKeeps ==
  ASSUME Inv, NEW r \in Requests, NEW k \in Kinds, NEW b \in Browsers, Ask(r, k, b)
  PROVE  Inv'
  <1> USE DEF Inv, TypeOK, tokens, outside, Kind, Token, User, Exists, Waiting, Places, Lapsed
  <1>1. PICK t \in Carried(k, b), u \in Users \union {None} :
          /\ IF k = "login" THEN u # None ELSE u = Payload(t)
          /\ asked' = [asked EXCEPT ![r] = [kind |-> k, browser |-> b,
                                            user |-> u, token |-> t]]
          /\ doomed' = IF Dead(k, u, t) THEN doomed \union {r} ELSE doomed
    BY DEF Ask
  \* What is carried was granted, so it is there, and not for a login.
  <1>2. /\ t \in Requests \union {None}
        /\ t # None => Exists(t) /\ answer[t] = "granted" /\ k # "login"
    BY DEF Carried, Kept, Told
  <1>3. TypeOK'
    BY <1>1, <1>2 DEF Ask, Asked
  <1>4. Control'
    BY <1>1, <1>2 DEF Ask, Control
  <1>5. Created'
    BY <1>1, <1>2 DEF Ask, Created
  <1>6. Carries'
    BY <1>1, <1>2 DEF Ask, Carries, Created, Payload, Kinds
  <1>7. Told' /\ Kept' /\ LoggedIn'
    BY <1>1, <1>2 DEF Ask, Told, Created, Control, Kept, LoggedIn
  <1>8. Rotated'
    BY <1>1, <1>2 DEF Ask, Rotated, Created, CutShort
  <1>9. Doomed'
    BY <1>1, <1>2 DEF Ask, Doomed, Dead, Control
  <1>10. QED
    BY <1>3, <1>4, <1>5, <1>6, <1>7, <1>8, <1>9

\* An answer arrives, a token expires, a user is taken out of service, the
\* server dies.
LEMMA WorldKeeps ==
  ASSUME Inv,
         \/ \E r \in Requests : Deliver(r) \/ Expire("access", r) \/ Expire("refresh", r)
         \/ \E u \in Users : Deactivate(u)
         \/ Crash
  PROVE  Inv'
  <1> USE DEF Inv, TypeOK, tokens, outside, memory, Kind, Token, User, Exists, Waiting, Places,
              Lapsed
  <1>1. ASSUME NEW r \in Requests, Deliver(r) PROVE Inv'
    <2>1. TypeOK'
      <3>1. cookie' \in [Browsers -> Requests \union {None}]
        BY <1>1 DEF Deliver
      <3>2. pc' \in [Requests -> Places]
        BY <1>1 DEF Deliver
      <3>3. QED
        BY <1>1, <3>1, <3>2 DEF Deliver
    <2>2. Control' /\ Created' /\ Carries' /\ Told' /\ Rotated' /\ LoggedIn'
      BY <1>1 DEF Deliver, Control, Created, Carries, Told, Rotated, CutShort, LoggedIn
    <2>3. Kept'
      BY <1>1 DEF Deliver, Kept
    <2>4. Doomed'
      BY <1>1 DEF Deliver, Doomed, Dead
    <2>5. QED
      BY <2>1, <2>2, <2>3, <2>4
  <1>2. ASSUME NEW r \in Requests, NEW what \in {"access", "refresh"}, Expire(what, r)
        PROVE  Inv'
    BY <1>2 DEF Expire, Control, Created, Carries, Told, Rotated, CutShort, Kept, LoggedIn,
       Doomed, Dead
  <1>3. ASSUME NEW u \in Users, Deactivate(u) PROVE Inv'
    BY <1>3 DEF Deactivate, Control, Created, Carries, Told, Rotated, CutShort, Kept,
       LoggedIn, Doomed, Dead
  <1>4. CASE Crash
    BY <1>4, CrashAssumption DEF Crash, Control, Created, Carries, Told, Rotated, CutShort,
       Kept, LoggedIn, Doomed, Dead
  <1>5. QED
    BY <1>1, <1>2, <1>3, <1>4

\* The invariant holds in every state.
THEOREM Invariance == Spec => []Inv
  <1>1. Init => Inv
    BY NoneAssumption, CrashAssumption DEF Init, Inv, TypeOK, Asked, Nothing, Places,
       Exists,
       Kind, Token, User, Control, Created, Carries, Told, Rotated, Kept, LoggedIn, Doomed
  <1>2. Inv /\ [Next]_vars => Inv'
    <2> SUFFICES ASSUME Inv, [Next]_vars PROVE Inv'
      OBVIOUS
    <2>1. CASE UNCHANGED vars
      BY <2>1 DEF vars, Inv, TypeOK, Exists, Kind, Token, User, Control, Created, Carries,
         Told,
         Rotated, CutShort, Kept, LoggedIn, Doomed, Dead, Lapsed
    <2>2. ASSUME NEW r \in Requests, Handler(r) PROVE Inv'
      BY <2>2, LoginKeeps, RefreshKeeps, LogoutKeeps, MeKeeps, ThrowsKeeps DEF Handler
    <2>3. QED
      BY <2>1, <2>2, AskKeeps, WorldKeeps DEF Next
  <1>3. QED
    BY <1>1, <1>2, PTL DEF Spec

(***************************************************************************)
(* What follows.                                                           *)
(***************************************************************************)

\* The variables keep the values the code and the schema allow.
THEOREM TypeCorrect == Spec => []TypeOK
  BY Invariance, PTL DEF Inv

\* Rotations tell the truth, with any number of them at a time, on the same
\* token or not, and cut short anywhere.
THEOREM RotationsTrue == Spec => []RotationsAreTrue
  <1>1. Inv => RotationsAreTrue
    <2> SUFFICES ASSUME Inv PROVE RotationsAreTrue
      OBVIOUS
    <2> USE DEF Inv, TypeOK, Exists, Kind, Token, User
    <2>1. ASSUME NEW n \in Requests, Exists(n), Kind(n) = "refresh" PROVE SuccessorReplaces(n)
      <3>1. Token(n) # None /\ Token(n) \in Requests
        BY <2>1 DEF Carries, Asked
      <3>2. owner[n] = owner[Token(n)]
        BY <2>1, <3>1 DEF Carries, Created
      <3>3. QED
        BY <2>1, <3>1, <3>2 DEF SuccessorReplaces, Rotated, CutShort
    <2>2. QED
      BY <2>1 DEF RotationsAreTrue, Rotated
  <1>2. QED
    BY <1>1, Invariance, PTL

\* A request made with a dead token or for a dead user gets nothing.
THEOREM DeadGetNothing == Spec => []NothingForTheDead
  <1>1. Inv => NothingForTheDead
    BY DEF Inv, Doomed, NothingForTheDead
  <1>2. QED
    BY <1>1, Invariance, PTL

\* What the browsers were told is in the tables.
THEOREM AnswersTrue == Spec => []AnswersAreTrue
  <1>1. Inv => AnswersAreTrue
    BY DEF Inv, Created, Told, Kept, AnswersAreTrue
  <1>2. QED
    BY <1>1, Invariance, PTL

\* A login leaves lastLoginAt and its token, or neither.
THEOREM LoginWhole == Spec => []LoginIsWhole
  <1>1. Inv => LoginIsWhole
    BY DEF Inv, TypeOK, Exists, User, Created, LoggedIn, LoginIsWhole
  <1>2. QED
    BY <1>1, Invariance, PTL

\* No step gives a token to another user, revives or removes it.
THEOREM TokensLive == Spec => TokenLife
  <1>1. Inv /\ [Next]_vars => [\A t \in Requests : Exists(t) =>
          /\ owner'[t] = owner[t]
          /\ status[t] = "REVOKED" => status'[t] = "REVOKED"
          /\ status'[t] # "NONE"]_vars
    <2> SUFFICES ASSUME Inv, Next, NEW t \in Requests, Exists(t)
                 PROVE  /\ owner'[t] = owner[t]
                        /\ status[t] = "REVOKED" => status'[t] = "REVOKED"
                        /\ status'[t] # "NONE"
      OBVIOUS
    <2> DEFINE Lives == /\ owner'[t] = owner[t]
                        /\ status[t] = "REVOKED" => status'[t] = "REVOKED"
                        /\ status'[t] # "NONE"
    <2> USE DEF Inv, TypeOK, Exists, tokens, OnlyControl
    <2>1. CASE UNCHANGED tokens
      BY <2>1
    <2>2. ASSUME NEW r \in Requests, LoginCreates(r) \/ RefreshCreates(r) PROVE Lives
      BY <2>2 DEF LoginCreates, RefreshCreates, Goto, Finish, Insert, Created
    <2>3. ASSUME NEW r \in Requests, RefreshRevokes(r) \/ LogoutRevokes(r) PROVE Lives
      BY <2>3 DEF RefreshRevokes, LogoutRevokes
    <2>4. ASSUME NEW r \in Requests, Handler(r) PROVE Lives
      BY <2>1, <2>2, <2>3, <2>4 DEF Handler, LoginReads, LoginRefused, RefreshWithoutCookie,
         RefreshVerifies, RefreshReads, MeAuthenticates, MeRefused, MeShows, Throws
    <2>5. ASSUME NEW r \in Requests, NEW k \in Kinds, NEW b \in Browsers, Ask(r, k, b)
          PROVE  Lives
      BY <2>1, <2>5 DEF Ask
    <2>6. ASSUME NEW r \in Requests, Deliver(r) \/ Expire("access", r) \/ Expire("refresh", r)
          PROVE  Lives
      BY <2>1, <2>6 DEF Deliver, Expire
    <2>7. ASSUME Crash \/ \E u \in Users : Deactivate(u) PROVE Lives
      BY <2>1, <2>7 DEF Crash, Deactivate
    <2> HIDE DEF Lives
    <2>8. Lives
      BY <2>4, <2>5, <2>6, <2>7 DEF Next
    <2>9. QED
      BY <2>8 DEF Lives
  <1>2. QED
    BY <1>1, Invariance, PTL DEF Spec, TokenLife

(***************************************************************************)
(* Rotations are atomic to the holders of tokens.                          *)
(***************************************************************************)

\* What a request carries was given to somebody, a login carries none, and a token that was not
\* given to anybody is nobody's to revoke.
Handed == \A r \in Requests :
    /\ Token(r) # None => Seen(Token(r))
    /\ Kind(r) = "login" => Token(r) = None
    /\ Exists(r) /\ ~Seen(r) => status[r] = "ACTIVE"

\* A token that was given stays given.
LEMMA SeenStays ==
  ASSUME Inv, Next, NEW t \in Requests, Seen(t)
  PROVE  Seen(t)'
  <1> USE DEF Inv, TypeOK, Control, Seen
  <1>1. ASSUME NEW r \in Requests, Handler(r) PROVE Seen(t)'
    BY <1>1 DEF Handler, Goto, Finish, LoginReads, LoginRefused, LoginCreates,
       RefreshWithoutCookie, RefreshVerifies, RefreshReads, RefreshCreates, RefreshRevokes,
       LogoutRevokes, MeAuthenticates, MeRefused, MeShows, Throws, Waiting
  <1>2. ASSUME NEW r \in Requests, NEW k \in Kinds, NEW b \in Browsers, Ask(r, k, b)
        PROVE  Seen(t)'
    BY <1>2 DEF Ask
  <1>3. QED
    BY <1>1, <1>2 DEF Next, Deliver, outside, Expire, Deactivate, Crash

\* Steps that create and revoke nothing keep what was handed out.
LEMMA HandedQuietly ==
  ASSUME Inv, Handed, Next, UNCHANGED <<status, asked>>
  PROVE  Handed'
  BY SeenStays DEF Handed, Token, Kind, Exists, Inv, TypeOK, Asked, Seen

\* So does every other.
LEMMA HandedKeeps ==
  ASSUME Inv, Handed, Next
  PROVE  Handed'
  <1> USE DEF Inv, TypeOK, Asked, Token, Kind, Exists
  <1>1. ASSUME NEW r \in Requests, LoginCreates(r) \/ RefreshCreates(r) PROVE Handed'
    BY <1>1, SeenStays DEF LoginCreates, RefreshCreates, Insert, Handed, Goto, Finish
  <1>2. ASSUME NEW r \in Requests, RefreshRevokes(r) \/ LogoutRevokes(r) PROVE Handed'
    BY <1>2, SeenStays DEF RefreshRevokes, LogoutRevokes, Handed, Carries, Control, Finish
  <1>3. ASSUME NEW r \in Requests, Handler(r) PROVE Handed'
    BY <1>1, <1>2, <1>3, HandedQuietly DEF Handler, OnlyControl, tokens, LoginReads,
       LoginRefused, RefreshWithoutCookie, RefreshVerifies, RefreshReads, MeAuthenticates,
       MeRefused, MeShows, Throws
  <1>4. ASSUME NEW r \in Requests, NEW k \in Kinds, NEW b \in Browsers, Ask(r, k, b)
        PROVE  Handed'
    <2>1. PICK t \in Carried(k, b) : asked'[r].token = t /\ asked'[r].kind = k
      BY <1>4 DEF Ask
    <2>2. (t # None => Seen(t)) /\ (k = "login" => t = None)
      BY <2>1 DEF Carried, Kept, Seen
    <2>3. \A q \in Requests : q # r => asked'[q] = asked[q]
      BY <1>4 DEF Ask
    <2>4. QED
      BY <1>4, <2>1, <2>2, <2>3 DEF Ask, Handed, Seen, tokens
  <1>5. QED
    BY <1>3, <1>4, HandedQuietly DEF Next, Deliver, Expire, Deactivate, Crash, memory,
       tokens

\* What is handed out is so in every state.
THEOREM HandedInvariance == Spec => []Handed
  <1>1. Init => Handed
    <2> SUFFICES ASSUME Init, NEW r \in Requests
                 PROVE  Kind(r) # "login" /\ Token(r) = None /\ ~Exists(r)
      BY DEF Handed
    <2>1. QED
      BY DEF Init, Nothing, Kind, Token, Exists
  <1>2. Inv /\ Handed /\ [Next]_vars => Handed'
    <2> SUFFICES ASSUME Inv, Handed, [Next]_vars PROVE Handed'
      OBVIOUS
    <2>1. CASE UNCHANGED vars
      BY <2>1 DEF vars, Handed, Token, Kind, Exists, Seen
    <2>2. QED
      BY <2>1, HandedKeeps
  <1>3. QED
    BY <1>1, <1>2, Invariance, PTL DEF Spec

\* Where a request has passed its check.
Holding == {"create", "revoke"}

\* A step in which nothing happens but that requests go on or end, none of them
\* past its check, is one of forgetting, or of nothing, to the holders.
LEMMA QuietIsForget ==
  ASSUME UNCHANGED <<asked, tokens, active, expired>>,
         \A t \in Requests : Seen(t)' <=> Seen(t),
         \A r \in Requests : pc'[r] \in Holding => pc[r] \in Holding
  PROVE  Book!Next
  <1>1. SeenStatus' = SeenStatus /\ SeenOwner' = SeenOwner
    BY DEF SeenStatus, SeenOwner, tokens
  <1>2. PICK gone \in SUBSET Requests : gone = {r \in Requests : pc'[r] \notin Holding}
    OBVIOUS
  <1>3. Claim' = [r \in Requests |-> IF r \in gone THEN Book!NoClaim ELSE Claim[r]]
    BY <1>2 DEF Claim, Book!NoClaim, Holding, User, Token
  <1>4. Book!Forget
    BY <1>1, <1>3 DEF Book!Forget, Book!tokens, tokens
  <1>5. QED
    BY <1>4 DEF Book!Next

\* A request asked makes no difference to the holders yet.
LEMMA AskIsNothing ==
  ASSUME Inv, NEW r \in Requests, NEW k \in Kinds, NEW b \in Browsers, Ask(r, k, b)
  PROVE  UNCHANGED Book!vars
  <1>1. /\ UNCHANGED <<answer, tokens, active, expired>>
        /\ pc[r] = "new" /\ pc'[r] = "sent"
        /\ \A q \in Requests : q # r => asked'[q] = asked[q] /\ pc'[q] = pc[q]
    BY DEF Ask, Inv, TypeOK, tokens
  <1>2. \A q \in Requests : q # r => User(q)' = User(q) /\ Token(q)' = Token(q)
    BY <1>1 DEF User, Token
  <1>3. SeenStatus' = SeenStatus /\ SeenOwner' = SeenOwner
    BY <1>1 DEF SeenStatus, SeenOwner, Seen, tokens
  <1>4. Claim' = Claim
    BY <1>1, <1>2 DEF Claim
  <1>5. QED
    BY <1>1, <1>3, <1>4 DEF Book!vars, tokens

\* A request finds that it has a right to a token for u, for t or for nothing.
LEMMA AdmissionIsGrant ==
  ASSUME Inv, NEW r \in Requests, pc[r] \notin Holding,
         ~Seen(r), UNCHANGED <<asked, answer, tokens, active, expired>>,
         pc' = [pc EXCEPT ![r] = "create"], User(r) \in active
  PROVE  Book!Grant(r, User(r), Token(r))
  <1> USE DEF Inv, TypeOK
  <1>1. SeenStatus' = SeenStatus /\ SeenOwner' = SeenOwner
    BY DEF SeenStatus, SeenOwner, Seen, tokens
  <1>2. SeenStatus[r] = "NONE" /\ Claim[r] = Book!NoClaim
    BY DEF SeenStatus, Claim, Book!NoClaim, Holding
  <1>3. \A q \in Requests : User(q)' = User(q) /\ Token(q)' = Token(q)
    BY DEF User, Token
  <1>4. Claim' = [Claim EXCEPT ![r] = [user |-> User(r), token |-> Token(r)]]
    BY <1>3 DEF Claim
  <1>5. QED
    BY <1>1, <1>2, <1>4 DEF Book!Grant, Book!tokens, tokens

\* A login that is found right is admitted.
LEMMA LoginIsAdmission ==
  ASSUME Inv, Handed, NEW r \in Requests, LoginReads(r)
  PROVE  Book!Next
  <1> USE DEF Inv, TypeOK
  <1>1. /\ UNCHANGED <<asked, answer, tokens, active, expired>>
        /\ pc[r] = "sent" /\ pc' = [pc EXCEPT ![r] = "create"]
        /\ User(r) \in active /\ User(r) \in Users /\ ~Seen(r)
    BY DEF LoginReads, Goto, OnlyControl, outside, Seen, Control, tokens
  <1>2. Token(r) = None
    BY DEF LoginReads, Handed
  <1>3. Book!Grant(r, User(r), Token(r))
    BY <1>1, AdmissionIsGrant DEF Holding
  <1>4. QED
    BY <1>1, <1>2, <1>3 DEF Book!Next, Book!AdmitLogin

\* A refresh whose token is found good is admitted to a rotation of it.
LEMMA RefreshIsAdmission ==
  ASSUME Inv, Handed, NEW r \in Requests, RefreshReads(r), Usable(r)
  PROVE  Book!Next
  <1> USE DEF Inv, TypeOK
  <1>1. /\ UNCHANGED <<asked, answer, tokens, active, expired>>
        /\ pc[r] = "read" /\ pc' = [pc EXCEPT ![r] = "create"] /\ ~Seen(r)
    BY DEF RefreshReads, Goto, OnlyControl, outside, Seen, Control, tokens
  <1>2. Token(r) \in Requests /\ Seen(Token(r))
    BY <1>1 DEF RefreshReads, Carries, Handed, Token, Asked
  <1>3. /\ SeenStatus[Token(r)] = "ACTIVE" /\ SeenOwner[Token(r)] = User(r)
        /\ <<"refresh", Token(r)>> \notin expired /\ User(r) \in active
    BY <1>2 DEF Usable, SeenStatus, SeenOwner, Lapsed
  <1>4. Book!Grant(r, User(r), Token(r))
    BY <1>1, <1>3, AdmissionIsGrant DEF Holding
  <1>5. Book!AdmitRotation(r)
    BY <1>2, <1>3, <1>4 DEF Book!AdmitRotation
  <1>6. QED
    BY <1>5 DEF Book!Next

\* A request that has passed its check creates its token for its own user.
LEMMA HolderHasUser ==
  ASSUME Inv, NEW r \in Requests, pc[r] \in Holding
  PROVE  User(r) \in Users /\ Claim[r] # Book!NoClaim
  <1>1. User(r) \in Users
    BY DEF Inv, Control, Carries, Created, Holding, TypeOK, Asked, Token
  <1>2. QED
    BY <1>1, NoneAssumption DEF Claim, Holding, Book!NoClaim

\* A login's transaction uses what it was admitted to.
LEMMA LoginIsUse ==
  ASSUME Inv, Handed, NEW r \in Requests, LoginCreates(r)
  PROVE  Book!Next
  <1> USE DEF Inv, TypeOK
  <1>1. /\ UNCHANGED <<asked, next, active, expired>>
        /\ pc[r] = "create" /\ pc' = [pc EXCEPT ![r] = "done"]
        /\ answer' = [answer EXCEPT ![r] = "granted"]
        /\ status' = [status EXCEPT ![r] = "ACTIVE"]
        /\ owner' = [owner EXCEPT ![r] = User(r)]
    BY DEF LoginCreates, Finish, Insert, outside
  <1>2. Claim[r].user = User(r) /\ Claim[r].token = None
    BY <1>1 DEF Claim, LoginCreates, Handed
  <1>3. SeenOwner' = [SeenOwner EXCEPT ![r] = User(r)]
    BY <1>1 DEF SeenOwner, Seen
  <1>4. SeenStatus' = [t \in Requests |-> IF t = r THEN "ACTIVE"
                                 ELSE IF t = None THEN "REVOKED" ELSE SeenStatus[t]]
    BY <1>1, NoneAssumption DEF SeenStatus, Seen
  <1>5. next' = [t \in Requests |-> IF t = None THEN r ELSE next[t]]
    BY <1>1, NoneAssumption
  <1>6. Claim' = [Claim EXCEPT ![r] = Book!NoClaim]
    BY <1>1 DEF Claim, User, Token, Book!NoClaim
  <1>7. Book!Use(r)
    BY <1>1, <1>2, <1>3, <1>4, <1>5, <1>6, HolderHasUser DEF Book!Use, Holding
  <1>8. QED
    BY <1>7 DEF Book!Next

\* A rotation's second statement, with the answer, does all of it at once.
LEMMA RotationIsUse ==
  ASSUME Inv, Handed, NEW r \in Requests, RefreshRevokes(r)
  PROVE  Book!Next
  <1> USE DEF Inv, TypeOK
  <1>1. /\ UNCHANGED <<asked, owner, active, expired>>
        /\ pc[r] = "revoke" /\ pc' = [pc EXCEPT ![r] = "done"]
        /\ answer' = [answer EXCEPT ![r] = "granted"]
        /\ status' = [status EXCEPT ![Token(r)] = "REVOKED"]
        /\ next' = [next EXCEPT ![Token(r)] = r]
    BY DEF RefreshRevokes, Finish, outside
  <1>2. Claim[r].user = User(r) /\ Claim[r].token = Token(r)
    BY <1>1 DEF Claim
  <1>3. /\ Token(r) \in Requests /\ Token(r) # r /\ Seen(Token(r))
        /\ ~Seen(r) /\ owner[r] = User(r) /\ status[r] = "ACTIVE"
    BY <1>1 DEF RefreshRevokes, Control, Carries, Created, Handed, Seen, Token, Asked
  <1>4. SeenOwner' = [SeenOwner EXCEPT ![r] = User(r)]
    BY <1>1, <1>3 DEF SeenOwner, Seen
  <1>5. SeenStatus' = [t \in Requests |-> IF t = r THEN "ACTIVE"
                             ELSE IF t = Token(r) THEN "REVOKED" ELSE SeenStatus[t]]
    BY <1>1, <1>3 DEF SeenStatus, Seen
  <1>6. next' = [t \in Requests |-> IF t = Token(r) THEN r ELSE next[t]]
    BY <1>1
  <1>7. Claim' = [Claim EXCEPT ![r] = Book!NoClaim]
    BY <1>1 DEF Claim, User, Token, Book!NoClaim
  <1>8. Claim[r] # Book!NoClaim
    BY <1>1, HolderHasUser DEF Holding
  <1>9. Book!Use(r)
    <2>1. PICK old : old = Token(r)
      OBVIOUS
    <2>2. Claim[r].token = old
      BY <1>2, <2>1
    <2>3. /\ SeenStatus' = [t \in Requests |-> IF t = r THEN "ACTIVE"
                                ELSE IF t = old THEN "REVOKED" ELSE SeenStatus[t]]
          /\ next' = [t \in Requests |-> IF t = old THEN r ELSE next[t]]
      BY <1>5, <1>6, <2>1
    <2>4. QED
      BY <1>1, <1>2, <1>4, <1>7, <1>8, <2>2, <2>3 DEF Book!Use
  <1>10. QED
    BY <1>9 DEF Book!Next

\* A rotation's first statement makes no difference to the holders.
LEMMA InsertionIsNothing ==
  ASSUME Inv, NEW r \in Requests, RefreshCreates(r)
  PROVE  UNCHANGED Book!vars
  <1> USE DEF Inv, TypeOK
  <1>1. /\ UNCHANGED <<asked, next, answer, active, expired>>
        /\ pc[r] = "create" /\ pc' = [pc EXCEPT ![r] = "revoke"]
        /\ \A t \in Requests : t # r => status'[t] = status[t] /\ owner'[t] = owner[t]
    BY DEF RefreshCreates, Goto, Insert, outside
  <1>2. ~Seen(r)
    BY <1>1 DEF Seen, Control
  <1>3. SeenStatus' = SeenStatus /\ SeenOwner' = SeenOwner
    BY <1>1, <1>2 DEF SeenStatus, SeenOwner, Seen
  <1>4. Claim' = Claim
    BY <1>1 DEF Claim, User, Token
  <1>5. QED
    BY <1>1, <1>3, <1>4 DEF Book!vars, Book!tokens

\* A logout ends a token that is good, or does nothing.
LEMMA LogoutIsStep ==
  ASSUME Inv, Handed, NEW r \in Requests, LogoutRevokes(r)
  PROVE  Book!Next
  <1> USE DEF Inv, TypeOK
  <1>1. /\ UNCHANGED <<asked, owner, next, active, expired>>
        /\ pc[r] = "sent" /\ pc' = [pc EXCEPT ![r] = "done"]
        /\ answer' = [answer EXCEPT ![r] = "loggedOut"] /\ ~Seen(r)
    BY DEF LogoutRevokes, Finish, outside, Seen, Control
  <1>2. \A t \in Requests : Seen(t)' <=> Seen(t)
    BY <1>1 DEF Seen
  <1>3. CASE Token(r) # None /\ status[Token(r)] = "ACTIVE"
    <2>1. Token(r) \in Requests /\ Seen(Token(r))
      BY <1>3 DEF Handed, Token, Asked
    <2>2. SeenStatus' = [SeenStatus EXCEPT ![Token(r)] = "REVOKED"]
      BY <1>2, <1>3, <2>1 DEF LogoutRevokes, SeenStatus
    <2>3. SeenOwner' = SeenOwner /\ Claim' = Claim
      BY <1>1, <1>2 DEF SeenOwner, Claim, User, Token
    <2>4. Book!Logout(Token(r))
      BY <1>1, <1>3, <2>1, <2>2, <2>3 DEF Book!Logout, SeenStatus
    <2>5. QED
      BY <2>1, <2>4 DEF Book!Next
  <1>4. CASE ~(Token(r) # None /\ status[Token(r)] = "ACTIVE")
    <2>1. UNCHANGED tokens
      BY <1>1, <1>4 DEF LogoutRevokes, tokens
    <2>2. QED
      BY <1>1, <1>2, <2>1, QuietIsForget DEF Holding
  <1>5. QED
    BY <1>3, <1>4

\* The other steps of the handlers only go on, or give up.
LEMMA OtherIsForget ==
  ASSUME Inv, NEW r \in Requests,
         \/ LoginRefused(r) \/ RefreshWithoutCookie(r) \/ RefreshVerifies(r)
         \/ RefreshReads(r) /\ ~Usable(r)
         \/ MeAuthenticates(r) \/ MeRefused(r) \/ MeShows(r)
         \/ Throws(r)
  PROVE  Book!Next
  <1> USE DEF Inv, TypeOK
  <1>1. UNCHANGED <<asked, tokens, active, expired>>
    BY DEF LoginRefused, RefreshWithoutCookie, RefreshVerifies, RefreshReads,
       MeAuthenticates, MeRefused, MeShows, Throws, OnlyControl, outside
  <1>2. PICK to \in Places \ Holding :
          /\ pc[r] \in Waiting /\ pc' = [pc EXCEPT ![r] = to]
          /\ \/ UNCHANGED answer
             \/ answer' = [answer EXCEPT ![r] = answer'[r]] /\ answer'[r] # "granted"
    BY DEF LoginRefused, RefreshWithoutCookie, RefreshVerifies, RefreshReads,
       MeAuthenticates, MeRefused, MeShows, Throws, Goto, Finish, Places, Waiting, Holding
  <1>3. \A t \in Requests : Seen(t)' <=> Seen(t)
    BY <1>2 DEF Seen, Control, Waiting
  <1>4. QED
    BY <1>1, <1>2, <1>3, QuietIsForget DEF Holding

\* What happens around the handlers.
LEMMA WorldIsStep ==
  ASSUME Inv,
         \/ \E r \in Requests : Deliver(r) \/ Expire("access", r) \/ Expire("refresh", r)
         \/ \E u \in Users : Deactivate(u)
         \/ Crash
  PROVE  Book!Next
  <1> USE DEF Inv, TypeOK
  <1>1. ASSUME NEW r \in Requests, Deliver(r) PROVE Book!Next
    <2>1. UNCHANGED <<asked, answer, tokens, active, expired>>
      BY <1>1 DEF Deliver, outside
    <2>2. QED
      BY <1>1, <2>1, QuietIsForget DEF Deliver, Seen, Holding
  <1>2. CASE Crash
    BY <1>2, QuietIsForget DEF Crash, Seen, Holding, Waiting
  <1>3. ASSUME UNCHANGED <<memory, tokens, answer>>
        PROVE  SeenStatus' = SeenStatus /\ SeenOwner' = SeenOwner /\ Claim' = Claim
    BY <1>3 DEF SeenStatus, SeenOwner, Seen, Claim, User, Token, memory, tokens
  <1>4. ASSUME NEW r \in Requests, Expire("access", r) \/ Expire("refresh", r)
        PROVE  Book!Next
    BY <1>3, <1>4 DEF Expire, Book!Expire, Book!Next, Book!tokens, tokens
  <1>5. ASSUME NEW u \in Users, Deactivate(u) PROVE Book!Next
    BY <1>3, <1>5 DEF Deactivate, Book!Deactivate, Book!Next, Book!tokens, tokens
  <1>6. QED
    BY <1>1, <1>2, <1>4, <1>5

\* To whoever holds tokens a rotation is one step, in which the old token dies
\* and the new one comes to life; it begins with a token that was good, and one
\* that an exception or a crash cuts short has not happened.
THEOREM RotationsAtomic == Spec => RotationsAreAtomic
  <1>1. Init => Book!Init
    <2> SUFFICES ASSUME Init PROVE Book!Init
      OBVIOUS
    <2>1. SeenStatus = [t \in Requests |-> "NONE"] /\ SeenOwner = [t \in Requests |-> None]
      BY DEF Init, SeenStatus, SeenOwner, Seen
    <2>2. Claim = [r \in Requests |-> Book!NoClaim]
      BY DEF Init, Claim, Book!NoClaim
    <2>3. QED
      BY <2>1, <2>2 DEF Init, Book!Init
  <1>2. Inv /\ Handed /\ [Next]_vars => [Book!Next]_(Book!vars)
    <2> SUFFICES ASSUME Inv, Handed, [Next]_vars PROVE Book!Next \/ UNCHANGED Book!vars
      OBVIOUS
    <2>1. CASE UNCHANGED vars
      <3>1. SeenStatus' = SeenStatus /\ SeenOwner' = SeenOwner /\ Claim' = Claim
        BY <2>1 DEF vars, SeenStatus, SeenOwner, Seen, Claim, User, Token
      <3>2. QED
        BY <2>1, <3>1 DEF vars, Book!vars
    <2>2. ASSUME NEW r \in Requests, Handler(r) PROVE Book!Next \/ UNCHANGED Book!vars
      BY <2>2, LoginIsAdmission, RefreshIsAdmission, LoginIsUse, RotationIsUse,
         InsertionIsNothing, LogoutIsStep, OtherIsForget DEF Handler
    <2>3. QED
      BY <2>1, <2>2, AskIsNothing, WorldIsStep DEF Next
  <1>3. QED
    BY <1>1, <1>2, Invariance, HandedInvariance, PTL DEF Spec, RotationsAreAtomic, Book!Spec
=============================================================================
