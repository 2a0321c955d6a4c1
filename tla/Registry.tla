------------------------------- MODULE Registry -------------------------------
(***************************************************************************)
(* Who may send what: the clients and their users, the Kakao profiles and  *)
(* templates registered for them, the gates of the Kakao services that     *)
(* read this registry, and the lists of templates shown to the users.      *)
(*                                                                         *)
(* Every writer checks, then inserts under a unique index.  A registration *)
(* is one transaction at MySQL's REPEATABLE READ: its reads are those of   *)
(* one moment, Begin, and its writes meet the tables of another, Commit,   *)
(* where an insert of what somebody else has inserted since fails.         *)
(*                                                                         *)
(* A Client row, and the ClientUser row a sign-up creates with it, is      *)
(* named after the request that creates it; profiles and templates have    *)
(* the names of their keys.                                                *)
(***************************************************************************)
EXTENDS Integers

CONSTANTS
    Requests,
    Codes, Accounts, Phones,  \* clientCode, account, senderPhone
    Profiles, Templates,      \* profileKey, templateCode
    None,
    Bodies,     \* what a request may ask
    MaxCrashes  \* bound: how often the server process dies

Kinds == {"create", "signup", "register", "alimtalk", "brandtalk", "reserve", "list",
          "detail"}

\* "unset" is a field that is not given.
BodyType == [kind: Kinds, code: Codes, account: Accounts, phone: Phones,
             profile: Profiles, templates: SUBSET Templates,
             status: {"ACTIVE", "INACTIVE", "unset"},
             approval: {"APPROVED", "REJECTED", "unset"}]

ASSUME BodyAssumption ==
    /\ Bodies \subseteq BodyType
    /\ \A b \in Bodies :
         /\ b.kind = "register" => b.templates # {}
         /\ b.kind \in {"alimtalk", "reserve", "detail"} => \E t \in Templates : b.templates = {t}
ASSUME NoneAssumption == None \notin Requests \union Codes \union Accounts \union Profiles
ASSUME CrashAssumption == MaxCrashes \in Nat

VARIABLES
    \* the handlers, in memory
    pc,        \* where the handler of a request is
    asked,     \* the request's body
    client,    \* the Client row it has looked up
    seen,      \* what its transaction reads: owner, home and mapped as of Begin
    \* Client and ClientUser
    code,      \* Client.clientCode, None when there is no row
    standing,  \* Client.status
    account,   \* ClientUser.account of the client's user
    \* KakaoProfile, KakaoTemplate, ClientKakaoTemplate
    owner,     \* KakaoProfile.clientId, None when there is no row
    pstatus,   \* KakaoProfile.status
    home,      \* KakaoTemplate.profileId, None when there is no row
    tstatus,   \* KakaoTemplate.status
    mapped,    \* the pairs of client and template
    \* what the callers see, and the bound
    answer, shown,
    crashes

clients == <<code, standing, account>>
kakao == <<owner, pstatus, home, tstatus, mapped>>
vars == <<pc, asked, client, seen, code, standing, account, owner, pstatus, home, tstatus,
          mapped, answer, shown, crashes>>

Waiting == {"account", "insert", "begin", "commit", "gate"}
Exists(m) == code[m] # None
SenderPhone(m) == asked[m].phone  \* Client.senderPhone, which nothing updates
Now == [owner |-> owner, home |-> home, mapped |-> mapped]

Init ==
    /\ pc = [r \in Requests |-> "new"]
    /\ asked \in [Requests -> Bodies]
    /\ client = [r \in Requests |-> None]
    /\ code = [m \in Requests |-> None]
    /\ standing = [m \in Requests |-> "NONE"]
    /\ account = [m \in Requests |-> None]
    /\ owner = [k \in Profiles |-> None]
    /\ pstatus = [k \in Profiles |-> "NONE"]
    /\ home = [t \in Templates |-> None]
    /\ tstatus = [t \in Templates |-> "NONE"]
    /\ mapped = {}
    /\ seen = [r \in Requests |-> Now]
    /\ answer = [r \in Requests |-> "none"]
    /\ shown = [r \in Requests |-> {}]
    /\ crashes = 0

-----------------------------------------------------------------------------
(* Helpers.                                                                *)

Goto(r, from, to) ==
    /\ pc[r] = from
    /\ pc' = [pc EXCEPT ![r] = to]
    /\ UNCHANGED answer

Finish(r, from, what) ==
    /\ pc[r] = from
    /\ pc' = [pc EXCEPT ![r] = "done"]
    /\ answer' = [answer EXCEPT ![r] = what]

Refuse(r, from) == Finish(r, from, "refused")

Kind(r) == asked[r].kind

\* The unique indexes on Client.clientCode and ClientUser.account.
CodeIsFree(c) == \A m \in Requests : code[m] # c
AccountIsFree(a) == \A m \in Requests : account[m] # a

\* Mutant: the field is passed on as it came.
Given_Verbatim(new, old, default) == new

\* A status that is not given is left alone, or has its default in a new row.
Given(new, old, default) ==
    IF new # "unset" THEN new ELSE IF old = "NONE" THEN default ELSE old

-----------------------------------------------------------------------------
(* Clients and users.                                                      *)

\* signupClientUser: two lookups, ...
SignupLooksForCode(r) ==
    /\ Kind(r) = "signup"
    /\ IF CodeIsFree(asked[r].code) THEN Goto(r, "new", "account") ELSE Refuse(r, "new")
    /\ UNCHANGED <<asked, client, seen, clients, kakao, shown, crashes>>

SignupLooksForAccount(r) ==
    /\ IF AccountIsFree(asked[r].account) THEN Goto(r, "account", "insert")
       ELSE Refuse(r, "account")
    /\ UNCHANGED <<asked, client, seen, clients, kakao, shown, crashes>>

InsertClient(r, st) ==
    /\ code' = [code EXCEPT ![r] = asked[r].code]
    /\ standing' = [standing EXCEPT ![r] = st]

\* Mutant: the client and the user in two statements without a transaction.
SignupInserts_Apart(r) ==
    /\ Kind(r) = "signup"
    /\ CodeIsFree(asked[r].code)
    /\ InsertClient(r, "ACTIVE")
    /\ IF AccountIsFree(asked[r].account)
       THEN /\ Finish(r, "insert", "done")
            /\ account' = [account EXCEPT ![r] = asked[r].account]
       ELSE Refuse(r, "insert") /\ UNCHANGED account
    /\ UNCHANGED <<asked, client, seen, kakao, shown, crashes>>

\* ... and a transaction that creates both rows or neither; what the indexes
\* reject is answered like what the lookups find.
SignupInserts(r) ==
    /\ IF CodeIsFree(asked[r].code) /\ AccountIsFree(asked[r].account)
       THEN /\ Finish(r, "insert", "done")
            /\ InsertClient(r, "ACTIVE")
            /\ account' = [account EXCEPT ![r] = asked[r].account]
       ELSE Refuse(r, "insert") /\ UNCHANGED clients
    /\ UNCHANGED <<asked, client, seen, kakao, shown, crashes>>

\* createClient: one insert; no user.
CreateInserts(r) ==
    /\ Kind(r) = "create"
    /\ IF CodeIsFree(asked[r].code)
       THEN /\ Finish(r, "new", "done")
            /\ InsertClient(r, Given(asked[r].status, "NONE", "ACTIVE"))
       ELSE Refuse(r, "new") /\ UNCHANGED <<code, standing>>
    /\ UNCHANGED <<asked, client, seen, account, kakao, shown, crashes>>

-----------------------------------------------------------------------------
(* Profiles and templates.                                                 *)

\* A registration is for any client with the code, a message for one in service.
Lookup(r) ==
    {m \in Requests : code[m] = asked[r].code
                      /\ (Kind(r) = "register" \/ standing[m] = "ACTIVE")}

\* A message is refused that is not sent from its client's number.
PhoneFits(r, m) == Kind(r) = "register" \/ asked[r].phone = SenderPhone(m)

\* The client is looked up; a reserved alimtalk message passes no other gate.
FindClient(r) ==
    /\ Kind(r) \in {"register", "alimtalk", "brandtalk", "reserve"}
    /\ \/ /\ \A m \in Lookup(r) : ~PhoneFits(r, m)
          /\ Refuse(r, "new")
          /\ UNCHANGED client
       \/ \E m \in Lookup(r) :
            /\ PhoneFits(r, m)
            /\ client' = [client EXCEPT ![r] = m]
            /\ \/ Kind(r) = "register" /\ Goto(r, "new", "begin")
               \/ Kind(r) = "reserve" /\ Finish(r, "new", "done")
               \/ Kind(r) \in {"alimtalk", "brandtalk"} /\ Goto(r, "new", "gate")
    /\ UNCHANGED <<asked, seen, clients, kakao, shown, crashes>>

\* Mutant: whose the profile is is not looked at.
Foreign_TemplatesOnly(r) ==
    \E t \in asked[r].templates : home[t] \notin {None, asked[r].profile}

\* The profile is another client's, or a template is of another profile.
Foreign(r) ==
    \/ owner[asked[r].profile] \notin {None, client[r]}
    \/ \E t \in asked[r].templates : home[t] \notin {None, asked[r].profile}

\* registerKakaoTemplates: the reads of the transaction, with their checks.
Begin(r) ==
    /\ pc[r] = "begin"
    /\ IF Foreign(r) THEN Refuse(r, "begin") ELSE Goto(r, "begin", "commit")
    /\ seen' = [seen EXCEPT ![r] = Now]
    /\ UNCHANGED <<asked, client, clients, kakao, shown, crashes>>

\* Mutant: an upsert takes the row it meets, new to its snapshot or not.
Clash_Never(r) == FALSE

\* An upsert that found nothing inserts, and fails on what is there by now.
Clash(r) ==
    \/ seen[r].owner[asked[r].profile] = None /\ owner[asked[r].profile] # None
    \/ \E t \in asked[r].templates :
         \/ seen[r].home[t] = None /\ home[t] # None
         \/ <<client[r], t>> \in mapped \ seen[r].mapped

\* Mutant: every upsert is a statement of its own, and one may fail.
Commit_Piecemeal(r) ==
    /\ pc[r] = "commit"
    /\ \E some \in SUBSET asked[r].templates :
         /\ IF some = asked[r].templates THEN Finish(r, "commit", "done")
                                         ELSE Finish(r, "commit", "error")
         /\ owner' = [owner EXCEPT ![asked[r].profile] = client[r]]
         /\ pstatus' = [pstatus EXCEPT ![asked[r].profile] =
                          Given(asked[r].status, @, "ACTIVE")]
         /\ home' = [t \in Templates |-> IF t \in some THEN asked[r].profile ELSE home[t]]
         /\ tstatus' = [t \in Templates |->
                          IF t \in some THEN Given(asked[r].approval, tstatus[t], "APPROVED")
                          ELSE tstatus[t]]
         /\ mapped' = mapped \union ({client[r]} \X some)
    /\ UNCHANGED <<asked, client, seen, clients, shown, crashes>>

\* ... and its writes: profile, templates and their mapping, or nothing.
Commit(r) ==
    LET k == asked[r].profile
        new == asked[r].templates
    IN
    /\ pc[r] = "commit"
    /\ IF Clash(r)
       THEN Finish(r, "commit", "error") /\ UNCHANGED kakao
       ELSE /\ Finish(r, "commit", "done")
            /\ owner' = [owner EXCEPT ![k] = IF @ = None THEN client[r] ELSE @]
            /\ pstatus' = [pstatus EXCEPT ![k] = Given(asked[r].status, @, "ACTIVE")]
            /\ home' = [t \in Templates |->
                          IF t \in new /\ home[t] = None THEN k ELSE home[t]]
            /\ tstatus' = [t \in Templates |->
                             IF t \in new THEN Given(asked[r].approval, tstatus[t], "APPROVED")
                             ELSE tstatus[t]]
            /\ mapped' = mapped \union ({client[r]} \X new)
    /\ UNCHANGED <<asked, client, seen, clients, shown, crashes>>

-----------------------------------------------------------------------------
(* Readers.                                                                *)

\* The profile of the request is the client's and in use.
ProfileOpen(r) ==
    /\ owner[asked[r].profile] = client[r]
    /\ pstatus[asked[r].profile] = "ACTIVE"

\* The template of the request is mapped to the client, approved and of
\* that profile.
TemplateOpen(r) ==
    \E t \in asked[r].templates : /\ <<client[r], t>> \in mapped
                                  /\ tstatus[t] = "APPROVED"
                                  /\ home[t] = asked[r].profile
                                  /\ ProfileOpen(r)

\* The gate of the alimtalk service, and that of the brand talk services.
Gate(r) ==
    /\ pc[r] = "gate"
    /\ IF (Kind(r) = "alimtalk" /\ TemplateOpen(r)) \/ (Kind(r) = "brandtalk" /\ ProfileOpen(r))
       THEN Finish(r, "gate", "done") ELSE Refuse(r, "gate")
    /\ UNCHANGED <<asked, client, seen, clients, kakao, shown, crashes>>

\* The templates asked for that are mapped to client m, of whatever status.
MappedTo(m, r) == {t \in asked[r].templates : <<m, t>> \in mapped}

\* listKakaoTemplates and getKakaoTemplateDetail are for the client of the
\* user who is logged in; without one they are refused.
RefuseUser(r) ==
    /\ Kind(r) \in {"list", "detail"}
    /\ AccountIsFree(asked[r].account)
    /\ Refuse(r, "new")
    /\ UNCHANGED <<asked, client, seen, clients, kakao, shown, crashes>>

\* The list may be empty, ...
ListTemplates(r) ==
    /\ Kind(r) = "list"
    /\ \E m \in Requests :
         /\ account[m] = asked[r].account
         /\ Finish(r, "new", "done")
         /\ client' = [client EXCEPT ![r] = m]
         /\ shown' = [shown EXCEPT ![r] = MappedTo(m, r)]
    /\ UNCHANGED <<asked, seen, clients, kakao, crashes>>

\* ... one template is shown, or not found.
ShowDetail(r) ==
    /\ Kind(r) = "detail"
    /\ \E m \in Requests :
         /\ account[m] = asked[r].account
         /\ client' = [client EXCEPT ![r] = m]
         /\ \/ /\ MappedTo(m, r) # {}
               /\ Finish(r, "new", "done")
               /\ shown' = [shown EXCEPT ![r] = MappedTo(m, r)]
            \/ /\ MappedTo(m, r) = {}
               /\ Refuse(r, "new")
               /\ UNCHANGED shown
    /\ UNCHANGED <<asked, seen, clients, kakao, crashes>>

-----------------------------------------------------------------------------
\* A query fails, or a transaction, which is rolled back: 500.
Throws(r) ==
    /\ \E from \in Waiting \union {"new"} : Finish(r, from, "error")
    /\ UNCHANGED <<asked, client, seen, clients, kakao, shown, crashes>>

Crash ==
    /\ crashes < MaxCrashes
    /\ crashes' = crashes + 1
    /\ pc' = [r \in Requests |-> IF pc[r] \in Waiting THEN "crashed" ELSE pc[r]]
    /\ UNCHANGED <<asked, client, seen, clients, kakao, answer, shown>>

Next ==
    \/ \E r \in Requests :
         \/ SignupLooksForCode(r) \/ SignupLooksForAccount(r)
         \/ SignupInserts(r) \/ CreateInserts(r)
         \/ FindClient(r) \/ Begin(r) \/ Commit(r)
         \/ Gate(r)
         \/ RefuseUser(r) \/ ListTemplates(r) \/ ShowDetail(r)
         \/ Throws(r)
    \/ Crash

Spec == Init /\ [][Next]_vars

-----------------------------------------------------------------------------
(* What has to hold.                                                       *)

\* The variables have the values the code and the schema allow.
TypeOK ==
    /\ pc \in [Requests -> Waiting \union {"new", "done", "crashed"}]
    /\ asked \in [Requests -> Bodies]
    /\ client \in [Requests -> Requests \union {None}]
    /\ seen \in [Requests -> [owner: [Profiles -> Requests \union {None}],
                              home: [Templates -> Profiles \union {None}],
                              mapped: SUBSET (Requests \X Templates)]]
    /\ code \in [Requests -> Codes \union {None}]
    /\ standing \in [Requests -> {"NONE", "ACTIVE", "INACTIVE"}]
    /\ account \in [Requests -> Accounts \union {None}]
    /\ owner \in [Profiles -> Requests \union {None}]
    /\ pstatus \in [Profiles -> {"NONE", "ACTIVE", "INACTIVE"}]
    /\ home \in [Templates -> Profiles \union {None}]
    /\ tstatus \in [Templates -> {"NONE", "APPROVED", "REJECTED"}]
    /\ mapped \subseteq Requests \X Templates
    /\ answer \in [Requests -> {"none", "done", "refused", "error"}]
    /\ shown \in [Requests -> SUBSET Templates]
    /\ crashes \in 0 .. MaxCrashes

\* Codes and accounts are told apart, and no user is without its client.
ClientsAreApart ==
    \A m, n \in Requests :
        /\ Exists(m) /\ code[m] = code[n] => m = n
        /\ account[m] # None => Exists(m) /\ (account[m] = account[n] => m = n)

\* The Kakao tables fit together in every state a query can see: a template
\* is of a profile that is there, it is mapped to that profile's client and
\* to no other, and a profile has come with a template.
RegistryIsWhole ==
    /\ ClientsAreApart
    /\ \A k \in Profiles : owner[k] # None =>
         Exists(owner[k]) /\ \E t \in Templates : home[t] = k
    /\ \A t \in Templates : home[t] # None =>
         owner[home[t]] # None /\ <<owner[home[t]], t>> \in mapped
    /\ \A m \in Requests, t \in Templates : <<m, t>> \in mapped =>
         home[t] # None /\ owner[home[t]] = m

\* What a caller was told is so, and stays so: rows it was told were created
\* are there, those it was told were not are not; what a client passed a gate
\* with, and what its users were shown, is its own.
AnswersAreTrue ==
    \A r \in Requests :
        /\ answer[r] = "done" /\ Kind(r) \in {"create", "signup"} => code[r] = asked[r].code
        /\ answer[r] = "done" /\ Kind(r) = "signup" => account[r] = asked[r].account
        /\ answer[r] \in {"refused", "error"} => ~Exists(r) /\ account[r] = None
        /\ answer[r] = "done" /\ Kind(r) = "register" =>
             /\ owner[asked[r].profile] = client[r]
             /\ \A t \in asked[r].templates :
                  home[t] = asked[r].profile /\ <<client[r], t>> \in mapped
        /\ answer[r] = "done" /\ Kind(r) \in {"alimtalk", "brandtalk"} =>
             owner[asked[r].profile] = client[r]
        /\ answer[r] = "done" /\ Kind(r) = "alimtalk" =>
             \E t \in asked[r].templates : home[t] = asked[r].profile
        /\ \A t \in shown[r] : home[t] # None /\ owner[home[t]] = client[r]

\* The step in which r, for a client and its profile k, is told that it has
\* registered its templates.
Registers(r, k) ==
    /\ Kind(r) = "register" /\ asked[r].profile = k
    /\ answer[r] = "none" /\ answer'[r] = "done"

\* A profile or a template that is there is written only under the clientCode
\* of the client that owns it and under its own profileKey, by a registration
\* that succeeds with it: no other client's registration changes its status,
\* however the two overlap, and none that fails has changed it.
OnlyOwnersWrite ==
    [][/\ \A k \in Profiles :
            owner[k] # None /\ <<owner[k], pstatus[k]>>' # <<owner[k], pstatus[k]>> =>
                \E r \in Requests : Registers(r, k) /\ asked[r].code = code[owner[k]]
       /\ \A t \in Templates :
            home[t] # None /\ <<home[t], tstatus[t]>>' # <<home[t], tstatus[t]>> =>
                \E r \in Requests : /\ Registers(r, home[t]) /\ t \in asked[r].templates
                                    /\ asked[r].code = code[owner[home[t]]]]_vars

\* What callers can tell of the registry is one book kept by one clerk: every
\* request takes effect in one step between its call and its answer, though
\* its client is looked up before, its checks are made on a snapshot, and a
\* clash or a crash may end it anywhere.
Book == INSTANCE RegistryBook
RequestsAreAtomic == Book!Spec

-----------------------------------------------------------------------------
(* What the documents say and the code does not do.                        *)

\* client-kakao-schedule.yaml: the tempCode of a reservation is one of an
\* approved template.  A reservation is taken, though, of a template whose
\* registration has been rejected.
ReservedTemplateIsApproved ==
    [][\A r \in Requests :
         Kind(r) = "reserve" /\ answer[r] = "none" /\ answer'[r] = "done" =>
             \A t \in asked[r].templates : home[t] # None => tstatus[t] = "APPROVED"]_vars
=============================================================================
