----------------------------- MODULE RegistryBook -----------------------------
(***************************************************************************)
(* What the registry promises to its callers: every request is one step,   *)
(* at some moment between its call and its answer, as if one clerk kept    *)
(* one book.  No lookups that age, no snapshots, no clashes, no crashes.   *)
(*                                                                         *)
(* A request that fails is answered so, or never, and leaves nothing.      *)
(* Registry implements this.                                               *)
(***************************************************************************)
CONSTANTS Requests, Codes, Accounts, Phones, Profiles, Templates, None, Bodies

VARIABLES
    asked,                                 \* what a request asks
    code, standing, account,               \* clients, named by the request that made them
    owner, pstatus, home, tstatus, mapped, \* profiles, templates and their clients
    answer, shown                          \* what the callers are told

clients == <<code, standing, account>>
kakao == <<owner, pstatus, home, tstatus, mapped>>
vars == <<asked, code, standing, account, owner, pstatus, home, tstatus, mapped, answer,
          shown>>

Init ==
    /\ asked \in [Requests -> Bodies]
    /\ code = [m \in Requests |-> None]
    /\ standing = [m \in Requests |-> "NONE"]
    /\ account = [m \in Requests |-> None]
    /\ owner = [k \in Profiles |-> None]
    /\ pstatus = [k \in Profiles |-> "NONE"]
    /\ home = [t \in Templates |-> None]
    /\ tstatus = [t \in Templates |-> "NONE"]
    /\ mapped = {}
    /\ answer = [r \in Requests |-> "none"]
    /\ shown = [r \in Requests |-> {}]

Answer(r, what) ==
    /\ answer[r] = "none"
    /\ answer' = [answer EXCEPT ![r] = what]
    /\ UNCHANGED asked

\* The clients a request can be for: those with its code, and for a message
\* only those in service.
ClientsOf(r) ==
    {m \in Requests : code[m] = asked[r].code
                      /\ (asked[r].kind = "register" \/ standing[m] = "ACTIVE")}

\* What the request sets, or what is there, or what a new row begins with.
Given(new, old, default) ==
    IF new # "unset" THEN new ELSE IF old = "NONE" THEN default ELSE old

-----------------------------------------------------------------------------
NameIsFree(r) ==
    /\ \A m \in Requests : code[m] # asked[r].code
    /\ asked[r].kind = "signup" => \A m \in Requests : account[m] # asked[r].account

\* A client, or a client with its user, under names that are free.
Enroll(r) ==
    /\ asked[r].kind \in {"create", "signup"}
    /\ NameIsFree(r)
    /\ Answer(r, "done")
    /\ code' = [code EXCEPT ![r] = asked[r].code]
    /\ standing' = [standing EXCEPT ![r] = IF asked[r].kind = "signup" THEN "ACTIVE"
                                           ELSE Given(asked[r].status, "NONE", "ACTIVE")]
    /\ account' = IF asked[r].kind = "signup"
                  THEN [account EXCEPT ![r] = asked[r].account] ELSE account
    /\ UNCHANGED <<kakao, shown>>

\* The profile and the templates are nobody's, or m's already.
Fits(r, m) ==
    /\ owner[asked[r].profile] \in {None, m}
    /\ \A t \in asked[r].templates : home[t] \in {None, asked[r].profile}

\* A profile with its templates for a client they fit.
Register(r, m) ==
    LET k == asked[r].profile
        new == asked[r].templates
    IN
    /\ asked[r].kind = "register"
    /\ m \in ClientsOf(r) /\ Fits(r, m)
    /\ Answer(r, "done")
    /\ owner' = [owner EXCEPT ![k] = m]
    /\ pstatus' = [pstatus EXCEPT ![k] = Given(asked[r].status, @, "ACTIVE")]
    /\ home' = [t \in Templates |-> IF t \in new THEN k ELSE home[t]]
    /\ tstatus' = [t \in Templates |->
                     IF t \in new THEN Given(asked[r].approval, tstatus[t], "APPROVED")
                     ELSE tstatus[t]]
    /\ mapped' = mapped \union ({m} \X new)
    /\ UNCHANGED <<clients, shown>>

\* The message may go: it is sent from the client's number, and goes to a
\* profile in use, with a template that is approved if it needs one.  A
\* reservation of alimtalk is held to the number only.
Open(r, m) ==
    /\ asked[r].phone = asked[m].phone
    /\ \/ asked[r].kind = "reserve"
       \/ /\ owner[asked[r].profile] = m
          /\ pstatus[asked[r].profile] = "ACTIVE"
          /\ \/ asked[r].kind = "brandtalk"
             \/ /\ asked[r].kind = "alimtalk"
                /\ \E t \in asked[r].templates :
                     /\ <<m, t>> \in mapped
                     /\ tstatus[t] = "APPROVED"
                     /\ home[t] = asked[r].profile

Pass(r, m) ==
    /\ m \in ClientsOf(r) /\ Open(r, m)
    /\ Answer(r, "done")
    /\ UNCHANGED <<clients, kakao, shown>>

\* The templates of a user's client among those asked for.
MappedTo(m, r) == {t \in asked[r].templates : <<m, t>> \in mapped}

\* A list of them, which may be empty, or the one.
Show(r, m) ==
    /\ \/ asked[r].kind = "list"
       \/ asked[r].kind = "detail" /\ MappedTo(m, r) # {}
    /\ account[m] = asked[r].account
    /\ Answer(r, "done")
    /\ shown' = [shown EXCEPT ![r] = MappedTo(m, r)]
    /\ UNCHANGED <<clients, kakao>>

\* Whether there is a reason, at this moment, to refuse a request.
Refusable(r) ==
    CASE asked[r].kind \in {"create", "signup"} -> ~NameIsFree(r)
      [] asked[r].kind = "register" -> \A m \in ClientsOf(r) : ~Fits(r, m)
      [] asked[r].kind = "list" -> \A m \in Requests : account[m] # asked[r].account
      [] asked[r].kind = "detail" ->
            \A m \in Requests : account[m] = asked[r].account => MappedTo(m, r) = {}
      [] OTHER -> \A m \in ClientsOf(r) : ~Open(r, m)

Refuse(r) ==
    /\ Refusable(r)
    /\ Answer(r, "refused")
    /\ UNCHANGED <<clients, kakao, shown>>

\* A caller who is told of an error knows that nothing was done.
Fail(r) ==
    /\ Answer(r, "error")
    /\ UNCHANGED <<clients, kakao, shown>>

Next ==
    \E r \in Requests :
        \/ Enroll(r) \/ Refuse(r) \/ Fail(r)
        \/ \E m \in Requests : Register(r, m) \/ Pass(r, m) \/ Show(r, m)

Spec == Init /\ [][Next]_vars
=============================================================================
