--------------------------- MODULE Registry_proofs ---------------------------
(***************************************************************************)
(* Proofs about Registry, for any sets of requests, codes, accounts,       *)
(* profiles and templates, any bodies and any number of crashes: one       *)
(* inductive invariant, Inv, and what follows.                             *)
(***************************************************************************)
EXTENDS Registry, TLAPS

(***************************************************************************)
(* The inductive invariant.                                                *)
(***************************************************************************)

\* Where a handler is says what it is and whether it has answered.
Control == \A r \in Requests :
    /\ pc[r] = "done" <=> answer[r] # "none"
    /\ pc[r] \in {"account", "insert"} => Kind(r) = "signup"
    /\ pc[r] \in {"begin", "commit"} => Kind(r) = "register"
    /\ pc[r] = "gate" => Kind(r) \in {"alimtalk", "brandtalk"}

\* A client and its user are created as they were asked for, by a request
\* that has said so.
Created == \A r \in Requests :
    /\ Exists(r) => code[r] = asked[r].code /\ answer[r] = "done"
                    /\ Kind(r) \in {"create", "signup"}
    /\ account[r] # None => Exists(r) /\ account[r] = asked[r].account
    /\ answer[r] = "done" /\ Kind(r) \in {"create", "signup"} => Exists(r)
    /\ answer[r] = "done" /\ Kind(r) = "signup" => account[r] # None

\* The client a handler has found is there, and stays.
Found == \A r \in Requests :
    /\ client[r] # None => Exists(client[r])
    /\ pc[r] \in {"begin", "commit", "gate"} => client[r] # None

\* What a registration has read is not taken back: rows that it saw are as
\* it saw them, and what it is about to commit it found to be the client's.
Seen == \A r \in Requests :
    /\ \A k \in Profiles : seen[r].owner[k] # None => owner[k] = seen[r].owner[k]
    /\ \A t \in Templates : seen[r].home[t] # None => home[t] = seen[r].home[t]
    /\ seen[r].mapped \subseteq mapped
    /\ pc[r] = "commit" =>
         /\ seen[r].owner[asked[r].profile] \in {None, client[r]}
         /\ \A t \in asked[r].templates : seen[r].home[t] \in {None, asked[r].profile}

\* The Kakao tables, as in RegistryIsWhole.
Kakao ==
    /\ \A k \in Profiles : owner[k] # None =>
         Exists(owner[k]) /\ \E t \in Templates : home[t] = k
    /\ \A t \in Templates : home[t] # None =>
         owner[home[t]] # None /\ <<owner[home[t]], t>> \in mapped
    /\ \A m \in Requests, t \in Templates : <<m, t>> \in mapped =>
         home[t] # None /\ owner[home[t]] = m

\* What a registration, a gate or a list has said.
Told == \A r \in Requests :
    /\ answer[r] = "done" /\ Kind(r) = "register" =>
         /\ client[r] # None /\ owner[asked[r].profile] = client[r]
         /\ \A t \in asked[r].templates :
              home[t] = asked[r].profile /\ <<client[r], t>> \in mapped
    /\ answer[r] = "done" /\ Kind(r) \in {"alimtalk", "brandtalk"} =>
         client[r] # None /\ owner[asked[r].profile] = client[r]
    /\ answer[r] = "done" /\ Kind(r) = "alimtalk" =>
         \E t \in asked[r].templates : home[t] = asked[r].profile
    /\ \A t \in shown[r] : client[r] # None /\ <<client[r], t>> \in mapped
    /\ pc[r] # "done" => shown[r] = {}

Inv == TypeOK /\ Control /\ Created /\ ClientsAreApart /\ Found /\ Seen /\ Kakao /\ Told

(***************************************************************************)
(* Every step keeps it.                                                    *)
(***************************************************************************)

\* A handler moves on in its own memory.
LEMMA MoveKeeps ==
  ASSUME Inv, NEW r \in Requests, NEW from \in Waiting \union {"new"}, NEW to \in Waiting,
         Goto(r, from, to), UNCHANGED <<asked, client, seen, clients, kakao, shown, crashes>>,
         to \in {"account", "insert"} => Kind(r) = "signup",
         to \notin {"begin", "commit", "gate"}
  PROVE  Inv'
  <1> USE DEF Inv, TypeOK, clients, kakao, Kind, Exists, Waiting, Goto
  <1>1. TypeOK'
    OBVIOUS
  <1>2. Control'
    BY DEF Control
  <1>3. Created' /\ ClientsAreApart'
    BY DEF Created, ClientsAreApart
  <1>4. Found' /\ Seen' /\ Kakao'
    BY DEF Found, Seen, Kakao
  <1>5. Told'
    BY DEF Told, Control
  <1>6. QED
    BY <1>1, <1>2, <1>3, <1>4, <1>5

\* A handler gives up: a refusal, an exception, an upsert that fails.
LEMMA GiveUpKeeps ==
  ASSUME Inv, NEW r \in Requests, NEW from \in Waiting \union {"new"},
         NEW what \in {"refused", "error"},
         Finish(r, from, what),
         UNCHANGED <<asked, client, seen, clients, kakao, shown, crashes>>
  PROVE  Inv'
  <1> USE DEF Inv, TypeOK, clients, kakao, Kind, Exists, Waiting, Finish
  <1>1. TypeOK'
    OBVIOUS
  <1>2. Control'
    BY DEF Control
  <1>3. Created'
    BY DEF Created, Control
  <1>4. ClientsAreApart'
    BY DEF ClientsAreApart
  <1>5. Found' /\ Seen' /\ Kakao'
    BY DEF Found, Seen, Kakao
  <1>6. Told'
    BY DEF Told, Control
  <1>7. QED
    BY <1>1, <1>2, <1>3, <1>4, <1>5, <1>6

\* A sign-up looks for what is taken.
LEMMA LookupsKeep ==
  ASSUME Inv, NEW r \in Requests, SignupLooksForCode(r) \/ SignupLooksForAccount(r)
  PROVE  Inv'
  <1> USE DEF Waiting
  <1>1. CASE SignupLooksForCode(r)
    BY <1>1, MoveKeeps, GiveUpKeeps DEF SignupLooksForCode, Refuse
  <1>2. CASE SignupLooksForAccount(r)
    <2>1. Kind(r) = "signup"
      BY <1>2 DEF SignupLooksForAccount, Goto, Refuse, Finish, Inv, Control
    <2>2. QED
      BY <1>2, <2>1, MoveKeeps, GiveUpKeeps DEF SignupLooksForAccount, Refuse
  <1>3. QED
    BY <1>1, <1>2

\* The row of a client is inserted, with that of its user or without, under
\* names that are free.
LEMMA InsertKeeps ==
  ASSUME Inv, NEW r \in Requests, NEW st \in {"ACTIVE", "INACTIVE"},
         NEW from \in {"new", "insert"}, Finish(r, from, "done"), InsertClient(r, st), CodeIsFree(asked[r].code),
         \/ /\ Kind(r) = "signup" /\ AccountIsFree(asked[r].account)
            /\ account' = [account EXCEPT ![r] = asked[r].account]
         \/ Kind(r) = "create" /\ UNCHANGED account,
         UNCHANGED <<asked, client, seen, kakao, shown, crashes>>
  PROVE  Inv'
  <1> USE NoneAssumption, BodyAssumption
      DEF Inv, TypeOK, kakao, Kind, Exists, Waiting, Finish, InsertClient
  <1>1. asked[r].code \in Codes /\ asked[r].account \in Accounts
    BY DEF BodyType
  <1>2. code[r] = None /\ account[r] = None
    BY DEF Control, Created
  <1>3. TypeOK'
    BY <1>1
  <1>4. Control'
    BY DEF Control
  <1>5. Created'
    BY <1>1 DEF Created, Control
  <1>6. ClientsAreApart'
    BY <1>1, <1>2 DEF ClientsAreApart, CodeIsFree, AccountIsFree
  <1>7. Found' /\ Seen' /\ Kakao'
    BY <1>1 DEF Found, Seen, Kakao
  <1>8. Told'
    BY DEF Told, Control
  <1>9. QED
    BY <1>3, <1>4, <1>5, <1>6, <1>7, <1>8

\* A sign-up's transaction, and the insert of a client alone.
LEMMA InsertsKeep ==
  ASSUME Inv, NEW r \in Requests, SignupInserts(r) \/ CreateInserts(r)
  PROVE  Inv'
  <1>1. CASE SignupInserts(r)
    <2>1. CASE CodeIsFree(asked[r].code) /\ AccountIsFree(asked[r].account)
      <3>1. Kind(r) = "signup"
        BY <1>1, <2>1 DEF SignupInserts, Finish, Inv, Control
      <3>2. QED
        BY <1>1, <2>1, <3>1, InsertKeeps DEF SignupInserts
    <2>2. CASE ~(CodeIsFree(asked[r].code) /\ AccountIsFree(asked[r].account))
      BY <1>1, <2>2, GiveUpKeeps DEF SignupInserts, Refuse, Waiting
    <2>3. QED
      BY <2>1, <2>2
  <1>2. CASE CreateInserts(r)
    <2>1. CASE CodeIsFree(asked[r].code)
      <3>1. Given(asked[r].status, "NONE", "ACTIVE") \in {"ACTIVE", "INACTIVE"}
        BY BodyAssumption DEF Given, Inv, TypeOK, BodyType
      <3>2. QED
        BY <1>2, <2>1, <3>1, InsertKeeps DEF CreateInserts
    <2>2. CASE ~CodeIsFree(asked[r].code)
      BY <1>2, <2>2, GiveUpKeeps DEF CreateInserts, Refuse, Waiting, clients
    <2>3. QED
      BY <2>1, <2>2
  <1>3. QED
    BY <1>1, <1>2

\* The client is looked up.
LEMMA FindClientKeeps ==
  ASSUME Inv, NEW r \in Requests, FindClient(r)
  PROVE  Inv'
  <1>1. CASE Refuse(r, "new") /\ UNCHANGED client
    BY <1>1, GiveUpKeeps DEF FindClient, Refuse, Waiting
  <1>2. ASSUME NEW m \in Lookup(r), client' = [client EXCEPT ![r] = m],
               \/ Kind(r) = "register" /\ Goto(r, "new", "begin")
               \/ Kind(r) = "reserve" /\ Finish(r, "new", "done")
               \/ Kind(r) \in {"alimtalk", "brandtalk"} /\ Goto(r, "new", "gate")
        PROVE  Inv'
    <2> USE <1>2 DEF Inv, TypeOK, clients, kakao, Kind, Exists, Waiting, FindClient
    <2>1. m \in Requests /\ Exists(m) /\ pc[r] = "new"
      BY NoneAssumption, BodyAssumption DEF Lookup, BodyType, Goto, Finish
    <2>2. /\ pc' \in [Requests -> Waiting \union {"new", "done", "crashed"}]
          /\ answer' \in [Requests -> {"none", "done", "refused", "error"}]
          /\ client' \in [Requests -> Requests \union {None}]
      BY <2>1 DEF Goto, Finish
    <2>3. TypeOK'
      BY <2>2
    <2>4. Control'
      BY DEF Control, Goto, Finish
    <2>5. Created'
      BY <2>1 DEF Created, Control, Goto, Finish
    <2>6. ClientsAreApart'
      BY DEF ClientsAreApart
    <2>7. Found' /\ Kakao'
      <3>1. /\ client'[r] = m
            /\ \A q \in Requests : q # r => client'[q] = client[q] /\ pc'[q] = pc[q]
        BY <2>1 DEF Goto, Finish
      <3>2. Found'
        BY <2>1, <3>1, NoneAssumption DEF Found
      <3>3. Kakao'
        BY DEF Kakao
      <3>4. QED
        BY <3>2, <3>3
    <2>8. Seen'
      BY DEF Seen, Goto, Finish
    <2>9. Told'
      <3>1. /\ shown[r] = {}
            /\ answer'[r] # "none" => Kind(r) = "reserve"
        BY <2>1 DEF Told, Control, Goto, Finish
      <3>2. \A q \in Requests : q # r => /\ client'[q] = client[q] /\ pc'[q] = pc[q]
                                         /\ answer'[q] = answer[q]
        BY <2>1 DEF Goto, Finish
      <3>3. QED
        BY <3>1, <3>2 DEF Told
    <2>10. QED
      BY <2>3, <2>4, <2>5, <2>6, <2>7, <2>8, <2>9
  <1>3. QED
    BY <1>1, <1>2 DEF FindClient

\* A registration reads, all at one moment.
LEMMA BeginKeeps ==
  ASSUME Inv, NEW r \in Requests, Begin(r)
  PROVE  Inv'
  <1> USE DEF Inv, TypeOK, clients, kakao, Kind, Exists, Waiting
  <1>1. seen' = [seen EXCEPT ![r] = Now]
    BY DEF Begin
  <1>2. Now \in [owner: [Profiles -> Requests \union {None}],
                 home: [Templates -> Profiles \union {None}],
                 mapped: SUBSET (Requests \X Templates)]
    BY DEF Now
  <1>3. \A q \in Requests : q # r => seen'[q] = seen[q]
    BY <1>1
  <1>4. seen'[r].owner = owner /\ seen'[r].home = home /\ seen'[r].mapped = mapped
    BY <1>1 DEF Now
  <1>5. \A k \in Profiles, q \in Requests :
          seen'[q].owner[k] # None => owner[k] = seen'[q].owner[k]
    <2> SUFFICES ASSUME NEW k \in Profiles, NEW q \in Requests, seen'[q].owner[k] # None
                 PROVE  owner[k] = seen'[q].owner[k]
      OBVIOUS
    <2>1. CASE q = r
      BY <1>4, <2>1
    <2>2. CASE q # r
      BY <1>3, <2>2 DEF Seen
    <2>3. QED
      BY <2>1, <2>2
  <1>6. \A t \in Templates, q \in Requests :
          seen'[q].home[t] # None => home[t] = seen'[q].home[t]
    <2> SUFFICES ASSUME NEW t \in Templates, NEW q \in Requests, seen'[q].home[t] # None
                 PROVE  home[t] = seen'[q].home[t]
      OBVIOUS
    <2>1. CASE q = r
      BY <1>4, <2>1
    <2>2. CASE q # r
      BY <1>3, <2>2 DEF Seen
    <2>3. QED
      BY <2>1, <2>2
  <1>7. \A q \in Requests : seen'[q].mapped \subseteq mapped
    BY <1>3, <1>4 DEF Seen
  <1>8. CASE Foreign(r) /\ Finish(r, "begin", "refused")
    <2>1. TypeOK'
      BY <1>1, <1>2, <1>8 DEF Begin, Finish
    <2>2. Control' /\ Created' /\ ClientsAreApart'
      BY <1>8 DEF Begin, Finish, Control, Created, ClientsAreApart
    <2>3. Found' /\ Kakao'
      BY <1>8 DEF Begin, Finish, Found, Kakao
    <2>4. Seen'
      BY <1>3, <1>5, <1>6, <1>7, <1>8 DEF Begin, Finish, Seen
    <2>5. Told'
      BY <1>8 DEF Begin, Finish, Told, Control
    <2>6. QED
      BY <2>1, <2>2, <2>3, <2>4, <2>5
  <1>9. CASE ~Foreign(r) /\ Goto(r, "begin", "commit")
    <2>1. TypeOK'
      BY <1>1, <1>2, <1>9 DEF Begin, Goto
    <2>2. Control' /\ Created' /\ ClientsAreApart'
      BY <1>9 DEF Begin, Goto, Control, Created, ClientsAreApart
    <2>3. Found' /\ Kakao'
      BY <1>9 DEF Begin, Goto, Found, Kakao
    <2>4. \A q \in Requests : pc'[q] = "commit" =>
            /\ seen'[q].owner[asked[q].profile] \in {None, client[q]}
            /\ \A t \in asked[q].templates : seen'[q].home[t] \in {None, asked[q].profile}
      <3>1. /\ seen'[r].owner[asked[r].profile] \in {None, client[r]}
            /\ \A t \in asked[r].templates : seen'[r].home[t] \in {None, asked[r].profile}
        BY <1>4, <1>9 DEF Foreign
      <3>2. \A q \in Requests : q # r => pc'[q] = pc[q]
        BY <1>9 DEF Goto
      <3>3. QED
        BY <1>3, <3>1, <3>2 DEF Seen
    <2>5. Seen'
      BY <1>5, <1>6, <1>7, <2>4 DEF Begin, Seen
    <2>6. Told'
      BY <1>9 DEF Begin, Goto, Told, Control
    <2>7. QED
      BY <2>1, <2>2, <2>3, <2>5, <2>6
  <1>10. QED
    BY <1>8, <1>9 DEF Begin, Refuse

\* The writes of a registration that meet no row it did not see.
LEMMA WriteKeeps ==
  ASSUME Inv, NEW r \in Requests, Commit(r), ~Clash(r)
  PROVE  Inv'
  <1> USE DEF Inv, TypeOK, clients, kakao, Kind, Exists, Waiting
  <1> DEFINE k == asked[r].profile
             new == asked[r].templates
             m == client[r]
  <1>1. /\ k \in Profiles /\ new \subseteq Templates /\ new # {}
        /\ asked[r].status \in {"ACTIVE", "INACTIVE", "unset"}
        /\ asked[r].approval \in {"APPROVED", "REJECTED", "unset"}
    BY BodyAssumption DEF Commit, Control, BodyType
  <1>2. m \in Requests /\ Exists(m) /\ Kind(r) = "register"
    BY DEF Commit, Found, Control
  \* The profile is still nobody's or the client's, and so are the templates.
  <1>3. owner[k] \in {None, m}
    BY <1>1 DEF Commit, Clash, Seen
  <1>4. \A t \in new : home[t] \in {None, k}
    BY <1>1 DEF Commit, Clash, Seen
  <1>5. /\ pc' = [pc EXCEPT ![r] = "done"] /\ answer' = [answer EXCEPT ![r] = "done"]
        /\ pc[r] = "commit"
        /\ UNCHANGED <<asked, client, seen, clients, shown, crashes>>
    BY DEF Commit, Finish
  <1>6. /\ owner' = [owner EXCEPT ![k] = IF @ = None THEN m ELSE @]
        /\ home' = [t \in Templates |-> IF t \in new /\ home[t] = None THEN k ELSE home[t]]
        /\ mapped' = mapped \union ({m} \X new)
    BY DEF Commit
  <1>7. /\ pstatus' = [pstatus EXCEPT ![k] = Given(asked[r].status, @, "ACTIVE")]
        /\ tstatus' = [t \in Templates |->
                         IF t \in new THEN Given(asked[r].approval, tstatus[t], "APPROVED")
                         ELSE tstatus[t]]
    BY DEF Commit
  <1> HIDE DEF k, new, m
  \* What the tables are afterwards.
  <1>8. owner' \in [Profiles -> Requests \union {None}] /\ owner'[k] = m
    BY <1>1, <1>2, <1>3, <1>6
  <1>9. \A j \in Profiles : j # k => owner'[j] = owner[j]
    BY <1>6
  <1>10. home' \in [Templates -> Profiles \union {None}]
    BY <1>1, <1>6
  <1>11. /\ \A t \in new : home'[t] = k
         /\ \A t \in Templates : t \notin new => home'[t] = home[t]
    BY <1>1, <1>4, <1>6
  <1>12. /\ mapped' \subseteq Requests \X Templates /\ mapped \subseteq mapped'
         /\ \A n \in Requests, t \in Templates :
              <<n, t>> \in mapped' <=> <<n, t>> \in mapped \/ (n = m /\ t \in new)
    BY <1>1, <1>2, <1>6
  <1>13. TypeOK'
    <2>1. pstatus' \in [Profiles -> {"NONE", "ACTIVE", "INACTIVE"}]
      BY <1>1, <1>7 DEF Given
    <2>2. tstatus' \in [Templates -> {"NONE", "APPROVED", "REJECTED"}]
      BY <1>1, <1>7 DEF Given
    <2>3. QED
      BY <1>5, <1>8, <1>10, <1>12, <2>1, <2>2
  <1>14. Control'
    BY <1>5 DEF Control
  <1>15. Created' /\ ClientsAreApart'
    BY <1>2, <1>5 DEF Created, ClientsAreApart, Control
  <1>16. Found'
    BY <1>5 DEF Found
  <1>17. Seen'
    <2>1. \A j \in Profiles : owner[j] # None => owner'[j] = owner[j]
      BY <1>3, <1>8, <1>9
    <2>2. \A t \in Templates : home[t] # None => home'[t] = home[t]
      BY <1>4, <1>11
    <2>3. QED
      BY <1>5, <1>12, <2>1, <2>2 DEF Seen
  <1>18. Kakao'
    <2>1. ASSUME NEW j \in Profiles, owner'[j] # None
          PROVE  code'[owner'[j]] # None /\ \E t \in Templates : home'[t] = j
      <3>1. CASE j = k
        BY <1>1, <1>2, <1>5, <1>8, <1>11, <3>1
      <3>2. CASE j # k
        <4>1. PICK t \in Templates : home[t] = j
          BY <1>9, <2>1, <3>2 DEF Kakao
        <4>2. home'[t] = j
          BY <1>4, <1>11, <3>2, <4>1, NoneAssumption
        <4>3. QED
          BY <1>5, <1>9, <2>1, <3>2, <4>2 DEF Kakao
      <3>3. QED
        BY <3>1, <3>2
    <2>2. ASSUME NEW t \in Templates, home'[t] # None
          PROVE  owner'[home'[t]] # None /\ <<owner'[home'[t]], t>> \in mapped'
      <3>1. CASE t \in new
        BY <1>2, <1>8, <1>11, <1>12, <3>1, NoneAssumption
      <3>2. CASE t \notin new
        <4>1. home'[t] = home[t] /\ owner[home[t]] # None /\ <<owner[home[t]], t>> \in mapped
          BY <1>11, <2>2, <3>2 DEF Kakao
        <4>2. owner'[home[t]] = owner[home[t]]
          BY <1>3, <1>8, <1>9, <2>2, <4>1
        <4>3. QED
          BY <1>12, <4>1, <4>2
      <3>3. QED
        BY <3>1, <3>2
    <2>3. ASSUME NEW n \in Requests, NEW t \in Templates, <<n, t>> \in mapped'
          PROVE  home'[t] # None /\ owner'[home'[t]] = n
      <3>1. CASE n = m /\ t \in new
        BY <1>1, <1>8, <1>11, <3>1, NoneAssumption
      <3>2. CASE <<n, t>> \in mapped
        <4>1. home[t] # None /\ owner[home[t]] = n
          BY <3>2 DEF Kakao
        <4>2. home'[t] = home[t]
          BY <1>4, <1>11, <4>1
        <4>3. QED
          BY <1>3, <1>8, <1>9, <4>1, <4>2, NoneAssumption
      <3>3. QED
        BY <1>12, <2>3, <3>1, <3>2
    <2>4. QED
      BY <2>1, <2>2, <2>3 DEF Kakao
  <1>19. Told'
    <2> SUFFICES ASSUME NEW q \in Requests
        PROVE  /\ answer'[q] = "done" /\ Kind(q) = "register" =>
                    /\ client[q] # None /\ owner'[asked[q].profile] = client[q]
                    /\ \A t \in asked[q].templates :
                         home'[t] = asked[q].profile /\ <<client[q], t>> \in mapped'
               /\ answer'[q] = "done" /\ Kind(q) \in {"alimtalk", "brandtalk"} =>
                    client[q] # None /\ owner'[asked[q].profile] = client[q]
               /\ answer'[q] = "done" /\ Kind(q) = "alimtalk" =>
                    \E t \in asked[q].templates : home'[t] = asked[q].profile
               /\ \A t \in shown[q] : client[q] # None /\ <<client[q], t>> \in mapped'
               /\ pc'[q] # "done" => shown[q] = {}
      BY <1>5 DEF Told
    <2>1. CASE q = r
      <3>1. shown[q] = {}
        BY <1>5, <2>1 DEF Told
      <3>2. pc'[q] = "done"
        BY <1>5, <2>1
      <3>3. m # None /\ \A t \in new : <<m, t>> \in mapped'
        BY <1>1, <1>2, <1>12, NoneAssumption
      <3>4. QED
        BY <1>2, <1>8, <1>11, <2>1, <3>1, <3>2, <3>3 DEF k, m, new
    <2>2. CASE q # r
      <3>1. answer'[q] = answer[q] /\ pc'[q] = pc[q]
        BY <1>5, <2>2
      <3>2. asked[q].profile \in Profiles /\ asked[q].templates \subseteq Templates
        BY BodyAssumption DEF BodyType
      <3>3. \A j \in Profiles : owner[j] # None => owner'[j] = owner[j]
        BY <1>3, <1>8, <1>9
      <3>4. \A t \in Templates : home[t] # None => home'[t] = home[t]
        BY <1>4, <1>11
      <3>5. None \notin Profiles
        BY NoneAssumption
      <3>6. ASSUME answer[q] = "done", Kind(q) = "register"
            PROVE  /\ client[q] # None /\ owner'[asked[q].profile] = client[q]
                   /\ \A t \in asked[q].templates :
                        home'[t] = asked[q].profile /\ <<client[q], t>> \in mapped'
        BY <1>12, <3>2, <3>3, <3>4, <3>5, <3>6 DEF Told
      <3>7. ASSUME answer[q] = "done", Kind(q) \in {"alimtalk", "brandtalk"}
            PROVE  client[q] # None /\ owner'[asked[q].profile] = client[q]
        BY <3>2, <3>3, <3>7 DEF Told
      <3>8. ASSUME answer[q] = "done", Kind(q) = "alimtalk"
            PROVE  \E t \in asked[q].templates : home'[t] = asked[q].profile
        <4>1. PICK t \in asked[q].templates : home[t] = asked[q].profile
          BY <3>8 DEF Told
        <4>2. t \in Templates /\ home[t] # None
          BY <3>2, <3>5, <4>1
        <4>3. home'[t] = asked[q].profile
          BY <3>4, <4>1, <4>2
        <4>4. QED
          BY <4>1, <4>3
      <3>9. \A t \in shown[q] : client[q] # None /\ <<client[q], t>> \in mapped'
        BY <1>12 DEF Told
      <3>10. pc'[q] # "done" => shown[q] = {}
        BY <3>1 DEF Told
      <3>11. QED
        BY <3>1, <3>6, <3>7, <3>8, <3>9, <3>10
    <2>3. QED
      BY <2>1, <2>2
  <1>20. QED
    BY <1>13, <1>14, <1>15, <1>16, <1>17, <1>18, <1>19

\* A registration commits or is rolled back.
LEMMA CommitKeeps ==
  ASSUME Inv, NEW r \in Requests, Commit(r)
  PROVE  Inv'
  <1>1. CASE Clash(r)
    BY <1>1, GiveUpKeeps DEF Commit, Waiting
  <1>2. QED
    BY <1>1, WriteKeeps

\* The gates.
LEMMA GateKeeps ==
  ASSUME Inv, NEW r \in Requests, Gate(r)
  PROVE  Inv'
  <1> DEFINE Passes == \/ Kind(r) = "alimtalk" /\ TemplateOpen(r)
                       \/ Kind(r) = "brandtalk" /\ ProfileOpen(r)
  <1>1. CASE ~Passes
    BY <1>1, GiveUpKeeps DEF Gate, Refuse, Waiting
  <1>2. CASE Passes
    <2> USE DEF Inv, TypeOK, clients, kakao, Kind, Exists, Waiting
    <2>1. /\ pc[r] = "gate" /\ pc' = [pc EXCEPT ![r] = "done"]
          /\ answer' = [answer EXCEPT ![r] = "done"]
          /\ UNCHANGED <<asked, client, seen, clients, kakao, shown, crashes>>
      BY <1>2 DEF Gate, Finish
    <2>2. /\ client[r] # None /\ owner[asked[r].profile] = client[r]
          /\ Kind(r) = "alimtalk" => \E t \in asked[r].templates : home[t] = asked[r].profile
          /\ Kind(r) \in {"alimtalk", "brandtalk"}
      BY <1>2, <2>1 DEF TemplateOpen, ProfileOpen, Found
    <2> HIDE DEF Passes
    <2>3. TypeOK'
      BY <2>1
    <2>4. Control'
      BY <2>1 DEF Control
    <2>5. Created'
      BY <2>1, <2>2 DEF Created, Control
    <2>6. ClientsAreApart' /\ Found' /\ Seen' /\ Kakao'
      BY <2>1 DEF ClientsAreApart, Found, Seen, Kakao
    <2>7. Told'
      BY <2>1, <2>2 DEF Told
    <2>8. QED
      BY <2>3, <2>4, <2>5, <2>6, <2>7
  <1>3. QED
    BY <1>1, <1>2

\* The templates of the user's client are shown, or it has not the one asked
\* for.
LEMMA ShowKeeps ==
  ASSUME Inv, NEW r \in Requests, NEW m \in Requests, NEW what \in {"done", "refused"},
         Kind(r) \in {"list", "detail"}, account[m] = asked[r].account,
         Finish(r, "new", what),
         client' = [client EXCEPT ![r] = m],
         \/ shown' = [shown EXCEPT ![r] = MappedTo(m, r)]
         \/ UNCHANGED shown,
         UNCHANGED <<asked, seen, clients, kakao, crashes>>
  PROVE  Inv'
  <1> USE DEF Inv, TypeOK, clients, kakao, Kind, Exists, Waiting
  <1>1. /\ asked[r].templates \subseteq Templates
        /\ Exists(m) /\ pc[r] = "new"
    BY BodyAssumption, NoneAssumption DEF BodyType, Created, Finish
  <1>2. pc' = [pc EXCEPT ![r] = "done"] /\ answer' = [answer EXCEPT ![r] = what]
    BY DEF Finish
  <1>3. TypeOK'
    BY <1>1, <1>2 DEF MappedTo
  <1>4. Control'
    BY <1>1, <1>2 DEF Control
  <1>5. Created' /\ ClientsAreApart'
    BY <1>1, <1>2 DEF Created, Control, ClientsAreApart
  <1>6. Found'
    BY <1>1, <1>2 DEF Found
  <1>7. Seen' /\ Kakao'
    BY <1>1, <1>2 DEF Seen, Kakao
  <1>8. Told'
    BY <1>1, <1>2, NoneAssumption DEF Told, MappedTo
  <1>9. QED
    BY <1>3, <1>4, <1>5, <1>6, <1>7, <1>8

\* The lists for the user who is logged in.
LEMMA ListsKeep ==
  ASSUME Inv, NEW r \in Requests, RefuseUser(r) \/ ListTemplates(r) \/ ShowDetail(r)
  PROVE  Inv'
  <1>1. CASE RefuseUser(r)
    BY <1>1, GiveUpKeeps DEF RefuseUser, Refuse
  <1>2. CASE ListTemplates(r)
    BY <1>2, ShowKeeps DEF ListTemplates
  <1>3. CASE ShowDetail(r)
    BY <1>3, ShowKeeps DEF ShowDetail, Refuse
  <1>4. QED
    BY <1>1, <1>2, <1>3

\* A query fails, or the server dies.
LEMMA FailureKeeps ==
  ASSUME Inv, Crash \/ \E r \in Requests : Throws(r)
  PROVE  Inv'
  <1>1. ASSUME NEW r \in Requests, Throws(r) PROVE Inv'
    BY <1>1, GiveUpKeeps DEF Throws
  <1>2. CASE Crash
    <2> USE <1>2 DEF Inv, TypeOK, Crash, clients, kakao, Kind, Exists, Waiting
    <2>1. TypeOK' /\ Control'
      BY CrashAssumption DEF Control
    <2>2. Created' /\ ClientsAreApart' /\ Kakao'
      BY DEF Created, ClientsAreApart, Kakao
    <2>3. Found' /\ Seen' /\ Told'
      BY DEF Found, Seen, Told
    <2>4. QED
      BY <2>1, <2>2, <2>3
  <1>3. QED
    BY <1>1, <1>2

\* The invariant holds in every state.
THEOREM Invariance == Spec => []Inv
  <1>1. Init => Inv
    <2> SUFFICES ASSUME Init PROVE Inv
      OBVIOUS
    <2> USE NoneAssumption, CrashAssumption DEF Init, Kind, Exists
    <2>1. TypeOK
      BY DEF TypeOK, Now
    <2>2. Control /\ Created /\ ClientsAreApart /\ Found
      BY DEF Control, Created, ClientsAreApart, Found
    <2>3. Seen
      BY DEF Seen, Now
    <2>4. Kakao /\ Told
      BY DEF Kakao, Told
    <2>5. QED
      BY <2>1, <2>2, <2>3, <2>4 DEF Inv
  <1>2. Inv /\ [Next]_vars => Inv'
    <2> SUFFICES ASSUME Inv, [Next]_vars PROVE Inv'
      OBVIOUS
    <2>1. CASE UNCHANGED vars
      BY <2>1 DEF vars, Inv, TypeOK, Kind, Exists, Control, Created, ClientsAreApart, Found,
         Seen, Kakao, Told
    <2>2. QED
      BY <2>1, LookupsKeep, InsertsKeep, FindClientKeeps, BeginKeeps, CommitKeeps, GateKeeps,
         ListsKeep, FailureKeeps DEF Next
  <1>3. QED
    BY <1>1, <1>2, PTL DEF Spec

(***************************************************************************)
(* What follows.                                                           *)
(***************************************************************************)

\* The variables keep the values the code and the schema allow.
THEOREM TypeCorrect == Spec => []TypeOK
  BY Invariance, PTL DEF Inv

\* The tables fit together in every state, however registrations and sign-ups
\* interleave, fail and are cut short.
THEOREM TablesFit == Spec => []RegistryIsWhole
  <1>1. Inv => RegistryIsWhole
    BY DEF Inv, Kakao, RegistryIsWhole
  <1>2. QED
    BY <1>1, Invariance, PTL

\* What callers are told is so and stays so.
THEOREM AnswersTrue == Spec => []AnswersAreTrue
  <1>1. Inv => AnswersAreTrue
    <2> SUFFICES ASSUME Inv, NEW r \in Requests
        PROVE  /\ answer[r] = "done" /\ Kind(r) \in {"create", "signup"} => code[r] = asked[r].code
               /\ answer[r] = "done" /\ Kind(r) = "signup" => account[r] = asked[r].account
               /\ answer[r] \in {"refused", "error"} => ~Exists(r) /\ account[r] = None
               /\ \A t \in shown[r] : home[t] # None /\ owner[home[t]] = client[r]
      BY DEF Inv, Told, AnswersAreTrue
    <2>1. \A t \in shown[r] : home[t] # None /\ owner[home[t]] = client[r]
      <3> SUFFICES ASSUME NEW t \in shown[r]
                   PROVE  home[t] # None /\ owner[home[t]] = client[r]
        OBVIOUS
      <3>1. t \in Templates /\ client[r] \in Requests /\ <<client[r], t>> \in mapped
        BY DEF Inv, TypeOK, Told
      <3>2. QED
        BY <3>1 DEF Inv, Kakao
    <2>2. QED
      BY <2>1 DEF Inv, Created
  <1>2. QED
    BY <1>1, Invariance, PTL

(***************************************************************************)
(* A request that has looked its client up acts for it later: the client   *)
(* has not changed meanwhile.                                              *)
(***************************************************************************)

\* The client a handler goes on with would be found again.
StillFound == \A r \in Requests :
    pc[r] \in {"begin", "commit", "gate"} =>
        client[r] \in Lookup(r) /\ PhoneFits(r, client[r])

\* Clients stay as they are, and handlers go on with the client they found.
LEMMA ClientsStay ==
  ASSUME Inv, NEW r \in Requests,
         \/ SignupLooksForCode(r) \/ SignupLooksForAccount(r)
         \/ SignupInserts(r) \/ CreateInserts(r)
         \/ FindClient(r) \/ Begin(r) \/ Commit(r)
         \/ Gate(r)
         \/ RefuseUser(r) \/ ListTemplates(r) \/ ShowDetail(r)
         \/ Throws(r)
  PROVE  /\ asked' = asked
         /\ \A m \in Requests : Exists(m) => code'[m] = code[m] /\ standing'[m] = standing[m]
         /\ \A q \in Requests : pc'[q] \in {"begin", "commit", "gate"} =>
              \/ pc[q] \in {"begin", "commit", "gate"} /\ client'[q] = client[q]
              \/ client'[q] \in Lookup(q) /\ PhoneFits(q, client'[q])
  <1> USE DEF Inv, TypeOK, clients, kakao, Exists, Goto, Finish, Refuse
  <1>1. CASE SignupLooksForCode(r) \/ SignupLooksForAccount(r)
    BY <1>1 DEF SignupLooksForCode, SignupLooksForAccount
  <1>2. CASE SignupInserts(r) \/ CreateInserts(r)
    <2>1. pc[r] \in {"new", "insert"} /\ pc' = [pc EXCEPT ![r] = "done"]
      BY <1>2 DEF SignupInserts, CreateInserts
    <2>2. code[r] = None
      BY <2>1 DEF Control, Created
    <2>3. QED
      BY <1>2, <2>1, <2>2 DEF SignupInserts, CreateInserts, InsertClient
  <1>3. CASE FindClient(r)
    <2>1. /\ UNCHANGED <<asked, code, standing>>
          /\ \A q \in Requests : q # r => pc'[q] = pc[q] /\ client'[q] = client[q]
      BY <1>3 DEF FindClient
    <2>2. pc'[r] \in {"begin", "commit", "gate"} =>
            client'[r] \in Lookup(r) /\ PhoneFits(r, client'[r])
      BY <1>3 DEF FindClient
    <2>3. QED
      BY <2>1, <2>2
  <1>4. CASE Begin(r) \/ Commit(r) \/ Gate(r)
    BY <1>4 DEF Begin, Commit, Gate
  <1>5. CASE RefuseUser(r) \/ ListTemplates(r) \/ ShowDetail(r)
    BY <1>5 DEF RefuseUser, ListTemplates, ShowDetail
  <1>6. CASE Throws(r)
    BY <1>6 DEF Throws
  <1>7. QED
    BY <1>1, <1>2, <1>3, <1>4, <1>5, <1>6

LEMMA FoundStays == Spec => []StillFound
  <1>1. Init => StillFound
    BY DEF Init, StillFound
  <1>2. Inv /\ StillFound /\ [Next]_vars => StillFound'
    <2> SUFFICES ASSUME Inv, StillFound, [Next]_vars PROVE StillFound'
      OBVIOUS
    <2>1. ASSUME asked' = asked,
                 \A m \in Requests : Exists(m) =>
                   code'[m] = code[m] /\ standing'[m] = standing[m],
                 \A q \in Requests : pc'[q] \in {"begin", "commit", "gate"} =>
                   \/ pc[q] \in {"begin", "commit", "gate"} /\ client'[q] = client[q]
                   \/ client'[q] \in Lookup(q) /\ PhoneFits(q, client'[q])
          PROVE  StillFound'
      <3> SUFFICES ASSUME NEW q \in Requests, pc'[q] \in {"begin", "commit", "gate"}
                   PROVE  client'[q] \in Lookup(q)' /\ PhoneFits(q, client[q])'
        BY DEF StillFound
      <3>1. client'[q] \in Lookup(q) /\ PhoneFits(q, client'[q])
        BY <2>1 DEF StillFound
      <3>2. asked[q].code # None
        BY NoneAssumption, BodyAssumption DEF Inv, TypeOK, BodyType
      <3>3. client'[q] \in Lookup(q)'
        BY <2>1, <3>1, <3>2 DEF Lookup, Exists, Kind
      <3>4. PhoneFits(q, client[q])'
        BY <2>1, <3>1 DEF PhoneFits, SenderPhone, Kind
      <3>5. QED
        BY <3>3, <3>4
    <2>2. CASE UNCHANGED vars
      BY <2>1, <2>2 DEF vars, StillFound
    <2>3. CASE Crash
      BY <2>1, <2>3 DEF Crash, clients, StillFound, Inv, TypeOK
    <2>4. QED
      BY <2>1, <2>2, <2>3, ClientsStay DEF Next
  <1>3. QED
    BY <1>1, <1>2, Invariance, PTL DEF Spec

(***************************************************************************)
(* Whose writes reach a row.                                               *)
(***************************************************************************)

\* What a registration that meets no row it did not see writes.
LEMMA WritesOwn ==
  ASSUME Inv, StillFound, NEW r \in Requests, Commit(r), ~Clash(r)
  PROVE  /\ Registers(r, asked[r].profile)
         /\ \A k \in Profiles :
              /\ k # asked[r].profile => owner'[k] = owner[k] /\ pstatus'[k] = pstatus[k]
              /\ k = asked[r].profile /\ owner[k] # None => code[owner[k]] = asked[r].code
         /\ \A t \in Templates :
              /\ t \notin asked[r].templates => home'[t] = home[t] /\ tstatus'[t] = tstatus[t]
              /\ t \in asked[r].templates /\ home[t] # None =>
                   home[t] = asked[r].profile /\ code[owner[home[t]]] = asked[r].code
  <1> USE DEF Inv, TypeOK
  <1>1. /\ asked[r].profile \in Profiles /\ asked[r].templates \subseteq Templates
        /\ pc[r] = "commit" /\ Kind(r) = "register"
    BY BodyAssumption DEF Commit, Finish, BodyType, Control
  <1>2. code[client[r]] = asked[r].code
    BY <1>1 DEF StillFound, Lookup
  <1>3. owner[asked[r].profile] \in {None, client[r]}
    BY <1>1 DEF Commit, Clash, Seen
  <1>4. \A t \in asked[r].templates : home[t] \in {None, asked[r].profile}
    BY <1>1 DEF Commit, Clash, Seen
  <1>5. Registers(r, asked[r].profile)
    BY <1>1 DEF Registers, Commit, Finish, Control
  <1>6. ASSUME NEW k \in Profiles
        PROVE  /\ k # asked[r].profile => owner'[k] = owner[k] /\ pstatus'[k] = pstatus[k]
               /\ k = asked[r].profile /\ owner[k] # None => code[owner[k]] = asked[r].code
    BY <1>2, <1>3 DEF Commit
  <1>7. ASSUME NEW t \in Templates
        PROVE  /\ t \notin asked[r].templates =>
                    home'[t] = home[t] /\ tstatus'[t] = tstatus[t]
               /\ t \in asked[r].templates /\ home[t] # None =>
                    home[t] = asked[r].profile /\ code[owner[home[t]]] = asked[r].code
    <2>1. t \notin asked[r].templates => home'[t] = home[t] /\ tstatus'[t] = tstatus[t]
      BY DEF Commit
    <2>2. ASSUME t \in asked[r].templates, home[t] # None
          PROVE  home[t] = asked[r].profile /\ code[owner[home[t]]] = asked[r].code
      BY <1>2, <1>3, <1>4, <2>2 DEF Kakao
    <2>3. QED
      BY <2>1, <2>2
  <1>8. QED
    BY <1>5, <1>6, <1>7

\* No step but a registration of the owner's, that succeeds, changes a
\* profile or a template that is there.
THEOREM OwnersWrite == Spec => OnlyOwnersWrite
  <1> DEFINE P(k) == owner[k] # None /\ <<owner[k], pstatus[k]>>' # <<owner[k], pstatus[k]>> =>
                       \E r \in Requests : Registers(r, k) /\ asked[r].code = code[owner[k]]
             T(t) == home[t] # None /\ <<home[t], tstatus[t]>>' # <<home[t], tstatus[t]>> =>
                       \E r \in Requests : /\ Registers(r, home[t]) /\ t \in asked[r].templates
                                           /\ asked[r].code = code[owner[home[t]]]
  <1>1. Inv /\ StillFound /\ [Next]_vars =>
          [(\A k \in Profiles : P(k)) /\ (\A t \in Templates : T(t))]_vars
    <2> SUFFICES ASSUME Inv, StillFound, Next
                 PROVE  (\A k \in Profiles : P(k)) /\ (\A t \in Templates : T(t))
      OBVIOUS
    <2>1. CASE UNCHANGED kakao
      BY <2>1 DEF kakao
    <2>2. ASSUME NEW r \in Requests, Commit(r), ~Clash(r)
          PROVE  (\A k \in Profiles : P(k)) /\ (\A t \in Templates : T(t))
      <3>1. ASSUME NEW k \in Profiles PROVE P(k)
        BY <2>2, WritesOwn
      <3>2. ASSUME NEW t \in Templates PROVE T(t)
        BY <2>2, WritesOwn
      <3>3. QED
        BY <3>1, <3>2
    <2>3. ASSUME NEW r \in Requests, Commit(r), Clash(r) PROVE UNCHANGED kakao
      BY <2>3 DEF Commit
    <2>4. ASSUME NEW r \in Requests,
                 \/ SignupLooksForCode(r) \/ SignupLooksForAccount(r)
                 \/ SignupInserts(r) \/ CreateInserts(r)
                 \/ FindClient(r) \/ Begin(r) \/ Gate(r)
                 \/ RefuseUser(r) \/ ListTemplates(r) \/ ShowDetail(r) \/ Throws(r)
          PROVE  UNCHANGED kakao
      BY <2>4 DEF SignupLooksForCode, SignupLooksForAccount, SignupInserts,
         CreateInserts, FindClient, Begin, Gate, RefuseUser, ListTemplates, ShowDetail, Throws
    <2>5. Crash => UNCHANGED kakao
      BY DEF Crash
    <2>6. QED
      BY <2>1, <2>2, <2>3, <2>4, <2>5 DEF Next
  <1>2. QED
    BY <1>1, Invariance, FoundStays, PTL DEF Spec, OnlyOwnersWrite

(***************************************************************************)
(* Every request is one step of RegistryBook.                              *)
(***************************************************************************)

\* The step of the book that a step of a handler is.
BookStep == Book!Next \/ UNCHANGED Book!vars

\* A handler moves on and nobody sees it.
LEMMA MoveIsNothing ==
  ASSUME UNCHANGED <<asked, clients, kakao, answer, shown>>
  PROVE  BookStep
  BY DEF BookStep, Book!vars, clients, kakao

\* A handler that refuses has a reason that holds as it does so.
LEMMA RefusalIsStep ==
  ASSUME Inv, NEW r \in Requests, NEW from \in Waiting \union {"new"}, Refuse(r, from), Book!Refusable(r),
         UNCHANGED <<asked, clients, kakao, shown>>
  PROVE  BookStep
  <1>1. answer[r] = "none"
    BY DEF Refuse, Finish, Inv, Control, Waiting
  <1>2. Book!Refuse(r)
    BY <1>1 DEF Refuse, Finish, Book!Refuse, Book!Answer, Book!clients, Book!kakao, clients,
       kakao
  <1>3. QED
    BY <1>2 DEF BookStep, Book!Next

\* One that fails has done nothing.
LEMMA FailureIsStep ==
  ASSUME Inv, NEW r \in Requests, NEW from \in Waiting \union {"new"}, Finish(r, from, "error"),
         UNCHANGED <<asked, clients, kakao, shown>>
  PROVE  BookStep
  <1>1. answer[r] = "none"
    BY DEF Finish, Inv, Control, Waiting
  <1>2. Book!Fail(r)
    BY <1>1 DEF Finish, Book!Fail, Book!Answer, Book!clients, Book!kakao, clients, kakao
  <1>3. QED
    BY <1>2 DEF BookStep, Book!Next

\* Sign-ups and client creations are decided by the names that are taken at
\* the step that answers.
LEMMA EnrollmentIsStep ==
  ASSUME Inv, NEW r \in Requests,
         \/ SignupLooksForCode(r) \/ SignupLooksForAccount(r)
         \/ SignupInserts(r) \/ CreateInserts(r)
  PROVE  BookStep
  <1>1. pc[r] \in {"new", "account", "insert"} /\ answer[r] = "none"
    BY DEF SignupLooksForCode, SignupLooksForAccount, SignupInserts, CreateInserts,
       Goto, Finish, Refuse, Inv, Control
  <1>2. asked[r].kind \in {"create", "signup"}
    BY <1>1 DEF SignupLooksForCode, SignupLooksForAccount, SignupInserts, CreateInserts,
       Goto, Finish, Refuse, Inv, Control, Kind
  <1>3. CASE SignupLooksForCode(r)
    <2>1. asked[r].kind = "signup"
      BY <1>3 DEF SignupLooksForCode, Goto, Finish, Refuse, Inv, Control, Kind
    <2>2. CASE CodeIsFree(asked[r].code)
      BY <1>3, <2>2, MoveIsNothing DEF SignupLooksForCode, Goto
    <2>3. CASE ~CodeIsFree(asked[r].code)
      <3>1. Book!Refusable(r)
        BY <2>1, <2>3 DEF Book!Refusable, Book!NameIsFree, CodeIsFree
      <3>2. QED
        BY <1>3, <2>3, <3>1, RefusalIsStep DEF SignupLooksForCode, Waiting
    <2>4. QED
      BY <2>2, <2>3
  <1>4. CASE SignupLooksForAccount(r)
    <2>1. asked[r].kind = "signup"
      BY <1>4 DEF SignupLooksForAccount, Goto, Finish, Refuse, Inv, Control, Kind
    <2>2. CASE AccountIsFree(asked[r].account)
      BY <1>4, <2>2, MoveIsNothing DEF SignupLooksForAccount, Goto
    <2>3. CASE ~AccountIsFree(asked[r].account)
      <3>1. Book!Refusable(r)
        BY <2>1, <2>3 DEF Book!Refusable, Book!NameIsFree, AccountIsFree
      <3>2. QED
        BY <1>4, <2>3, <3>1, RefusalIsStep DEF SignupLooksForAccount, Waiting
    <2>4. QED
      BY <2>2, <2>3
  <1>5. CASE SignupInserts(r)
    <2>1. asked[r].kind = "signup"
      BY <1>5 DEF SignupInserts, Finish, Refuse, Inv, Control, Kind
    <2>2. CASE CodeIsFree(asked[r].code) /\ AccountIsFree(asked[r].account)
      <3>1. Book!Enroll(r)
        BY <1>1, <1>5, <2>1, <2>2
        DEF SignupInserts, Finish, InsertClient, CodeIsFree, AccountIsFree, clients, kakao,
            Book!Enroll, Book!NameIsFree, Book!Answer, Book!kakao
      <3>2. QED
        BY <3>1 DEF BookStep, Book!Next
    <2>3. CASE ~(CodeIsFree(asked[r].code) /\ AccountIsFree(asked[r].account))
      <3>1. Book!Refusable(r)
        BY <2>1, <2>3 DEF Book!Refusable, Book!NameIsFree, CodeIsFree, AccountIsFree
      <3>2. QED
        BY <1>5, <2>3, <3>1, RefusalIsStep DEF SignupInserts, Waiting
    <2>4. QED
      BY <2>2, <2>3
  <1>6. CASE CreateInserts(r)
    <2>1. asked[r].kind = "create"
      BY <1>6 DEF CreateInserts, Kind
    <2>2. CASE CodeIsFree(asked[r].code)
      <3>1. Book!Enroll(r)
        BY <1>1, <1>6, <2>1, <2>2
        DEF CreateInserts, Finish, InsertClient, CodeIsFree, kakao, Given,
            Book!Enroll, Book!NameIsFree, Book!Answer, Book!kakao, Book!Given
      <3>2. QED
        BY <3>1 DEF BookStep, Book!Next
    <2>3. CASE ~CodeIsFree(asked[r].code)
      <3>1. Book!Refusable(r)
        BY <2>1, <2>3 DEF Book!Refusable, Book!NameIsFree, CodeIsFree
      <3>2. QED
        BY <1>6, <2>3, <3>1, RefusalIsStep DEF CreateInserts, Waiting, clients
    <2>4. QED
      BY <2>2, <2>3
  <1>7. QED
    BY <1>3, <1>4, <1>5, <1>6

\* The client is looked up: that there is none, or none with the number the
\* message is sent from, is a reason to refuse, and a reserved alimtalk message
\* needs no more than one.
LEMMA FindIsStep ==
  ASSUME Inv, NEW r \in Requests, FindClient(r)
  PROVE  BookStep
  <1>1. /\ asked[r].kind \in {"register", "alimtalk", "brandtalk", "reserve"}
        /\ answer[r] = "none" /\ pc[r] = "new"
        /\ UNCHANGED <<asked, clients, kakao, shown>>
    BY DEF FindClient, Goto, Finish, Refuse, Inv, Control, Kind
  <1>2. Lookup(r) = Book!ClientsOf(r)
    BY DEF Lookup, Book!ClientsOf, Kind
  <1>3. CASE (\A m \in Lookup(r) : ~PhoneFits(r, m)) /\ Refuse(r, "new")
    <2>1. CASE asked[r].kind = "register"
      BY <1>1, <1>2, <1>3, <2>1, RefusalIsStep DEF PhoneFits, Kind, Book!Refusable
    <2>2. CASE asked[r].kind # "register"
      <3>1. \A m \in Book!ClientsOf(r) : ~Book!Open(r, m)
        BY <1>2, <1>3, <2>2 DEF PhoneFits, SenderPhone, Kind, Book!Open
      <3>2. Book!Refusable(r)
        BY <1>1, <2>2, <3>1 DEF Book!Refusable
      <3>3. QED
        BY <1>1, <1>3, <3>2, RefusalIsStep
    <2>3. QED
      BY <2>1, <2>2
  <1>4. CASE Goto(r, "new", "begin") \/ Goto(r, "new", "gate")
    BY <1>1, <1>4, MoveIsNothing DEF Goto
  <1>5. ASSUME NEW m \in Lookup(r), PhoneFits(r, m), Kind(r) = "reserve",
               Finish(r, "new", "done")
        PROVE  BookStep
    <2>1. Book!Pass(r, m)
      BY <1>1, <1>2, <1>5
      DEF Finish, Kind, PhoneFits, SenderPhone, clients, kakao, Book!Pass, Book!Open,
          Book!Answer, Book!clients, Book!kakao
    <2>2. m \in Requests
      BY DEF Lookup
    <2>3. QED
      BY <2>1, <2>2 DEF BookStep, Book!Next
  <1>6. QED
    BY <1>3, <1>4, <1>5 DEF FindClient

\* A registration is refused for what its snapshot shows, which is so as it
\* is taken, and its writes are those of the book, for what it has checked on
\* the snapshot is still so.
LEMMA RegistrationIsStep ==
  ASSUME Inv, StillFound, NEW r \in Requests, Begin(r) \/ Commit(r)
  PROVE  BookStep
  <1> DEFINE m == client[r]
             k == asked[r].profile
             new == asked[r].templates
  <1>1. /\ asked[r].kind = "register" /\ answer[r] = "none"
        /\ pc[r] \in {"begin", "commit"}
        /\ UNCHANGED <<asked, clients, shown>>
    BY DEF Begin, Commit, Inv, Control, Kind
  <1>2. m \in Requests /\ m \in Book!ClientsOf(r)
    BY <1>1 DEF StillFound, Lookup, Book!ClientsOf, Kind
  <1>3. CASE Begin(r)
    <2>1. CASE Foreign(r)
      <3>1. ASSUME NEW n \in Book!ClientsOf(r) PROVE ~Book!Fits(r, n)
        <4>1. n = m
          BY <1>2, NoneAssumption, BodyAssumption
          DEF Book!ClientsOf, Inv, TypeOK, BodyType, ClientsAreApart, Exists
        <4>2. QED
          BY <2>1, <4>1 DEF Foreign, Book!Fits
      <3>2. Book!Refusable(r)
        BY <1>1, <3>1 DEF Book!Refusable
      <3>3. QED
        BY <1>1, <1>3, <2>1, <3>2, RefusalIsStep DEF Begin, Waiting
    <2>2. CASE ~Foreign(r)
      BY <1>1, <1>3, <2>2, MoveIsNothing DEF Begin, Goto
    <2>3. QED
      BY <2>1, <2>2
  <1>4. CASE Commit(r) /\ Clash(r)
    BY <1>1, <1>4, FailureIsStep DEF Commit, Waiting
  <1>5. CASE Commit(r) /\ ~Clash(r)
    <2>1. k \in Profiles /\ new \subseteq Templates
      BY BodyAssumption DEF Inv, TypeOK, BodyType
    <2>2. owner[k] \in {None, m} /\ \A t \in new : home[t] \in {None, k}
      BY <1>5, <2>1 DEF Commit, Clash, Inv, Seen
    <2>3. Book!Fits(r, m)
      BY <2>2 DEF Book!Fits
    <2>4. owner' = [owner EXCEPT ![k] = m]
      BY <1>5, <2>1, <2>2 DEF Commit, Inv, TypeOK
    <2>5. home' = [t \in Templates |-> IF t \in new THEN k ELSE home[t]]
      BY <1>5, <2>2 DEF Commit
    <2>6. /\ pstatus' = [pstatus EXCEPT ![k] = Book!Given(asked[r].status, @, "ACTIVE")]
          /\ tstatus' = [t \in Templates |->
                           IF t \in new THEN Book!Given(asked[r].approval, tstatus[t], "APPROVED")
                           ELSE tstatus[t]]
          /\ mapped' = mapped \union ({m} \X new)
          /\ answer' = [answer EXCEPT ![r] = "done"]
      BY <1>5 DEF Commit, Finish, Given, Book!Given
    <2>7. Book!Register(r, m)
      BY <1>1, <1>2, <2>3, <2>4, <2>5, <2>6 DEF Book!Register, Book!Answer, Book!clients, clients
    <2>8. QED
      BY <1>2, <2>7 DEF BookStep, Book!Next
  <1>6. QED
    BY <1>3, <1>4, <1>5

\* The gates decide by the registry of one moment.
LEMMA GateIsStep ==
  ASSUME Inv, StillFound, NEW r \in Requests, Gate(r)
  PROVE  BookStep
  <1> DEFINE m == client[r]
  <1>1. /\ asked[r].kind \in {"alimtalk", "brandtalk"} /\ answer[r] = "none"
        /\ pc[r] = "gate"
        /\ UNCHANGED <<asked, clients, kakao, shown>>
    BY DEF Gate, Finish, Refuse, Inv, Control, Kind
  <1>2. m \in Requests /\ m \in Book!ClientsOf(r)
    BY <1>1 DEF StillFound, Lookup, Book!ClientsOf, Kind
  <1>3. asked[r].phone = asked[m].phone
    BY <1>1 DEF StillFound, PhoneFits, SenderPhone, Kind
  <1>4. Book!Open(r, m) <=> \/ Kind(r) = "alimtalk" /\ TemplateOpen(r)
                            \/ Kind(r) = "brandtalk" /\ ProfileOpen(r)
    BY <1>1, <1>3 DEF Book!Open, TemplateOpen, ProfileOpen, Kind
  <1>5. CASE Book!Open(r, m)
    <2>1. Book!Pass(r, m)
      BY <1>1, <1>2, <1>4, <1>5
      DEF Gate, Finish, Book!Pass, Book!Answer, Book!clients, Book!kakao, clients, kakao
    <2>2. QED
      BY <1>2, <2>1 DEF BookStep, Book!Next
  <1>6. CASE ~Book!Open(r, m)
    <2>1. ASSUME NEW n \in Book!ClientsOf(r) PROVE ~Book!Open(r, n)
      <3>1. n = m
        BY <1>2, NoneAssumption, BodyAssumption
        DEF Book!ClientsOf, Inv, TypeOK, BodyType, ClientsAreApart, Exists
      <3>2. QED
        BY <1>6, <3>1
    <2>2. Book!Refusable(r)
      BY <1>1, <2>1 DEF Book!Refusable
    <2>3. QED
      BY <1>1, <1>4, <1>6, <2>2, RefusalIsStep DEF Gate, Waiting
  <1>7. QED
    BY <1>5, <1>6

\* The lists are of one moment too.
LEMMA ListsAreSteps ==
  ASSUME Inv, NEW r \in Requests, RefuseUser(r) \/ ListTemplates(r) \/ ShowDetail(r)
  PROVE  BookStep
  <1>1. /\ asked[r].kind \in {"list", "detail"} /\ answer[r] = "none" /\ pc[r] = "new"
        /\ UNCHANGED <<asked, clients, kakao>>
    BY DEF RefuseUser, ListTemplates, ShowDetail, Refuse, Finish, Inv, Control, Kind
  <1>2. CASE RefuseUser(r)
    <2>1. Book!Refusable(r)
      BY <1>1, <1>2 DEF RefuseUser, Book!Refusable, AccountIsFree
    <2>2. QED
      BY <1>1, <1>2, <2>1, RefusalIsStep DEF RefuseUser
  <1>3. ASSUME NEW m \in Requests, account[m] = asked[r].account, Finish(r, "new", "done"),
               asked[r].kind = "detail" => MappedTo(m, r) # {},
               shown' = [shown EXCEPT ![r] = MappedTo(m, r)]
        PROVE  BookStep
    <2>1. Book!Show(r, m)
      BY <1>1, <1>3
      DEF Finish, MappedTo, Book!Show, Book!MappedTo, Book!Answer, Book!clients, Book!kakao,
          clients, kakao
    <2>2. QED
      BY <2>1 DEF BookStep, Book!Next
  <1>4. ASSUME NEW m \in Requests, account[m] = asked[r].account, Kind(r) = "detail",
               MappedTo(m, r) = {}, Refuse(r, "new"), UNCHANGED shown
        PROVE  BookStep
    \* No account has two clients.
    <2>1. \A n \in Requests : account[n] = asked[r].account => n = m
      BY <1>4, NoneAssumption, BodyAssumption
      DEF Inv, TypeOK, BodyType, ClientsAreApart
    <2>2. Book!Refusable(r)
      BY <1>4, <2>1 DEF Book!Refusable, Book!MappedTo, MappedTo, Kind
    <2>3. QED
      BY <1>1, <1>4, <2>2, RefusalIsStep
  <1>5. CASE ListTemplates(r)
    BY <1>3, <1>5 DEF ListTemplates, Kind
  <1>6. CASE ShowDetail(r)
    BY <1>3, <1>4, <1>6 DEF ShowDetail
  <1>7. QED
    BY <1>2, <1>5, <1>6

\* Registry implements RegistryBook: what callers can tell of it is one book,
\* in which every request is one step between its call and its answer.
THEOREM RequestsAtomic == Spec => RequestsAreAtomic
  <1>1. Init => Book!Init
    BY DEF Init, Book!Init
  <1>2. Inv /\ StillFound /\ [Next]_vars => [Book!Next]_Book!vars
    <2> SUFFICES ASSUME Inv, StillFound, [Next]_vars PROVE BookStep
      BY DEF BookStep
    <2>1. CASE UNCHANGED vars
      BY <2>1, MoveIsNothing DEF vars, clients, kakao
    <2>2. CASE Crash
      BY <2>2, MoveIsNothing DEF Crash
    <2>3. ASSUME NEW r \in Requests, Throws(r) PROVE BookStep
      BY <2>3, FailureIsStep DEF Throws
    <2>4. QED
      BY <2>1, <2>2, <2>3, EnrollmentIsStep, FindIsStep, RegistrationIsStep, GateIsStep,
         ListsAreSteps DEF Next
  <1>3. QED
    BY <1>1, <1>2, Invariance, FoundStays, PTL DEF Spec, RequestsAreAtomic, Book!Spec
=============================================================================
