-------------------------- MODULE OfficeServerProofs ------------------------
(***************************************************************************)
(* What the accounts, the documents and the rate limiter promise, for any  *)
(* names, files, addresses and number of requests in flight.               *)
(*                                                                         *)
(* Accounts: nothing that is in flight about an account can change its     *)
(* password or role, for a profile is saved with those that were read, and *)
(* nobody but the first registration writes them.  An act that waits for   *)
(* its audit row waits in one request.                                     *)
(*                                                                         *)
(* Documents: only the upload that drew a name writes to it, and it does   *)
(* no more once the name has been answered.                                *)
(*                                                                         *)
(* Limiter: of a bucket in use, what is left and what was let through      *)
(* since a minute's pause make the whole rate, for only such a pause fills *)
(* the bucket, and it fills all of it; and what was let through within the *)
(* last minute was let through since the last such pause.                  *)
(***************************************************************************)
EXTENDS Office, TLAPS, Sequences, FiniteSetTheorems

-----------------------------------------------------------------------------
(* A request about an account, between two of its statements. *)
AccRequestOK(q) ==
  /\ q.pc \in {"lookup", "insert"} =>
       /\ q.name \in Acc!Names
       /\ q.row.password \in Passwords /\ q.row.profile \in Profiles
  /\ q.pc = "insert" => q.row.role \in Acc!Roles
  /\ q.pc \in {"findMe", "saveMe"} =>
       /\ q.operator \in Acc!Names /\ users[q.operator] # Acc!NoUser
       /\ q.row.profile \in Profiles
  /\ q.pc = "saveMe" => /\ q.row.password = users[q.operator].password
                        /\ q.row.role = users[q.operator].role
  /\ q.pc = "audit" => /\ q.act \in DOMAIN acts /\ q.operator = acts[q.act].by
                       /\ \A a \in audit : a.act # q.act

(* No two requests wait with one act. *)
OneRequestAnAct ==
  \A r, s \in Slots :
    /\ accReq[r].pc = "audit" /\ accReq[s].pc = "audit"
    /\ accReq[r].act = accReq[s].act
    => r = s

Act == [kind : {"register", "login", "profile"}, by : Acc!Names \cup {Nothing}]

AccountsInv ==
  /\ Acc!TypeOK
  /\ acts \in Seq(Act)
  /\ Acc!RegistrationStands
  /\ Acc!TokensCarryTheRole
  /\ Acc!AuditTellsWhatHappened
  /\ \A r \in Slots : AccRequestOK(accReq[r])
  /\ OneRequestAnAct

-----------------------------------------------------------------------------
(* A request about a file or a document, between two of its steps. *)
DocRequestOK(q) ==
  /\ q.pc \in {"create_file", "copy"} => q.file \in Allowed
  /\ q.pc = "copy" => q.url \in drawnAt /\ \A a \in answers : a.url # q.url
  /\ q.pc \in {"bind", "case", "insert"} =>
       [url |-> q.url, file |-> q.file] \in answers
  /\ q.pc = "insert" => q.case \in OpenedCases
  /\ q.pc = "delete" => q.doc \in Docs

(* No two uploads write to one name. *)
OneUploadAName ==
  \A r, s \in Slots :
    /\ docReq[r].pc = "copy" /\ docReq[s].pc = "copy"
    /\ docReq[r].url = docReq[s].url
    => r = s

DocumentsInv ==
  /\ Doc!TypeOK
  /\ \A a \in answers : /\ a.url \in drawnAt
                        /\ disk[a.url] = [file |-> a.file, whole |-> TRUE]
  /\ \A d \in Docs : docs[d] # Doc!NoDoc =>
       meant[d] \in answers /\ meant[d].url = docs[d].url
  /\ \A r \in Slots : DocRequestOK(docReq[r])
  /\ OneUploadAName

-----------------------------------------------------------------------------
(* What is left in a bucket, and what was let through since a pause. *)
BucketOK(ip) ==
  \/ /\ buckets[ip] = Rate!NoBucket /\ spent[ip] = 0 /\ recent[ip] = {}
  \/ /\ buckets[ip] \in [tokens : 0..Rate!perMin, age : 0..Minute]
     /\ spent[ip] = Rate!perMin - buckets[ip].tokens

(* Nothing of the last minute is younger than the last request, and all of *)
(* it that was let through counts as spent.                                *)
RecentOK(ip) ==
  /\ IsFiniteSet(recent[ip])
  /\ \A q \in recent[ip] : buckets[ip].age <= q.age
  /\ Cardinality(Rate!Granted(ip)) <= spent[ip]

LimiterInv ==
  /\ Rate!TypeOK
  /\ \A ip \in Ips : BucketOK(ip) /\ RecentOK(ip)
  /\ Rate!RefusedOnceSpent

(* Who is registered has a row of an account. *)
LEMMA RegisteredRow ==
  ASSUME Acc!TypeOK, NEW n \in Acc!Names, users[n] # Acc!NoUser
  PROVE  users[n] \in Acc!User
BY DEF Acc!TypeOK

LEMMA UserIsSomeone == Acc!NoUser \notin Acc!User
BY DEF Acc!NoUser, Acc!User, Acc!Roles

LEMMA AccIdleOK == Acc!Idle \in Acc!Requests /\ AccRequestOK(Acc!Idle)
<1>1. 0 \in 0..MaxActs
  BY OfficeAssumption DEF Acc!AccountsAssumption
<1> QED BY <1>1 DEF Acc!Idle, Acc!Requests, Acc!NoUser, AccRequestOK

LEMMA AccAnswerOK ==
  ASSUME NEW outcome \in {"ok", "refused", "exists", "not_found", "forbidden",
                          "failed"}
  PROVE  /\ Acc!Answer(outcome) \in Acc!Requests
         /\ AccRequestOK(Acc!Answer(outcome))
         /\ Acc!Answer(outcome).pc = "done"
<1>1. Acc!Answer(outcome) \in Acc!Requests /\ Acc!Answer(outcome).pc = "done"
  BY AccIdleOK DEF Acc!Answer, Acc!Requests
<1> QED BY <1>1 DEF AccRequestOK

(* A request goes on without writing anything (user_service.go, what comes *)
(* between the statements that write).                                     *)
LEMMA AccRequestGoesOn ==
  ASSUME AccountsInv, NEW r \in Slots, NEW q \in Acc!Requests,
         AccRequestOK(q), q.pc # "audit",
         Acc!Goto(r, q), UNCHANGED <<users, tokens, audit, now, acts, accepted>>
  PROVE  AccountsInv'
<1>1. accReq' = [accReq EXCEPT ![r] = q]
  BY DEF Acc!Goto
<1>2. accReq' \in [Slots -> Acc!Requests] /\ Acc!TypeOK'
  BY <1>1 DEF AccountsInv, Acc!TypeOK
<1>3. \A s \in Slots : accReq'[s] = IF s = r THEN q ELSE accReq[s]
  BY <1>1 DEF AccountsInv, Acc!TypeOK
<1>4. \A s \in Slots : AccRequestOK(accReq[s])'
  BY <1>3 DEF AccountsInv, AccRequestOK
<1>5. OneRequestAnAct'
  BY <1>3 DEF AccountsInv, OneRequestAnAct
<1> QED
  BY <1>2, <1>4, <1>5 DEF AccountsInv, Acc!RegistrationStands,
     Acc!TokensCarryTheRole, Acc!AuditTellsWhatHappened

LEMMA RefusalKeeps ==
  ASSUME AccountsInv, NEW r \in Slots,
         NEW outcome \in {"ok", "refused", "exists", "not_found", "forbidden",
                          "failed"},
         Acc!Refuses(r, outcome)
  PROVE  AccountsInv'
BY AccAnswerOK, AccRequestGoesOn, Zenon DEF Acc!Refuses

LEMMA AccInitHolds == Acc!Init => AccountsInv
<1>1. 0 \in 0..MaxTime /\ MaxActs \in Nat
  BY OfficeAssumption DEF Acc!AccountsAssumption
<1> QED
  BY <1>1, AccIdleOK DEF Acc!Init, AccountsInv, Acc!TypeOK,
     Acc!RegistrationStands, Acc!TokensCarryTheRole,
     Acc!AuditTellsWhatHappened, OneRequestAnAct, Acc!Idle

LEMMA BeginKeeps ==
  ASSUME AccountsInv, NEW r \in Slots, NEW q \in Acc!Requests,
         AccRequestOK(q), q.pc # "audit", Acc!Begin(r, q)
  PROVE  AccountsInv'
BY AccRequestGoesOn, Zenon DEF Acc!Begin

LEMMA BeginRegisterKeeps ==
  ASSUME AccountsInv, NEW r \in Slots, NEW n \in Typed, NEW p \in Passwords,
         NEW role \in Acc!Roles \cup {"none"},
         Acc!BeginRegister(r, n, p, role)
  PROVE  AccountsInv'
<1> DEFINE profile == CHOOSE x \in Profiles : TRUE
           row == [password |-> p, role |-> role, profile |-> profile]
           next == [Acc!Idle EXCEPT !.pc = "lookup", !.name = Trim[n],
                                    !.row = row]
<1>1. CASE p \in Short
  BY <1>1, AccAnswerOK, BeginKeeps DEF Acc!BeginRegister
<1>2. CASE p \notin Short
  <2>1. profile \in Profiles
    BY OfficeAssumption DEF Acc!AccountsAssumption
  <2> HIDE DEF profile
  <2>2. /\ row \in [password : Passwords \cup {"none"},
                    role : Acc!Roles \cup {"none"},
                    profile : Profiles \cup {"none"}]
        /\ row.password = p /\ row.profile = profile
    BY <2>1
  <2>3. Trim[n] \in Acc!Names
    BY DEF Acc!Names
  <2>4. Acc!Begin(r, next)
    BY <1>2 DEF Acc!BeginRegister, profile
  <2> HIDE DEF row
  <2>5. next \in Acc!Requests
    BY <2>2, <2>3, AccIdleOK DEF Acc!Requests
  <2>6. next.pc = "lookup" /\ next.name = Trim[n] /\ next.row = row
    BY AccIdleOK DEF Acc!Requests
  <2> HIDE DEF next
  <2>7. AccRequestOK(next)
    BY <2>1, <2>2, <2>3, <2>6 DEF AccRequestOK
  <2> QED BY <2>4, <2>5, <2>6, <2>7, BeginKeeps
<1> QED BY <1>1, <1>2

LEMMA BeginLoginKeeps ==
  ASSUME AccountsInv, NEW r \in Slots, NEW n \in Typed, NEW p \in Passwords,
         Acc!BeginLogin(r, n, p)
  PROVE  AccountsInv'
<1> DEFINE next == [Acc!Idle EXCEPT !.pc = "login", !.name = n,
                                    !.row.password = p]
<1>1. Acc!Begin(r, next)
  BY DEF Acc!BeginLogin
<1>2. next \in Acc!Requests /\ next.pc = "login"
  BY AccIdleOK DEF Acc!Requests
<1> HIDE DEF next
<1>3. AccRequestOK(next)
  BY <1>2 DEF AccRequestOK
<1> QED BY <1>1, <1>2, <1>3, BeginKeeps

LEMMA BeginProfileKeeps ==
  ASSUME AccountsInv, NEW r \in Slots, NEW t \in tokens, NEW p \in Profiles,
         Acc!BeginProfile(r, t, p)
  PROVE  AccountsInv'
<1> DEFINE next == [Acc!Idle EXCEPT !.pc = "findMe", !.operator = t.name,
                                    !.row.profile = p]
<1>1. CASE ~Acc!Admitted(t)
  BY <1>1, AccAnswerOK, BeginKeeps DEF Acc!BeginProfile
<1>2. CASE Acc!Admitted(t)
  <2>1. t.name \in Acc!Names /\ users[t.name] # Acc!NoUser
    BY DEF AccountsInv, Acc!TypeOK, Acc!Token, Acc!TokensCarryTheRole
  <2>2. Acc!Begin(r, next)
    BY <1>2 DEF Acc!BeginProfile
  <2>3. /\ next \in Acc!Requests /\ next.pc = "findMe"
        /\ next.operator = t.name /\ next.row.profile = p
    BY ZenonT(60), <2>1, AccIdleOK DEF Acc!Requests
  <2> HIDE DEF next
  <2>4. AccRequestOK(next)
    BY <2>1, <2>3 DEF AccRequestOK
  <2> QED BY <2>2, <2>3, <2>4, BeginKeeps
<1> QED BY <1>1, <1>2

LEMMA BeginListKeeps ==
  ASSUME AccountsInv, NEW r \in Slots, NEW t \in tokens, Acc!BeginList(r, t)
  PROVE  AccountsInv'
<1> DEFINE next == [Acc!Idle EXCEPT !.pc = "list", !.operator = t.name]
<1>1. CASE ~Acc!Admitted(t) \/ ~Acc!RequireAdmin(t)
  BY <1>1, AccAnswerOK, BeginKeeps DEF Acc!BeginList
<1>2. CASE Acc!Admitted(t) /\ Acc!RequireAdmin(t)
  <2>1. t.name \in Acc!Names
    BY DEF AccountsInv, Acc!TypeOK, Acc!Token
  <2>2. Acc!Begin(r, next)
    BY <1>2 DEF Acc!BeginList
  <2>3. next \in Acc!Requests /\ next.pc = "list"
    BY <2>1, AccIdleOK DEF Acc!Requests
  <2> HIDE DEF next
  <2>4. AccRequestOK(next)
    BY <2>3 DEF AccRequestOK
  <2> QED BY <2>2, <2>3, <2>4, BeginKeeps
<1> QED BY <1>1, <1>2

LEMMA AccClientStepKeeps ==
  ASSUME AccountsInv, NEW r \in Slots, Acc!ClientStep(r)
  PROVE  AccountsInv'
<1>1. CASE Acc!Received(r)
  <2>1. Acc!Idle.pc # "audit"
    BY DEF Acc!Idle
  <2> QED BY <1>1, <2>1, AccIdleOK, AccRequestGoesOn DEF Acc!Received
<1> QED
  BY <1>1, BeginRegisterKeeps, BeginLoginKeeps, BeginProfileKeeps,
     BeginListKeeps DEF Acc!ClientStep

-----------------------------------------------------------------------------
LEMMA FindByUsernameKeeps ==
  ASSUME AccountsInv, NEW r \in Slots, Acc!FindByUsername(r)
  PROVE  AccountsInv'
<1> DEFINE next == [accReq[r] EXCEPT !.pc = "insert"]
<1>1. accReq[r] \in Acc!Requests /\ AccRequestOK(accReq[r])
  BY DEF AccountsInv, Acc!TypeOK
<1>2. CASE users[accReq[r].name] # Acc!NoUser \/ accReq[r].row.role \notin Acc!Roles
  BY <1>2, RefusalKeeps DEF Acc!FindByUsername
<1>3. CASE ~(users[accReq[r].name] # Acc!NoUser \/ accReq[r].row.role \notin Acc!Roles)
  <2>1. /\ accReq[r].pc = "lookup" /\ Acc!Goto(r, next)
        /\ UNCHANGED <<users, tokens, audit, now, acts, accepted>>
    BY <1>3 DEF Acc!FindByUsername
  <2>2. /\ next \in Acc!Requests /\ next.pc = "insert"
        /\ next.name = accReq[r].name /\ next.row = accReq[r].row
    BY <1>1 DEF Acc!Requests
  <2> HIDE DEF next
  <2>3. AccRequestOK(next)
    BY <1>1, <1>3, <2>1, <2>2 DEF AccRequestOK
  <2> QED BY <2>1, <2>2, <2>3, AccRequestGoesOn
<1> QED BY <1>2, <1>3

LEMMA FindMeKeeps ==
  ASSUME AccountsInv, NEW r \in Slots, Acc!FindMe(r)
  PROVE  AccountsInv'
<1> DEFINE q == accReq[r]
           row == users[q.operator]
           saved == [row EXCEPT !.profile = q.row.profile]
           next == [q EXCEPT !.pc = "saveMe", !.row = saved]
<1>1. q \in Acc!Requests /\ AccRequestOK(q) /\ q.pc = "findMe"
  BY DEF AccountsInv, Acc!TypeOK, Acc!FindMe
<1>2. CASE row = Acc!NoUser
  BY <1>2, RefusalKeeps DEF Acc!FindMe
<1>3. CASE row # Acc!NoUser
  <2>1. Acc!Goto(r, next) /\ UNCHANGED <<users, tokens, audit, now, acts, accepted>>
    BY <1>3 DEF Acc!FindMe
  <2>2. row \in Acc!User
    BY <1>1, <1>3, RegisteredRow DEF AccountsInv, AccRequestOK
  <2>3. /\ saved \in Acc!User /\ saved.password = row.password
        /\ saved.role = row.role /\ saved.profile = q.row.profile
    BY <1>1, <2>2 DEF AccRequestOK, Acc!User
  <2> HIDE DEF saved
  <2>4. /\ next \in Acc!Requests /\ next.pc = "saveMe" /\ next.row = saved
        /\ next.operator = q.operator
    BY <1>1, <2>3 DEF Acc!Requests, Acc!User
  <2> HIDE DEF next
  <2>5. AccRequestOK(next)
    BY <1>1, <2>3, <2>4 DEF AccRequestOK
  <2> QED BY <2>1, <2>4, <2>5, AccRequestGoesOn
<1> QED BY <1>2, <1>3

LEMMA ListUsersKeeps ==
  ASSUME AccountsInv, NEW r \in Slots, Acc!ListUsers(r)
  PROVE  AccountsInv'
<1> DEFINE next == [accReq[r] EXCEPT !.pc = "done", !.outcome = "ok"]
<1>1. accReq[r] \in Acc!Requests
  BY DEF AccountsInv, Acc!TypeOK
<1>2. next \in Acc!Requests /\ next.pc = "done"
  BY <1>1 DEF Acc!Requests
<1> HIDE DEF next
<1>3. AccRequestOK(next)
  BY <1>2 DEF AccRequestOK
<1> QED BY <1>2, <1>3, AccRequestGoesOn DEF Acc!ListUsers, next

(* An act goes on record under a number no request and no audit row has,   *)
(* and waits in the request that carried it out (audit_log.go, c.Next).    *)
LEMMA ActGoesOnRecord ==
  ASSUME AccountsInv, NEW r \in Slots,
         NEW kind \in {"register", "login", "profile"},
         Acc!CarriedOut(r, kind), audit' = audit
  PROVE  /\ accReq' \in [Slots -> Acc!Requests]
         /\ accReq'[r].pc = "audit"
         /\ \A s \in Slots \ {r} : accReq'[s] = accReq[s]
         /\ acts' \in Seq(Act) /\ Len(acts') <= MaxActs
         /\ \A k \in DOMAIN acts : k \in DOMAIN acts' /\ acts'[k] = acts[k]
         /\ OneRequestAnAct' /\ Acc!AuditTellsWhatHappened'
         /\ AccRequestOK(accReq[r])'
<1> DEFINE q == accReq[r]
           act == [kind |-> kind, by |-> q.operator]
           number == Len(acts) + 1
           next == [q EXCEPT !.pc = "audit", !.act = number, !.outcome = "ok"]
<1>1. q \in Acc!Requests
  BY DEF AccountsInv, Acc!TypeOK
<1>2. /\ acts \in Seq(Act) /\ Len(acts) \in Nat /\ Len(acts) < MaxActs
      /\ MaxActs \in Nat
  BY OfficeAssumption DEF Acc!AccountsAssumption, AccountsInv, Acc!CarriedOut
<1>3. act \in Act /\ act.by = q.operator
  BY <1>1 DEF Act, Acc!Requests
<1>4. acts' = Append(acts, act) /\ accReq' = [accReq EXCEPT ![r] = next]
  BY DEF Acc!CarriedOut, Acc!Goto
<1> HIDE DEF act
<1>5. /\ acts' \in Seq(Act) /\ Len(acts') = Len(acts) + 1
      /\ DOMAIN acts = 1..Len(acts) /\ DOMAIN acts' = 1..number
      /\ acts'[number] = act
      /\ \A k \in DOMAIN acts : acts'[k] = acts[k]
  BY <1>2, <1>3, <1>4
<1>6. number \in 0..MaxActs
  BY <1>2
<1> HIDE DEF number
<1>7. /\ next \in Acc!Requests /\ next.pc = "audit" /\ next.act = number
      /\ next.operator = q.operator
  BY <1>1, <1>6 DEF Acc!Requests
<1> HIDE DEF next
<1>8. /\ accReq' \in [Slots -> Acc!Requests] /\ accReq'[r] = next
      /\ \A s \in Slots \ {r} : accReq'[s] = accReq[s]
  BY <1>4, <1>7 DEF AccountsInv, Acc!TypeOK
<1>9. number \notin DOMAIN acts /\ number \in DOMAIN acts'
  BY <1>2, <1>5 DEF number
<1>10. /\ \A s \in Slots : accReq[s].pc = "audit" => accReq[s].act # number
       /\ \A a \in audit : a.act # number
  BY <1>9 DEF AccountsInv, AccRequestOK, Acc!AuditTellsWhatHappened
<1>11. OneRequestAnAct'
  BY <1>7, <1>8, <1>10 DEF AccountsInv, OneRequestAnAct
<1>12. Acc!AuditTellsWhatHappened'
  BY <1>5, <1>9 DEF AccountsInv, Acc!AuditTellsWhatHappened, number
<1>13. AccRequestOK(accReq[r])'
  BY <1>3, <1>5, <1>7, <1>8, <1>9, <1>10 DEF AccRequestOK
<1>14. Len(acts') <= MaxActs
  BY <1>2, <1>5
<1>15. \A k \in DOMAIN acts : k \in DOMAIN acts'
  BY <1>2, <1>5 DEF number
<1> QED BY <1>5, <1>7, <1>8, <1>11, <1>12, <1>13, <1>14, <1>15

(* The unique index lets a name be registered once. *)
LEMMA InsertUserKeeps ==
  ASSUME AccountsInv, NEW r \in Slots, Acc!InsertUser(r)
  PROVE  AccountsInv'
<1> DEFINE q == accReq[r]
           told == [password |-> q.row.password, role |-> q.row.role]
<1>1. q \in Acc!Requests /\ AccRequestOK(q) /\ q.pc = "insert"
  BY DEF AccountsInv, Acc!TypeOK, Acc!InsertUser
<1>2. CASE users[q.name] # Acc!NoUser
  BY <1>2, RefusalKeeps DEF Acc!InsertUser
<1>3. CASE users[q.name] = Acc!NoUser
  <2>1. /\ users' = [users EXCEPT ![q.name] = q.row]
        /\ accepted' = [accepted EXCEPT ![q.name] = @ \cup {told}]
        /\ Acc!CarriedOut(r, "register")
        /\ UNCHANGED <<tokens, audit, now>>
    BY <1>3 DEF Acc!InsertUser
  <2>2. q.name \in Acc!Names /\ q.row \in Acc!User
    BY <1>1 DEF AccRequestOK, Acc!Requests, Acc!User
  <2>3. /\ users' \in [Acc!Names -> Acc!User \cup {Acc!NoUser}]
        /\ users'[q.name] = q.row
        /\ \A n \in Acc!Names \ {q.name} : users'[n] = users[n]
    BY <2>1, <2>2 DEF AccountsInv, Acc!TypeOK
  <2>4. accepted[q.name] = {}
    BY <1>3, <2>2 DEF AccountsInv, Acc!RegistrationStands
  <2>5. /\ accepted'[q.name] = {told}
        /\ \A n \in Acc!Names \ {q.name} : accepted'[n] = accepted[n]
    BY <2>1, <2>2, <2>4 DEF AccountsInv, Acc!TypeOK
  <2>6. accepted' \in [Acc!Names -> SUBSET [password : Passwords, role : Acc!Roles]]
    <3>1. told \in [password : Passwords, role : Acc!Roles]
      BY <2>2 DEF Acc!User
    <3> HIDE DEF told
    <3> QED BY <2>1, <2>2, <3>1 DEF AccountsInv, Acc!TypeOK
  <2>7. q.row # Acc!NoUser
    BY <2>2, UserIsSomeone
  <2>8. Acc!RegistrationStands'
    BY <2>3, <2>5, <2>7 DEF AccountsInv, Acc!RegistrationStands
  <2>9. \A n \in Acc!Names : users[n] # Acc!NoUser => users'[n] = users[n]
    BY <1>3, <2>3
  <2>10. Acc!TokensCarryTheRole'
    <3>1. \A t \in tokens : t.name \in Acc!Names
      BY DEF AccountsInv, Acc!TypeOK, Acc!Token
    <3> QED BY <2>1, <2>9, <3>1 DEF AccountsInv, Acc!TokensCarryTheRole
  <2>11. \A s \in Slots : AccRequestOK(accReq[s])'
    <3>1. ASSUME NEW s \in Slots \ {r} PROVE AccRequestOK(accReq[s])'
      BY <2>1, <2>9, ActGoesOnRecord DEF AccountsInv, AccRequestOK
    <3> QED BY <2>1, <3>1, ActGoesOnRecord
  <2> QED
    BY <2>1, <2>3, <2>6, <2>8, <2>10, <2>11, ActGoesOnRecord
    DEF AccountsInv, Acc!TypeOK
<1> QED BY <1>2, <1>3

(* A token is given out with the role its account has (jwt.go). *)
LEMMA LoginKeeps ==
  ASSUME AccountsInv, NEW r \in Slots, Acc!Login(r)
  PROVE  AccountsInv'
<1> DEFINE q == accReq[r]
           admits == /\ q.name \in Acc!Names /\ users[q.name] # Acc!NoUser
                     /\ users[q.name].password = q.row.password
           token == Acc!GenerateToken(q.name)
<1>1. CASE ~admits
  BY <1>1, RefusalKeeps DEF Acc!Login
<1>2. CASE admits
  <2>1. /\ tokens' = tokens \cup {token} /\ Acc!CarriedOut(r, "login")
        /\ UNCHANGED <<users, audit, now, accepted>>
    BY <1>2 DEF Acc!Login
  <2>2. users[q.name] \in Acc!User
    BY <1>2, RegisteredRow DEF AccountsInv
  <2>3. now \in 0..MaxTime /\ MaxTime \in Nat /\ Lifetime \in Nat
    BY OfficeAssumption DEF Acc!AccountsAssumption, AccountsInv, Acc!TypeOK
  <2>4. now + Lifetime \in 0..(MaxTime + Lifetime)
    BY <2>3
  <2>5. /\ token \in Acc!Token /\ token.name = q.name
        /\ token.role = users[q.name].role
    BY <1>2, <2>2, <2>4 DEF Acc!GenerateToken, Acc!Token, Acc!User
  <2> HIDE DEF token
  <2>6. Acc!TokensCarryTheRole' /\ tokens' \subseteq Acc!Token
    BY <1>2, <2>1, <2>5
    DEF AccountsInv, Acc!TypeOK, Acc!TokensCarryTheRole
  <2>7. \A s \in Slots : AccRequestOK(accReq[s])'
    <3>1. ASSUME NEW s \in Slots \ {r} PROVE AccRequestOK(accReq[s])'
      BY <2>1, ActGoesOnRecord DEF AccountsInv, AccRequestOK
    <3> QED BY <2>1, <3>1, ActGoesOnRecord
  <2> QED
    BY <2>1, <2>6, <2>7, ActGoesOnRecord
    DEF AccountsInv, Acc!TypeOK, Acc!RegistrationStands
<1> QED BY <1>1, <1>2

(* A profile is saved with the password and the role its account has.      *)
LEMMA SaveMeKeeps ==
  ASSUME AccountsInv, NEW r \in Slots, Acc!SaveMe(r)
  PROVE  AccountsInv'
<1> DEFINE q == accReq[r]
<1>1. q \in Acc!Requests /\ AccRequestOK(q) /\ q.pc = "saveMe"
  BY DEF AccountsInv, Acc!TypeOK, Acc!SaveMe
<1>2. /\ users' = [users EXCEPT ![q.operator] = q.row]
      /\ Acc!CarriedOut(r, "profile")
      /\ UNCHANGED <<tokens, audit, now, accepted>>
  BY DEF Acc!SaveMe
<1>3. /\ q.operator \in Acc!Names /\ users[q.operator] # Acc!NoUser
      /\ q.row.password = users[q.operator].password
      /\ q.row.role = users[q.operator].role /\ q.row.profile \in Profiles
  BY <1>1 DEF AccRequestOK
<1>4. q.row \in Acc!User
  <2>1. users[q.operator] \in Acc!User
    BY <1>3, RegisteredRow DEF AccountsInv
  <2> QED BY <1>1, <1>3, <2>1 DEF Acc!Requests, Acc!User
<1>5. /\ users' \in [Acc!Names -> Acc!User \cup {Acc!NoUser}]
      /\ users'[q.operator] = q.row
      /\ \A n \in Acc!Names \ {q.operator} : users'[n] = users[n]
  BY <1>2, <1>3, <1>4 DEF AccountsInv, Acc!TypeOK
<1>6. q.row # Acc!NoUser
  BY <1>4, UserIsSomeone
<1>7. \A n \in Acc!Names :
        /\ users'[n] = Acc!NoUser <=> users[n] = Acc!NoUser
        /\ users'[n].password = users[n].password
        /\ users'[n].role = users[n].role
  BY <1>3, <1>5, <1>6
<1>8. Acc!RegistrationStands'
  <2>1. ASSUME NEW n \in Acc!Names
        PROVE  accepted'[n] = IF users'[n] = Acc!NoUser THEN {}
                 ELSE {[password |-> users'[n].password,
                        role |-> users'[n].role]}
    BY <1>2, <1>7 DEF AccountsInv, Acc!RegistrationStands
  <2> QED BY <2>1 DEF Acc!RegistrationStands
<1>9. Acc!TokensCarryTheRole'
  <2>1. \A t \in tokens : t.name \in Acc!Names
    BY DEF AccountsInv, Acc!TypeOK, Acc!Token
  <2> QED BY <1>2, <1>7, <2>1 DEF AccountsInv, Acc!TokensCarryTheRole
<1>10. \A s \in Slots : AccRequestOK(accReq[s])'
  <2>1. ASSUME NEW s \in Slots \ {r} PROVE AccRequestOK(accReq[s])'
    <3>1. AccRequestOK(accReq[s]) /\ accReq'[s] = accReq[s]
      BY <1>2, ActGoesOnRecord DEF AccountsInv
    <3> QED BY <1>2, <1>7, <3>1, ActGoesOnRecord DEF AccRequestOK
  <2> QED BY <1>2, <2>1, ActGoesOnRecord
<1> QED
  BY <1>2, <1>5, <1>8, <1>9, <1>10, ActGoesOnRecord
  DEF AccountsInv, Acc!TypeOK

(* An act gets one row, from the one request it waits in (audit_log.go).   *)
LEMMA WriteAuditKeeps ==
  ASSUME AccountsInv, NEW r \in Slots, Acc!WriteAudit(r)
  PROVE  AccountsInv'
<1> DEFINE q == accReq[r]
           row == [act |-> q.act, operator |-> q.operator]
           next == [q EXCEPT !.pc = "done"]
<1>1. q \in Acc!Requests /\ AccRequestOK(q) /\ q.pc = "audit"
  BY DEF AccountsInv, Acc!TypeOK, Acc!WriteAudit
<1>2. /\ audit' = audit \cup {row} \/ audit' = audit
      /\ accReq' = [accReq EXCEPT ![r] = next]
      /\ UNCHANGED <<users, tokens, now, acts, accepted>>
  BY DEF Acc!WriteAudit, Acc!Goto
<1>3. /\ q.act \in DOMAIN acts /\ q.operator = acts[q.act].by
      /\ \A a \in audit : a.act # q.act
  BY <1>1 DEF AccRequestOK
<1>4. q.act \in 1..MaxActs /\ q.operator \in Acc!Names \cup {Nothing}
  <2>1. acts \in Seq(Act) /\ Len(acts) <= MaxActs /\ MaxActs \in Nat
    BY OfficeAssumption DEF Acc!AccountsAssumption, AccountsInv, Acc!TypeOK
  <2>2. DOMAIN acts = 1..Len(acts) /\ Len(acts) \in Nat
    BY <2>1
  <2> QED BY <1>1, <1>3, <2>1, <2>2 DEF Acc!Requests
<1>5. audit' \subseteq [act : 1..MaxActs, operator : Acc!Names \cup {Nothing}]
  BY <1>2, <1>4 DEF AccountsInv, Acc!TypeOK
<1>6. next \in Acc!Requests /\ next.pc = "done"
  BY <1>1 DEF Acc!Requests
<1> HIDE DEF next
<1>7. /\ accReq' \in [Slots -> Acc!Requests] /\ accReq'[r] = next
      /\ \A s \in Slots \ {r} : accReq'[s] = accReq[s]
  BY <1>2, <1>6 DEF AccountsInv, Acc!TypeOK
<1>8. Acc!AuditTellsWhatHappened'
  BY <1>2, <1>3 DEF AccountsInv, Acc!AuditTellsWhatHappened
<1>9. \A s \in Slots : AccRequestOK(accReq[s])'
  <2>1. AccRequestOK(accReq[r])'
    BY <1>6, <1>7 DEF AccRequestOK
  <2>2. ASSUME NEW s \in Slots \ {r} PROVE AccRequestOK(accReq[s])'
    <3>1. accReq[s].pc = "audit" => accReq[s].act # q.act
      BY <1>1 DEF AccountsInv, OneRequestAnAct
    <3>2. \A a \in audit' : a.act = q.act \/ a \in audit
      BY <1>2
    <3>3. AccRequestOK(accReq[s]) /\ accReq'[s] = accReq[s]
      BY <1>7 DEF AccountsInv
    <3> QED BY <1>2, <3>1, <3>2, <3>3 DEF AccRequestOK
  <2> QED BY <2>1, <2>2
<1>10. OneRequestAnAct'
  BY <1>6, <1>7 DEF AccountsInv, OneRequestAnAct
<1> QED
  BY <1>2, <1>5, <1>7, <1>8, <1>9, <1>10
  DEF AccountsInv, Acc!TypeOK, Acc!RegistrationStands, Acc!TokensCarryTheRole

LEMMA AccRestartKeeps ==
  ASSUME AccountsInv, Acc!Restart
  PROVE  AccountsInv'
<1>1. /\ accReq' = [r \in Slots |-> Acc!Idle]
      /\ UNCHANGED <<users, tokens, audit, now, acts, accepted>>
  BY DEF Acc!Restart
<1>2. accReq' \in [Slots -> Acc!Requests] /\ Acc!TypeOK'
  BY <1>1, AccIdleOK DEF AccountsInv, Acc!TypeOK
<1>3. OneRequestAnAct'
  BY <1>1 DEF OneRequestAnAct, Acc!Idle
<1>4. \A r \in Slots : AccRequestOK(accReq[r])'
  BY <1>1 DEF AccRequestOK, Acc!Idle
<1> QED
  BY <1>1, <1>2, <1>3, <1>4 DEF AccountsInv, Acc!RegistrationStands,
     Acc!TokensCarryTheRole, Acc!AuditTellsWhatHappened

LEMMA AccTickKeeps ==
  ASSUME AccountsInv, Acc!Tick
  PROVE  AccountsInv'
<1>1. now' \in 0..MaxTime
  BY OfficeAssumption DEF Acc!AccountsAssumption, AccountsInv, Acc!TypeOK, Acc!Tick
<1> QED
  BY <1>1 DEF AccountsInv, Acc!Tick, Acc!TypeOK, Acc!RegistrationStands,
     Acc!TokensCarryTheRole, Acc!AuditTellsWhatHappened, AccRequestOK,
     OneRequestAnAct

LEMMA AccountsKeep == AccountsInv /\ [Acc!Next]_(Acc!vars) => AccountsInv'
<1> SUFFICES ASSUME AccountsInv, [Acc!Next]_(Acc!vars)
             PROVE  AccountsInv'
  OBVIOUS
<1>1. CASE UNCHANGED Acc!vars
  BY <1>1 DEF Acc!vars, AccountsInv, Acc!TypeOK, Acc!RegistrationStands,
     Acc!TokensCarryTheRole, Acc!AuditTellsWhatHappened, AccRequestOK,
     OneRequestAnAct
<1>2. ASSUME NEW r \in Slots, Acc!Step(r) PROVE AccountsInv'
  BY <1>2, FindByUsernameKeeps, InsertUserKeeps, LoginKeeps, FindMeKeeps,
     SaveMeKeeps, ListUsersKeeps, WriteAuditKeeps DEF Acc!Step
<1>3. ASSUME NEW r \in Slots, Acc!StatementFails(r) PROVE AccountsInv'
  BY <1>3, RefusalKeeps DEF Acc!StatementFails
<1> QED
  BY <1>1, <1>2, <1>3, AccClientStepKeeps, AccRestartKeeps, AccTickKeeps
  DEF Acc!Next

LEMMA AlwaysAccountsInv == Acc!Spec => []AccountsInv
BY AccInitHolds, AccountsKeep, PTL DEF Acc!Spec

-----------------------------------------------------------------------------
LEMMA NothingIsNoInstant ==
  /\ Nothing \notin Instants /\ Nothing \notin Files /\ Nothing \notin Docs
  /\ Allowed \subseteq Files /\ OpenedCases \subseteq CaseIds
BY OfficeAssumption DEF Doc!DocumentsAssumption

LEMMA DocIdleOK == Doc!Idle \in Doc!Requests /\ DocRequestOK(Doc!Idle)
BY DEF Doc!Idle, Doc!Requests, DocRequestOK

LEMMA DocAnswerOK ==
  ASSUME DocumentsInv, NEW r \in Slots,
         NEW outcome \in {"ok", "refused", "bad_request", "not_found", "failed"}
  PROVE  /\ Doc!Answer(r, outcome) \in Doc!Requests
         /\ DocRequestOK(Doc!Answer(r, outcome))
         /\ Doc!Answer(r, outcome).pc = "done"
<1>1. docReq[r].number \in BOOLEAN
  BY DEF DocumentsInv, Doc!TypeOK, Doc!Requests
<1>2. /\ Doc!Answer(r, outcome) \in Doc!Requests
      /\ Doc!Answer(r, outcome).pc = "done"
  BY <1>1, DocIdleOK DEF Doc!Answer, Doc!Requests
<1> QED BY <1>2 DEF DocRequestOK

(* A request goes on, which is not to an upload's copy, and what the other *)
(* requests rely on is left alone (document_service.go, file_upload.go).   *)
LEMMA DocRequestsGoOn ==
  ASSUME DocumentsInv, NEW r \in Slots, NEW q \in Doc!Requests,
         DocRequestOK(q)', q.pc # "copy", Doc!Goto(r, q),
         drawnAt' = drawnAt,
         \A a \in answers : a \in answers',
         \A a \in answers' \ answers :
           docReq[r].pc = "copy" /\ a.url = docReq[r].url
  PROVE  /\ docReq' \in [Slots -> Doc!Requests]
         /\ \A s \in Slots : DocRequestOK(docReq[s])'
         /\ OneUploadAName'
<1>1. docReq' = [docReq EXCEPT ![r] = q]
  BY DEF Doc!Goto
<1>2. /\ docReq' \in [Slots -> Doc!Requests] /\ docReq'[r] = q
      /\ \A s \in Slots \ {r} : docReq'[s] = docReq[s]
  BY <1>1 DEF DocumentsInv, Doc!TypeOK
<1>3. DocRequestOK(docReq[r])'
  BY <1>2 DEF DocRequestOK
<1>4. ASSUME NEW s \in Slots \ {r} PROVE DocRequestOK(docReq[s])'
  <2>1. DocRequestOK(docReq[s]) /\ docReq'[s] = docReq[s]
    BY <1>2 DEF DocumentsInv
  <2>2. docReq[s].pc = "copy" => \A a \in answers' : a.url # docReq[s].url
    BY <2>1 DEF DocumentsInv, DocRequestOK, OneUploadAName
  <2> QED BY <2>1, <2>2 DEF DocRequestOK
<1>5. OneUploadAName'
  BY <1>2 DEF DocumentsInv, OneUploadAName
<1> QED BY <1>2, <1>3, <1>4, <1>5

LEMMA DocRequestEnds ==
  ASSUME DocumentsInv, NEW r \in Slots,
         NEW outcome \in {"ok", "refused", "bad_request", "not_found", "failed"},
         Doc!Goto(r, Doc!Answer(r, outcome)), drawnAt' = drawnAt,
         \A a \in answers : a \in answers',
         \A a \in answers' \ answers :
           docReq[r].pc = "copy" /\ a.url = docReq[r].url
  PROVE  /\ docReq' \in [Slots -> Doc!Requests]
         /\ \A s \in Slots : DocRequestOK(docReq[s])'
         /\ OneUploadAName'
<1>1. PICK next \in Doc!Requests :
        next = Doc!Answer(r, outcome) /\ next.pc = "done"
  BY DocAnswerOK
<1>2. Doc!Goto(r, next)
  BY <1>1
<1>3. DocRequestOK(next)'
  BY <1>1 DEF DocRequestOK
<1> QED BY <1>1, <1>2, <1>3, DocRequestsGoOn

LEMMA ReadKeeps ==
  ASSUME DocumentsInv, NEW r \in Slots, NEW q \in Doc!Requests,
         DocRequestOK(q), q.pc # "copy", Doc!Reads(r, q)
  PROVE  DocumentsInv'
<1>1. Doc!Goto(r, q) /\ UNCHANGED <<disk, drawnAt, answers, docs, meant, deleted>>
  BY DEF Doc!Reads
<1>2. DocRequestOK(q)'
  BY <1>1 DEF DocRequestOK
<1>3. /\ docReq' \in [Slots -> Doc!Requests]
      /\ \A s \in Slots : DocRequestOK(docReq[s])'
      /\ OneUploadAName'
  BY <1>1, <1>2, DocRequestsGoOn
<1> QED BY <1>1, <1>3 DEF DocumentsInv, Doc!TypeOK

LEMMA DocInitHolds == Doc!Init => DocumentsInv
<1> SUFFICES ASSUME Doc!Init PROVE DocumentsInv
  OBVIOUS
<1>1. Doc!TypeOK
  BY DocIdleOK DEF Doc!Init, Doc!TypeOK, Doc!NoFile
<1>2. \A r \in Slots : DocRequestOK(docReq[r]) /\ docReq[r].pc # "copy"
  BY DocIdleOK DEF Doc!Init, Doc!Idle
<1> QED BY <1>1, <1>2 DEF Doc!Init, DocumentsInv, OneUploadAName

LEMMA DocBeginKeeps ==
  ASSUME DocumentsInv, NEW r \in Slots, NEW q \in Doc!Requests,
         DocRequestOK(q), q.pc # "copy", Doc!Begin(r, q)
  PROVE  DocumentsInv'
BY ReadKeeps, Zenon DEF Doc!Begin, Doc!Reads

LEMMA BeginUploadKeeps ==
  ASSUME DocumentsInv, NEW r \in Slots, NEW f \in Files, Doc!BeginUpload(r, f)
  PROVE  DocumentsInv'
<1> DEFINE next == [Doc!Idle EXCEPT !.pc = "create_file", !.file = f]
<1>1. CASE f \notin Allowed
  BY <1>1, DocAnswerOK, DocBeginKeeps DEF Doc!BeginUpload
<1>2. CASE f \in Allowed
  <2>1. Doc!Begin(r, next)
    BY <1>2 DEF Doc!BeginUpload
  <2>2. next \in Doc!Requests /\ next.pc = "create_file" /\ next.file = f
    BY DocIdleOK DEF Doc!Requests
  <2> HIDE DEF next
  <2>3. DocRequestOK(next)
    BY <1>2, <2>2 DEF DocRequestOK
  <2> QED BY <2>1, <2>2, <2>3, DocBeginKeeps
<1> QED BY <1>1, <1>2

LEMMA BeginCreateKeeps ==
  ASSUME DocumentsInv, NEW r \in Slots, NEW a \in answers, NEW c \in CaseIds,
         NEW number \in BOOLEAN, Doc!BeginCreate(r, a, c, number)
  PROVE  DocumentsInv'
<1> DEFINE next == [Doc!Idle EXCEPT !.pc = "bind", !.file = a.file, !.case = c,
                                    !.url = a.url, !.number = number]
<1>1. Doc!Begin(r, next)
  BY DEF Doc!BeginCreate
<1>2. /\ a.url \in Instants /\ a.file \in Files
      /\ [url |-> a.url, file |-> a.file] = a
  BY NothingIsNoInstant DEF DocumentsInv, Doc!TypeOK
<1>3. /\ next \in Doc!Requests /\ next.pc = "bind" /\ next.file = a.file
      /\ next.url = a.url
  BY <1>2, DocIdleOK DEF Doc!Requests
<1> HIDE DEF next
<1>4. DocRequestOK(next)
  BY <1>2, <1>3 DEF DocRequestOK
<1> QED BY <1>1, <1>3, <1>4, DocBeginKeeps

LEMMA BeginDeleteKeeps ==
  ASSUME DocumentsInv, NEW r \in Slots, NEW d \in Docs, Doc!BeginDelete(r, d)
  PROVE  DocumentsInv'
<1> DEFINE next == [Doc!Idle EXCEPT !.pc = "delete", !.doc = d]
<1>1. Doc!Begin(r, next)
  BY DEF Doc!BeginDelete
<1>2. next \in Doc!Requests /\ next.pc = "delete" /\ next.doc = d
  BY DocIdleOK DEF Doc!Requests
<1> HIDE DEF next
<1>3. DocRequestOK(next)
  BY <1>2 DEF DocRequestOK
<1> QED BY <1>1, <1>2, <1>3, DocBeginKeeps

LEMMA DocClientStepKeeps ==
  ASSUME DocumentsInv, NEW r \in Slots, Doc!ClientStep(r)
  PROVE  DocumentsInv'
<1>1. CASE Doc!Received(r)
  <2>1. Doc!Idle.pc # "copy"
    BY DEF Doc!Idle
  <2> QED BY <1>1, <2>1, DocIdleOK, ReadKeeps DEF Doc!Received
<1> QED
  BY <1>1, BeginUploadKeeps, BeginCreateKeeps, BeginDeleteKeeps
  DEF Doc!ClientStep

-----------------------------------------------------------------------------
(* A name that is new is nobody's: what it truncates was not answered, and *)
(* no other upload is about to write to it.                                *)
LEMMA CreateFileKeeps ==
  ASSUME DocumentsInv, NEW r \in Slots, Doc!CreateFile(r)
  PROVE  DocumentsInv'
<1> DEFINE q == docReq[r]
<1>1. q \in Doc!Requests /\ DocRequestOK(q) /\ q.pc = "create_file"
  BY DEF DocumentsInv, Doc!TypeOK, Doc!CreateFile
<1>2. PICK n \in Instants \ drawnAt :
        /\ drawnAt' = drawnAt \cup {n}
        /\ disk' = [disk EXCEPT ![n] = [file |-> q.file, whole |-> FALSE]]
        /\ Doc!Goto(r, [q EXCEPT !.pc = "copy", !.url = n])
  BY DEF Doc!CreateFile, Doc!FreshNames
<1>3. UNCHANGED <<answers, docs, meant, deleted>>
  BY DEF Doc!CreateFile
<1> DEFINE next == [q EXCEPT !.pc = "copy", !.url = n]
<1>4. /\ next \in Doc!Requests /\ next.pc = "copy" /\ next.url = n
      /\ next.file = q.file
  BY <1>1 DEF Doc!Requests
<1>5. docReq' = [docReq EXCEPT ![r] = next]
  BY <1>2 DEF Doc!Goto
<1> HIDE DEF next
<1>6. /\ docReq' \in [Slots -> Doc!Requests] /\ docReq'[r] = next
      /\ \A s \in Slots \ {r} : docReq'[s] = docReq[s]
  BY <1>4, <1>5 DEF DocumentsInv, Doc!TypeOK
<1>7. q.file \in Allowed /\ q.file \in Files \cup {Nothing}
  BY <1>1, NothingIsNoInstant DEF DocRequestOK
<1>8. /\ disk' \in [Instants -> [file : Files \cup {Nothing}, whole : BOOLEAN]]
      /\ \A m \in Instants \ {n} : disk'[m] = disk[m]
  BY <1>2, <1>7 DEF DocumentsInv, Doc!TypeOK
<1>9. \A a \in answers : a.url \in Instants \ {n} /\ a.url \in drawnAt
  BY DEF DocumentsInv, Doc!TypeOK
<1>10. \A a \in answers : /\ a.url \in drawnAt'
                          /\ disk'[a.url] = [file |-> a.file, whole |-> TRUE]
  BY <1>2, <1>8, <1>9 DEF DocumentsInv
<1>11. DocRequestOK(docReq[r])'
  BY <1>2, <1>3, <1>4, <1>6, <1>7, <1>9 DEF DocRequestOK
<1>12. ASSUME NEW s \in Slots \ {r} PROVE DocRequestOK(docReq[s])'
  <2>1. DocRequestOK(docReq[s]) /\ docReq'[s] = docReq[s]
    BY <1>6 DEF DocumentsInv
  <2> QED BY <1>2, <1>3, <2>1 DEF DocRequestOK
<1>13. OneUploadAName'
  <2>1. \A s \in Slots : docReq[s].pc = "copy" => docReq[s].url # n
    BY DEF DocumentsInv, DocRequestOK
  <2> QED BY <1>4, <1>6, <2>1 DEF DocumentsInv, OneUploadAName
<1>14. Doc!TypeOK'
  BY <1>2, <1>3, <1>6, <1>8 DEF DocumentsInv, Doc!TypeOK
<1> QED
  BY <1>3, <1>10, <1>11, <1>12, <1>13, <1>14 DEF DocumentsInv

(* The copy is whole before the name is answered, and its own upload is    *)
(* the last to write to it.                                                *)
LEMMA CopyFileKeeps ==
  ASSUME DocumentsInv, NEW r \in Slots, Doc!CopyFile(r)
  PROVE  DocumentsInv'
<1> DEFINE q == docReq[r]
           answer == [url |-> q.url, file |-> q.file]
<1>1. q \in Doc!Requests /\ DocRequestOK(q) /\ q.pc = "copy"
  BY DEF DocumentsInv, Doc!TypeOK, Doc!CopyFile
<1>2. /\ disk' = [disk EXCEPT ![q.url] = [file |-> q.file, whole |-> TRUE]]
      /\ answers' = answers \cup {answer}
      /\ Doc!Goto(r, Doc!Answer(r, "ok"))
      /\ UNCHANGED <<drawnAt, docs, meant, deleted>>
  BY DEF Doc!CopyFile
<1>3. /\ q.file \in Allowed /\ q.file \in Files /\ q.url \in drawnAt
      /\ q.url \in Instants /\ \A a \in answers : a.url # q.url
  BY <1>1, NothingIsNoInstant DEF DocRequestOK, DocumentsInv, Doc!TypeOK
<1>4. /\ docReq' \in [Slots -> Doc!Requests]
      /\ \A s \in Slots : DocRequestOK(docReq[s])'
      /\ OneUploadAName'
  BY <1>1, <1>2, DocRequestEnds
<1>5. /\ disk' \in [Instants -> [file : Files \cup {Nothing}, whole : BOOLEAN]]
      /\ disk'[q.url] = [file |-> q.file, whole |-> TRUE]
      /\ \A n \in Instants \ {q.url} : disk'[n] = disk[n]
  BY <1>2, <1>3 DEF DocumentsInv, Doc!TypeOK
<1>6. answers' \subseteq [url : Instants, file : Allowed]
  BY <1>2, <1>3 DEF DocumentsInv, Doc!TypeOK
<1>7. ASSUME NEW a \in answers'
      PROVE  a.url \in drawnAt /\ disk'[a.url] = [file |-> a.file, whole |-> TRUE]
  <2>1. CASE a \in answers
    BY <1>3, <1>5, <2>1 DEF DocumentsInv, Doc!TypeOK
  <2>2. CASE a = answer
    BY <1>3, <1>5, <2>2
  <2> QED BY <1>2, <2>1, <2>2
<1>8. Doc!TypeOK'
  BY <1>2, <1>4, <1>5, <1>6 DEF DocumentsInv, Doc!TypeOK
<1> QED BY <1>2, <1>4, <1>7, <1>8 DEF DocumentsInv

-----------------------------------------------------------------------------
LEMMA BindDocumentKeeps ==
  ASSUME DocumentsInv, NEW r \in Slots, Doc!BindDocument(r)
  PROVE  DocumentsInv'
<1> DEFINE next == [docReq[r] EXCEPT !.pc = "case"]
<1>1. /\ docReq[r] \in Doc!Requests /\ DocRequestOK(docReq[r])
      /\ docReq[r].pc = "bind"
  BY DEF DocumentsInv, Doc!TypeOK, Doc!BindDocument
<1>2. CASE ~docReq[r].number
  BY <1>2, DocAnswerOK, ReadKeeps DEF Doc!BindDocument
<1>3. CASE docReq[r].number
  <2>1. Doc!Reads(r, next)
    BY <1>3 DEF Doc!BindDocument
  <2>2. /\ next \in Doc!Requests /\ next.pc = "case"
        /\ next.url = docReq[r].url /\ next.file = docReq[r].file
    BY <1>1 DEF Doc!Requests
  <2> HIDE DEF next
  <2>3. DocRequestOK(next)
    BY <1>1, <2>2 DEF DocRequestOK
  <2> QED BY <2>1, <2>2, <2>3, ReadKeeps
<1> QED BY <1>2, <1>3

LEMMA FindCaseKeeps ==
  ASSUME DocumentsInv, NEW r \in Slots, Doc!FindCase(r)
  PROVE  DocumentsInv'
<1> DEFINE next == [docReq[r] EXCEPT !.pc = "insert"]
<1>1. /\ docReq[r] \in Doc!Requests /\ DocRequestOK(docReq[r])
      /\ docReq[r].pc = "case"
  BY DEF DocumentsInv, Doc!TypeOK, Doc!FindCase
<1>2. CASE docReq[r].case \notin OpenedCases
  BY <1>2, DocAnswerOK, ReadKeeps DEF Doc!FindCase
<1>3. CASE docReq[r].case \in OpenedCases
  <2>1. Doc!Reads(r, next)
    BY <1>3 DEF Doc!FindCase
  <2>2. /\ next \in Doc!Requests /\ next.pc = "insert"
        /\ next.url = docReq[r].url /\ next.file = docReq[r].file
        /\ next.case = docReq[r].case
    BY <1>1 DEF Doc!Requests
  <2> HIDE DEF next
  <2>3. DocRequestOK(next)
    BY <1>1, <1>3, <2>2 DEF DocRequestOK
  <2> QED BY <2>1, <2>2, <2>3, ReadKeeps
<1> QED BY <1>2, <1>3

(* A document is registered for an upload that was answered. *)
LEMMA InsertDocumentKeeps ==
  ASSUME DocumentsInv, NEW r \in Slots, Doc!InsertDocument(r)
  PROVE  DocumentsInv'
<1> DEFINE q == docReq[r]
           answer == [url |-> q.url, file |-> q.file]
           row == [url |-> q.url, case |-> q.case]
<1>1. DocRequestOK(q) /\ q.pc = "insert"
  BY DEF DocumentsInv, Doc!InsertDocument
<1>2. PICK d \in Docs : /\ docs' = [docs EXCEPT ![d] = row]
                        /\ meant' = [meant EXCEPT ![d] = answer]
  BY DEF Doc!InsertDocument
<1>3. /\ Doc!Goto(r, Doc!Answer(r, "ok"))
      /\ UNCHANGED <<disk, drawnAt, answers, deleted>>
  BY DEF Doc!InsertDocument
<1>4. /\ docReq' \in [Slots -> Doc!Requests]
      /\ \A s \in Slots : DocRequestOK(docReq[s])'
      /\ OneUploadAName'
  BY <1>3, DocRequestEnds
<1>5. answer \in answers /\ q.case \in OpenedCases
  BY <1>1 DEF DocRequestOK
<1>6. answer \in [url : Instants, file : Allowed] /\ answer.url = q.url
  BY <1>5 DEF DocumentsInv, Doc!TypeOK
<1>7. row \in [url : Instants, case : OpenedCases] /\ row.url = q.url
  BY <1>5, <1>6
<1> HIDE DEF answer, row
<1>8. /\ docs' \in [Docs -> [url : Instants, case : OpenedCases] \cup {Doc!NoDoc}]
      /\ meant' \in [Docs -> [url : Instants, file : Allowed] \cup {Doc!NoUpload}]
      /\ docs'[d] = row /\ meant'[d] = answer
      /\ \A e \in Docs \ {d} : docs'[e] = docs[e] /\ meant'[e] = meant[e]
  BY <1>2, <1>6, <1>7 DEF DocumentsInv, Doc!TypeOK
<1>9. \A e \in Docs : docs'[e] # Doc!NoDoc =>
        meant'[e] \in answers /\ meant'[e].url = docs'[e].url
  BY <1>5, <1>6, <1>7, <1>8 DEF DocumentsInv
<1>10. Doc!TypeOK'
  BY <1>3, <1>4, <1>8 DEF DocumentsInv, Doc!TypeOK
<1> QED BY <1>3, <1>4, <1>9, <1>10 DEF DocumentsInv, Doc!NoDoc

LEMMA DeleteDocumentKeeps ==
  ASSUME DocumentsInv, NEW r \in Slots, Doc!DeleteDocument(r)
  PROVE  DocumentsInv'
<1> DEFINE d == docReq[r].doc
<1>1. d \in Docs
  BY DEF DocumentsInv, DocRequestOK, Doc!DeleteDocument
<1>2. /\ docs' = [docs EXCEPT ![d] = Doc!NoDoc]
      /\ deleted' = IF docs[d] = Doc!NoDoc THEN deleted ELSE deleted \cup {d}
      /\ Doc!Goto(r, Doc!Answer(r, "ok"))
      /\ UNCHANGED <<disk, drawnAt, answers, meant>>
  BY DEF Doc!DeleteDocument
<1>3. /\ docReq' \in [Slots -> Doc!Requests]
      /\ \A s \in Slots : DocRequestOK(docReq[s])'
      /\ OneUploadAName'
  BY <1>2, DocRequestEnds
<1>4. /\ docs' \in [Docs -> [url : Instants, case : OpenedCases] \cup {Doc!NoDoc}]
      /\ docs'[d] = Doc!NoDoc
      /\ \A e \in Docs \ {d} : docs'[e] = docs[e]
  BY <1>1, <1>2 DEF DocumentsInv, Doc!TypeOK
<1>5. Doc!TypeOK'
  BY <1>1, <1>2, <1>3, <1>4 DEF DocumentsInv, Doc!TypeOK
<1>6. \A e \in Docs : docs'[e] # Doc!NoDoc =>
        meant'[e] \in answers' /\ meant'[e].url = docs'[e].url
  BY <1>2, <1>4 DEF DocumentsInv
<1>7. Doc!NoDoc' = Doc!NoDoc
  BY DEF Doc!NoDoc
<1> QED BY <1>2, <1>3, <1>5, <1>6, <1>7 DEF DocumentsInv

LEMMA DocRestartKeeps ==
  ASSUME DocumentsInv, Doc!Restart
  PROVE  DocumentsInv'
<1>1. /\ docReq' = [r \in Slots |-> Doc!Idle]
      /\ UNCHANGED <<disk, drawnAt, answers, docs, meant, deleted>>
  BY DEF Doc!Restart
<1>2. Doc!TypeOK'
  BY <1>1, DocIdleOK DEF DocumentsInv, Doc!TypeOK
<1>3. OneUploadAName'
  BY <1>1 DEF OneUploadAName, Doc!Idle
<1>4. \A r \in Slots : DocRequestOK(docReq[r])'
  BY <1>1 DEF DocRequestOK, Doc!Idle
<1> QED BY <1>1, <1>2, <1>3, <1>4 DEF DocumentsInv

LEMMA DocumentsKeep == DocumentsInv /\ [Doc!Next]_(Doc!vars) => DocumentsInv'
<1> SUFFICES ASSUME DocumentsInv, [Doc!Next]_(Doc!vars)
             PROVE  DocumentsInv'
  OBVIOUS
<1>1. CASE UNCHANGED Doc!vars
  BY <1>1 DEF Doc!vars, DocumentsInv, Doc!TypeOK, DocRequestOK, OneUploadAName
<1>2. ASSUME NEW r \in Slots, Doc!Step(r) PROVE DocumentsInv'
  BY <1>2, CreateFileKeeps, CopyFileKeeps, BindDocumentKeeps, FindCaseKeeps,
     InsertDocumentKeeps, DeleteDocumentKeeps DEF Doc!Step
<1>3. ASSUME NEW r \in Slots, Doc!StepFails(r) PROVE DocumentsInv'
  BY <1>3, DocAnswerOK, ReadKeeps DEF Doc!StepFails
<1> QED
  BY <1>1, <1>2, <1>3, DocClientStepKeeps, DocRestartKeeps DEF Doc!Next

LEMMA AlwaysDocumentsInv == Doc!Spec => []DocumentsInv
BY DocInitHolds, DocumentsKeep, PTL DEF Doc!Spec

(* The answer to an upload stands for the file that is behind its address. *)
LEMMA DocumentsHaveFiles == DocumentsInv => Doc!DocumentsHaveTheirFiles
<1> SUFFICES ASSUME DocumentsInv, NEW d \in Docs, docs[d] # Doc!NoDoc
             PROVE  disk[docs[d].url] = [file |-> meant[d].file, whole |-> TRUE]
  BY DEF Doc!DocumentsHaveTheirFiles
<1> QED BY DEF DocumentsInv

-----------------------------------------------------------------------------
(* The rate limits go by is a positive number, whatever was configured     *)
(* (rate_limiter.go, NewRateLimiter).                                      *)
LEMMA RateIsPositive ==
  Rate!perMin \in Nat \ {0} /\ Minute \in Nat \ {0} /\ Rate!capacity = Rate!perMin
BY OfficeAssumption DEF Rate!RateAssumption, Rate!perMin, Rate!capacity

(* What a pause of less than a minute, and of a minute, does to a bucket   *)
(* (rate_limiter.go, the refill of Limit).                                 *)
LEMMA RefillAddsMinutes ==
  ASSUME NEW b \in [tokens : 0..Rate!perMin, age : 0..Minute]
  PROVE  Rate!Refilled(b) = IF b.age < Minute THEN b.tokens ELSE Rate!perMin
<1>1. CASE b.age < Minute
  <2>1. b.age \div Minute = 0
    BY RateIsPositive, <1>1
  <2> QED BY RateIsPositive, <1>1, <2>1 DEF Rate!Refilled
<1>2. CASE b.age = Minute
  <2>1. b.age \div Minute = 1
    BY RateIsPositive, <1>2
  <2> QED BY RateIsPositive, <1>2, <2>1 DEF Rate!Refilled
<1> QED BY RateIsPositive, <1>1, <1>2

(* The instance of the limiter counts as FiniteSets does. *)
LEMMA RateCounts ==
  ASSUME NEW S
  PROVE  Rate!Cardinality(S) = Cardinality(S)
BY DEF Rate!Cardinality, Cardinality

LEMMA LimiterInitHolds == Rate!Init => LimiterInv
<1> SUFFICES ASSUME Rate!Init PROVE LimiterInv
  OBVIOUS
<1>1. Rate!TypeOK
  BY RateIsPositive DEF Rate!Init, Rate!TypeOK
<1>2. ASSUME NEW ip \in Ips PROVE BucketOK(ip) /\ RecentOK(ip)
  <2>1. recent[ip] = {} /\ spent[ip] = 0 /\ buckets[ip] = Rate!NoBucket
    BY DEF Rate!Init
  <2>2. Rate!Granted(ip) = {}
    BY <2>1 DEF Rate!Granted
  <2> QED BY <2>1, <2>2, FS_EmptySet DEF BucketOK, RecentOK
<1>3. Rate!RefusedOnceSpent
  BY DEF Rate!Init, Rate!RefusedOnceSpent
<1> QED BY <1>1, <1>2, <1>3 DEF LimiterInv

(* The requests of the last minute, one more or all a unit older.          *)
LEMMA OneMoreRequest ==
  ASSUME LimiterInv, NEW ip \in Ips, NEW granted \in BOOLEAN
  PROVE  /\ Rate!Asks(ip, granted) \in Rate!Recent
         /\ Rate!Asks(ip, granted).age = 0
         /\ Rate!Asks(ip, granted).granted = granted
<1> DEFINE alike == {q \in recent[ip] : q.age = 0 /\ q.granted = granted}
<1>1. alike \subseteq recent[ip] /\ IsFiniteSet(recent[ip])
  BY DEF LimiterInv, RecentOK
<1>2. Cardinality(alike) \in Nat
  BY <1>1, FS_Subset, FS_CardinalityType
<1>3. Rate!Counted(1 + Cardinality(alike)) \in 1..(Rate!perMin + 1)
  BY <1>2, RateIsPositive DEF Rate!Counted
<1>4. Rate!Asks(ip, granted) =
        [age |-> 0, granted |-> granted,
         number |-> Rate!Counted(1 + Cardinality(alike))]
  BY RateCounts DEF Rate!Asks
<1> HIDE DEF alike
<1> QED BY <1>3, <1>4, RateIsPositive DEF Rate!Recent

Older(q) == [q EXCEPT !.age = @ + 1]

LEMMA OlderFields ==
  ASSUME NEW q \in Rate!Recent
  PROVE  /\ Older(q).age = q.age + 1 /\ Older(q).granted = q.granted
         /\ q.age + 1 < Minute => Older(q) \in Rate!Recent
BY RateIsPositive DEF Older, Rate!Recent

(* A unit makes no two requests one and brings none: there are at most as  *)
(* many that have a property which age does not take away.                 *)
LEMMA NoMoreWhenOlder ==
  ASSUME NEW S \in SUBSET Rate!Recent, IsFiniteSet(S)
  PROVE  /\ IsFiniteSet({Older(q) : q \in S})
         /\ Cardinality({Older(q) : q \in S}) <= Cardinality(S)
<1> DEFINE T == {Older(q) : q \in S}
           f == [q \in S |-> Older(q)]
<1>1. f \in Surjection(S, T)
  BY DEF Surjection
<1> QED BY <1>1, FS_Surjection

(* A request is through through while tokens are left, and counted as such.    *)
LEMMA LimitKeeps ==
  ASSUME LimiterInv, NEW ip \in Ips, Rate!Limit(ip)
  PROVE  LimiterInv'
<1> DEFINE b == IF buckets[ip] = Rate!NoBucket
                THEN [tokens |-> Rate!capacity, age |-> 0] ELSE buckets[ip]
           left == Rate!Refilled(b)
           grants == IF left <= 0 THEN 0 ELSE 1
           counted == (IF b.age < Minute THEN spent[ip] ELSE 0) + grants
           bucket == [tokens |-> Rate!Taken(left), age |-> 0]
           ask == Rate!Asks(ip, grants = 1)
<1>1. BucketOK(ip) /\ RecentOK(ip)
  BY DEF LimiterInv
<1>2. /\ b \in [tokens : 0..Rate!perMin, age : 0..Minute]
      /\ b.age < Minute => spent[ip] = Rate!perMin - b.tokens
      /\ b.age = Minute => buckets[ip].age = Minute
  BY <1>1, RateIsPositive DEF BucketOK, Rate!NoBucket
<1>3. /\ buckets' = [buckets EXCEPT ![ip] = bucket]
      /\ recent' = [recent EXCEPT ![ip] = @ \cup {ask}]
      /\ spent' = [spent EXCEPT ![ip] = Rate!Counted(counted)]
      /\ refused' = IF grants = 0 THEN {ip} ELSE {}
  BY DEF Rate!Limit
<1>4. left = IF b.age < Minute THEN b.tokens ELSE Rate!perMin
  BY <1>2, RefillAddsMinutes
<1> HIDE DEF b, left
<1>5. /\ left \in 0..Rate!perMin
      /\ (IF b.age < Minute THEN spent[ip] ELSE 0) = Rate!perMin - left
  BY <1>2, <1>4, RateIsPositive
<1>6. /\ Rate!Taken(left) \in 0..Rate!perMin
      /\ Rate!Counted(counted) = Rate!perMin - Rate!Taken(left)
      /\ Rate!Counted(counted) = counted
      /\ grants = 0 => Rate!Counted(counted) = Rate!perMin
  BY <1>5, RateIsPositive DEF Rate!Taken, Rate!Counted
<1>7. /\ ask \in Rate!Recent /\ ask.age = 0
      /\ ask.granted <=> grants = 1
  BY OneMoreRequest
<1>8. grants \in {0, 1}
  OBVIOUS
<1> HIDE DEF ask
<1>9. /\ buckets'[ip] = bucket /\ spent'[ip] = Rate!Counted(counted)
      /\ recent'[ip] = recent[ip] \cup {ask}
      /\ \A j \in Ips \ {ip} : /\ buckets'[j] = buckets[j]
                               /\ spent'[j] = spent[j] /\ recent'[j] = recent[j]
  BY <1>3 DEF LimiterInv, Rate!TypeOK
<1>10. bucket \in [tokens : 0..Rate!perMin, age : 0..Minute]
  BY <1>6, RateIsPositive
<1>11. BucketOK(ip)'
  BY <1>6, <1>9, <1>10 DEF BucketOK
<1>12. IsFiniteSet(recent'[ip])
  BY <1>1, <1>9, FS_AddElement DEF RecentOK
<1>13. \A q \in recent'[ip] : buckets'[ip].age <= q.age
  <2>1. \A q \in recent[ip] : q.age \in Nat
    BY RateIsPositive DEF LimiterInv, Rate!TypeOK, Rate!Recent
  <2> QED BY <1>7, <1>9, <2>1
<1>14. Cardinality(Rate!Granted(ip)') <= spent'[ip]
  <2>1. /\ Rate!Granted(ip) \subseteq recent[ip]
        /\ Rate!Granted(ip)' = IF grants = 1 THEN Rate!Granted(ip) \cup {ask}
                               ELSE Rate!Granted(ip)
    BY <1>7, <1>9 DEF Rate!Granted
  <2>2. /\ IsFiniteSet(Rate!Granted(ip))
        /\ Cardinality(Rate!Granted(ip)) \in Nat
    BY <1>1, <2>1, FS_Subset, FS_CardinalityType DEF RecentOK
  <2>3. Cardinality(Rate!Granted(ip)') <= Cardinality(Rate!Granted(ip)) + grants
    <3>1. Cardinality(Rate!Granted(ip) \cup {ask})
            <= Cardinality(Rate!Granted(ip)) + 1
      BY <2>2, FS_AddElement
    <3>2. CASE grants = 1
      BY <2>1, <3>1, <3>2
    <3>3. CASE grants = 0
      BY <2>1, <2>2, <3>3
    <3> QED BY <1>8, <3>2, <3>3
  <2>4. Cardinality(Rate!Granted(ip)) <= IF b.age < Minute THEN spent[ip] ELSE 0
    <3>1. CASE b.age < Minute
      BY <1>1, <3>1 DEF RecentOK
    <3>2. CASE ~(b.age < Minute)
      <4>1. recent[ip] = {}
        <5>1. buckets[ip].age = Minute
          BY <1>2, <3>2, RateIsPositive
        <5>2. \A q \in recent[ip] : q.age \in 0..(Minute - 1) /\ Minute <= q.age
          BY <1>1, <5>1 DEF LimiterInv, Rate!TypeOK, Rate!Recent, RecentOK
        <5> QED BY <5>2, RateIsPositive
      <4>2. Rate!Granted(ip) = {}
        BY <2>1, <4>1
      <4> QED BY <3>2, <4>2, FS_EmptySet
    <3> QED BY <3>1, <3>2
  <2>5. spent'[ip] = counted /\ (IF b.age < Minute THEN spent[ip] ELSE 0) \in Int
    BY <1>5, <1>6, <1>9, RateIsPositive
  <2>6. Cardinality(Rate!Granted(ip)') \in Int
    BY <1>8, <2>1, <2>2, FS_AddElement
  <2> QED BY SMTT(40), <1>8, <2>2, <2>3, <2>4, <2>5, <2>6
<1>15. RecentOK(ip)'
  BY <1>12, <1>13, <1>14 DEF RecentOK
<1>16. ASSUME NEW j \in Ips \ {ip} PROVE BucketOK(j)' /\ RecentOK(j)'
  <2>1. BucketOK(j) /\ RecentOK(j)
    BY DEF LimiterInv
  <2>2. Rate!Granted(j)' = Rate!Granted(j)
    BY <1>9 DEF Rate!Granted
  <2> QED BY <1>9, <2>1, <2>2 DEF BucketOK, RecentOK
<1>17. Rate!TypeOK'
  <2>1. recent' \in [Ips -> SUBSET Rate!Recent]
    BY <1>3, <1>7 DEF LimiterInv, Rate!TypeOK
  <2>2. Rate!Counted(counted) \in 0..(Rate!perMin + 1)
    BY <1>6, RateIsPositive
  <2>3. spent' \in [Ips -> 0..(Rate!perMin + 1)]
    BY <1>3, <2>2 DEF LimiterInv, Rate!TypeOK
  <2>4. buckets' \in [Ips -> [tokens : 0..Rate!capacity, age : 0..Minute]
                               \cup {Rate!NoBucket}]
    BY <1>3, <1>10, RateIsPositive DEF LimiterInv, Rate!TypeOK
  <2>5. refused' \subseteq Ips
    BY <1>3
  <2> QED BY <2>1, <2>3, <2>4, <2>5 DEF Rate!TypeOK
<1>18. Rate!RefusedOnceSpent'
  BY <1>3, <1>6, <1>9 DEF Rate!RefusedOnceSpent
<1> QED BY <1>11, <1>15, <1>16, <1>17, <1>18 DEF LimiterInv

(* Time makes everything older, up to a minute. *)
LEMMA LimiterTickKeeps ==
  ASSUME LimiterInv, Rate!Tick
  PROVE  LimiterInv'
<1>1. \A ip \in Ips :
        /\ buckets'[ip] = IF buckets[ip] = Rate!NoBucket \/ buckets[ip].age = Minute
                          THEN buckets[ip]
                          ELSE [buckets[ip] EXCEPT !.age = @ + 1]
        /\ recent'[ip] = Rate!OneOlder(recent[ip])
        /\ spent'[ip] = spent[ip]
  BY DEF Rate!Tick
<1>2. ASSUME NEW ip \in Ips PROVE BucketOK(ip)' /\ RecentOK(ip)'
  <2> DEFINE young == {q \in recent[ip] : q.age + 1 < Minute}
             through == {q \in young : q.granted}
  <2>1. BucketOK(ip) /\ RecentOK(ip) /\ recent[ip] \subseteq Rate!Recent
    BY DEF LimiterInv, Rate!TypeOK
  <2>2. recent'[ip] = {Older(q) : q \in young}
    BY <1>1 DEF Rate!OneOlder, Older
  <2>3. /\ young \subseteq Rate!Recent /\ IsFiniteSet(young)
        /\ through \subseteq Rate!Recent /\ IsFiniteSet(through)
        /\ Cardinality(through) <= Cardinality(Rate!Granted(ip))
    <3>1. young \subseteq recent[ip] /\ through \subseteq Rate!Granted(ip)
          /\ Rate!Granted(ip) \subseteq recent[ip]
      BY DEF Rate!Granted
    <3> HIDE DEF young, through
    <3>2. IsFiniteSet(recent[ip])
      BY <2>1 DEF RecentOK
    <3>3. IsFiniteSet(young) /\ IsFiniteSet(Rate!Granted(ip))
      BY <3>1, <3>2, FS_Subset
    <3> QED BY <2>1, <3>1, <3>3, FS_Subset
  <2>4. Rate!Granted(ip)' = {Older(q) : q \in through}
    BY <2>1, <2>2, OlderFields DEF Rate!Granted
  <2>5. \A q \in young : Older(q).age = q.age + 1 /\ q.age \in Nat
    BY <2>3, OlderFields, RateIsPositive DEF Rate!Recent
  <2>6. young # {} => buckets[ip] # Rate!NoBucket /\ buckets[ip].age # Minute
    <3> SUFFICES ASSUME NEW q \in recent[ip]
                 PROVE  buckets[ip] # Rate!NoBucket /\ buckets[ip].age # Minute
      OBVIOUS
    <3>1. q.age \in 0..(Minute - 1) /\ buckets[ip].age <= q.age
      BY <2>1 DEF RecentOK, Rate!Recent
    <3>2. buckets[ip] # Rate!NoBucket
      BY <2>1, RateIsPositive DEF BucketOK, Rate!NoBucket
    <3> QED BY <3>1, <3>2, RateIsPositive
  <2> HIDE DEF young, through
  <2>7. IsFiniteSet(recent'[ip])
    BY <2>2, <2>3, NoMoreWhenOlder
  <2>8. Cardinality(Rate!Granted(ip)') <= spent'[ip]
    <3>1. /\ IsFiniteSet(Rate!Granted(ip)')
          /\ Cardinality(Rate!Granted(ip)') <= Cardinality(through)
      BY <2>3, <2>4, NoMoreWhenOlder
    <3>2. /\ Cardinality(Rate!Granted(ip)') \in Nat /\ Cardinality(through) \in Nat
          /\ Cardinality(Rate!Granted(ip)) \in Nat
      <4>1. IsFiniteSet(Rate!Granted(ip))
        <5>1. Rate!Granted(ip) \subseteq recent[ip] /\ IsFiniteSet(recent[ip])
          BY <2>1 DEF Rate!Granted, RecentOK
        <5> QED BY <5>1, FS_Subset
      <4> QED BY <2>3, <3>1, <4>1, FS_CardinalityType
    <3>3. spent'[ip] = spent[ip] /\ spent[ip] \in Int
      <4>1. spent[ip] \in 0..(Rate!perMin + 1)
        BY DEF LimiterInv, Rate!TypeOK
      <4>2. spent[ip] \in Int
        BY <4>1, RateIsPositive
      <4> QED BY <1>1, <4>2
    <3> QED BY <2>1, <2>3, <3>1, <3>2, <3>3 DEF RecentOK
  <2>9. CASE buckets[ip] = Rate!NoBucket \/ buckets[ip].age = Minute
    <3>1. recent'[ip] = {}
      BY <2>2, <2>6, <2>9
    <3> QED BY <1>1, <2>1, <2>7, <2>8, <2>9, <3>1 DEF BucketOK, RecentOK
  <2>10. CASE ~(buckets[ip] = Rate!NoBucket \/ buckets[ip].age = Minute)
    <3>1. /\ buckets[ip] \in [tokens : 0..Rate!perMin, age : 0..Minute]
          /\ spent[ip] = Rate!perMin - buckets[ip].tokens
      BY <2>1, <2>10 DEF BucketOK
    <3>2. buckets'[ip] = [buckets[ip] EXCEPT !.age = @ + 1]
      BY <1>1, <2>10
    <3>3. /\ buckets'[ip] \in [tokens : 0..Rate!perMin, age : 0..Minute]
          /\ buckets'[ip].tokens = buckets[ip].tokens
          /\ buckets'[ip].age = buckets[ip].age + 1
      BY <2>10, <3>1, <3>2, RateIsPositive
    <3>4. BucketOK(ip)'
      BY <1>1, <3>1, <3>3 DEF BucketOK
    <3>5. \A q \in young : q \in recent[ip]
      BY DEF young
    <3>6. \A q \in recent'[ip] : buckets'[ip].age <= q.age
      BY <2>1, <2>2, <2>5, <3>1, <3>3, <3>5, RateIsPositive DEF RecentOK
    <3> QED BY <2>7, <2>8, <3>4, <3>6 DEF RecentOK
  <2> QED BY <2>9, <2>10
<1>3. Rate!TypeOK'
  <2>1. ASSUME NEW ip \in Ips
        PROVE  /\ buckets'[ip] \in [tokens : 0..Rate!capacity, age : 0..Minute]
                                     \cup {Rate!NoBucket}
               /\ recent'[ip] \in SUBSET Rate!Recent
    <3>1. BucketOK(ip)'
      BY <1>2
    <3>2. \A q \in recent[ip] : q \in Rate!Recent
      BY DEF LimiterInv, Rate!TypeOK
    <3>3. recent'[ip] = {Older(q) : q \in {q \in recent[ip] : q.age + 1 < Minute}}
      BY <1>1 DEF Rate!OneOlder, Older
    <3> QED BY <3>1, <3>2, <3>3, OlderFields, RateIsPositive
            DEF BucketOK, Rate!NoBucket
  <2>2. /\ buckets' = [ip \in Ips |-> buckets'[ip]]
        /\ recent' = [ip \in Ips |-> recent'[ip]]
    BY DEF Rate!Tick
  <2>3. spent' = spent /\ refused' = {}
    BY DEF Rate!Tick
  <2>4. /\ buckets' \in [Ips -> [tokens : 0..Rate!capacity, age : 0..Minute]
                                  \cup {Rate!NoBucket}]
        /\ recent' \in [Ips -> SUBSET Rate!Recent]
    BY <2>1, <2>2
  <2> QED BY <2>3, <2>4 DEF LimiterInv, Rate!TypeOK
<1>4. Rate!RefusedOnceSpent'
  BY DEF Rate!Tick, Rate!RefusedOnceSpent
<1> QED BY <1>2, <1>3, <1>4 DEF LimiterInv

LEMMA LimiterKeeps == LimiterInv /\ [Rate!Next]_(Rate!vars) => LimiterInv'
<1> SUFFICES ASSUME LimiterInv, [Rate!Next]_(Rate!vars)
             PROVE  LimiterInv'
  OBVIOUS
<1>1. CASE UNCHANGED Rate!vars
  BY <1>1 DEF Rate!vars, LimiterInv, Rate!TypeOK, Rate!RefusedOnceSpent,
     BucketOK, RecentOK, Rate!Granted
<1>2. CASE Rate!Restart
  <2>1. Rate!Init'
    BY <1>2 DEF Rate!Restart, Rate!Init
  <2>2. Rate!Init' => LimiterInv'
    BY LimiterInitHolds, PTL
  <2> QED BY <2>1, <2>2
<1> QED BY <1>1, <1>2, LimitKeeps, LimiterTickKeeps DEF Rate!Next

LEMMA AlwaysLimiterInv == Rate!Spec => []LimiterInv
BY LimiterInitHolds, LimiterKeeps, PTL DEF Rate!Spec

(* What was let through in the last minute is part of the rate. *)
LEMMA NoMinuteGetsMore == LimiterInv => Rate!NoMoreThanPerMin
<1> SUFFICES ASSUME LimiterInv, NEW ip \in Ips
             PROVE  Rate!Cardinality(Rate!Granted(ip)) <= Rate!perMin
  BY DEF Rate!NoMoreThanPerMin
<1>1. BucketOK(ip) /\ RecentOK(ip)
  BY DEF LimiterInv
<1>2. spent[ip] \in Int /\ spent[ip] <= Rate!perMin
  BY <1>1, RateIsPositive DEF BucketOK
<1>3. Cardinality(Rate!Granted(ip)) \in Nat
  <2>1. Rate!Granted(ip) \subseteq recent[ip] /\ IsFiniteSet(recent[ip])
    BY <1>1 DEF Rate!Granted, RecentOK
  <2> QED BY <2>1, FS_Subset, FS_CardinalityType
<1> QED BY <1>1, <1>2, <1>3, RateCounts, RateIsPositive DEF RecentOK

=============================================================================
