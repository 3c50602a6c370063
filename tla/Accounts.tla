------------------------------- MODULE Accounts -----------------------------
(***************************************************************************)
(* Accounts, the tokens they are given, and the audit log, statement by    *)
(* statement, several requests at a time.                                  *)
(*                                                                         *)
(* Registration looks the name up and inserts later; the unique index on   *)
(* the name decides a race.  A token carries the account and its role and  *)
(* is believed until it expires, whatever the database says.  The audit    *)
(* row of a request is written by the middleware after its handler is      *)
(* through, outside any transaction.  Hashes stand for their passwords.    *)
(***************************************************************************)
EXTENDS Naturals, Sequences

CONSTANTS Typed,      \* names as they are typed
          Trim,       \* Typed -> the name without spaces around it
          Passwords,  \* passwords requests carry
          Short,      \* those of fewer than six bytes
          Profiles,   \* what an account's holder tells of themselves
          Slots,      \* requests that can be in flight at once
          Nobody,     \* no account
          Lifetime,   \* how long a token is valid
          MaxTime,    \* bound: the clock
          MaxActs     \* bound: writes and logins carried out

AccountsAssumption ==
  /\ Trim \in [Typed -> Typed]
  /\ \A n \in Typed : Trim[Trim[n]] = Trim[n]
  /\ Short \subseteq Passwords
  /\ Nobody \notin Typed /\ Profiles # {}
  /\ Lifetime \in Nat /\ MaxTime \in Nat /\ MaxActs \in Nat

VARIABLES users,     \* name -> row of users
          tokens,    \* tokens given out
          audit,     \* audit_logs: which act, and whose
          now,       \* the clock
          req,       \* Slots -> the request a slot is busy with
          acts,      \* history: the writes and logins carried out
          accepted   \* history: name -> the registrations that succeeded

vars == <<users, tokens, audit, now, req, acts, accepted>>

Names == {Trim[n] : n \in Typed}

Roles == {"admin", "lawyer", "assistant"}

NoUser == [password |-> "none", role |-> "none", profile |-> "none"]

User == [password : Passwords, role : Roles, profile : Profiles]

Token == [name : Names, role : Roles, expires : 0..(MaxTime + Lifetime)]

(***************************************************************************)
(* pc: the next statement of a request.                                    *)
(*   lookup, insert     registration                                       *)
(*   login              the look-up of a login                             *)
(*   findMe, saveMe     a change of the profile                            *)
(*   list               the list of users                                  *)
(*   audit              the audit row, once act has been carried out       *)
(* operator: what AuthRequired took from the token, Nobody without one.    *)
(***************************************************************************)
Idle ==
  [pc |-> "idle", name |-> Nobody, row |-> NoUser, operator |-> Nobody,
   act |-> 0, outcome |-> "none"]

Requests ==
  [pc : {"idle", "lookup", "insert", "login", "findMe", "saveMe", "list",
         "audit", "done"},
   name : Names \cup Typed \cup {Nobody},
   row : [password : Passwords \cup {"none"}, role : Roles \cup {"none"},
          profile : Profiles \cup {"none"}],
   operator : Names \cup {Nobody}, act : 0..MaxActs,
   outcome : {"none", "ok", "refused", "exists", "not_found", "forbidden",
              "failed"}]

InFlight(r) == req[r].pc \notin {"idle", "done"}

Answer(outcome) == [Idle EXCEPT !.pc = "done", !.outcome = outcome]

Goto(r, next) == req' = [req EXCEPT ![r] = next]

(* The handler is through with what it had to do: the act is on record and *)
(* the middleware goes on to its audit row.                                *)
CarriedOut(r, kind) ==
  /\ Len(acts) < MaxActs
  /\ acts' = Append(acts, [kind |-> kind, by |-> req[r].operator])
  /\ Goto(r, [req[r] EXCEPT !.pc = "audit", !.act = Len(acts) + 1,
                            !.outcome = "ok"])

Refuses(r, outcome) ==
  /\ Goto(r, Answer(outcome))
  /\ UNCHANGED <<users, tokens, audit, now, acts, accepted>>

-----------------------------------------------------------------------------
Init ==
  /\ users = [n \in Names |-> NoUser]
  /\ tokens = {}
  /\ audit = {}
  /\ now = 0
  /\ req = [r \in Slots |-> Idle]
  /\ acts = <<>>
  /\ accepted = [n \in Names |-> {}]

Begin(r, request) ==
  /\ req[r].pc = "idle"
  /\ Goto(r, request)
  /\ UNCHANGED <<users, tokens, audit, now, acts, accepted>>

(* A registration without a role asks for a lawyer's; "none" stands for a  *)
(* role that is none of the three.                                         *)
BeginRegister(r, typed, password, role) ==
  Begin(r, IF password \in Short THEN Answer("refused")
           ELSE [Idle EXCEPT !.pc = "lookup", !.name = Trim[typed],
                   !.row = [password |-> password, role |-> role,
                            profile |-> CHOOSE p \in Profiles : TRUE]])

(* A login takes the name as it was typed. *)
BeginLogin(r, typed, password) ==
  Begin(r, [Idle EXCEPT !.pc = "login", !.name = typed,
                        !.row.password = password])

(* AuthRequired: a token that has not expired says who asks. *)
Admitted(token) == now < token.expires

BeginProfile(r, token, profile) ==
  Begin(r, IF ~Admitted(token) THEN Answer("refused")
           ELSE [Idle EXCEPT !.pc = "findMe", !.operator = token.name,
                             !.row.profile = profile])

(* RequireRole goes by the role in the token. *)
RequireAdmin(token) == token.role = "admin"

BeginList(r, token) ==
  Begin(r, IF ~Admitted(token) THEN Answer("refused")
           ELSE IF ~RequireAdmin(token) THEN Answer("forbidden")
           ELSE [Idle EXCEPT !.pc = "list", !.operator = token.name])

-----------------------------------------------------------------------------
(* Register up to the INSERT: name, then role, then the hash. *)
FindByUsername(r) ==
  /\ req[r].pc = "lookup"
  /\ IF users[req[r].name] # NoUser
     THEN Refuses(r, "exists")
     ELSE IF req[r].row.role \notin Roles
     THEN Refuses(r, "refused")
     ELSE /\ Goto(r, [req[r] EXCEPT !.pc = "insert"])
          /\ UNCHANGED <<users, tokens, audit, now, acts, accepted>>

(* Wrong on purpose: the row is saved whether or not it is there.          *)
InsertOrReplace(r) ==
  LET q == req[r]
  IN /\ q.pc = "insert"
     /\ users' = [users EXCEPT ![q.name] = q.row]
     /\ accepted' = [accepted EXCEPT ![q.name] =
                       @ \cup {[password |-> q.row.password, role |-> q.row.role]}]
     /\ CarriedOut(r, "register")
     /\ UNCHANGED <<tokens, audit, now>>

(* The unique index: whoever comes second gets an internal error. *)
InsertUser(r) ==
  LET q == req[r]
  IN /\ q.pc = "insert"
     /\ IF users[q.name] # NoUser
        THEN Refuses(r, "failed")
        ELSE /\ users' = [users EXCEPT ![q.name] = q.row]
             /\ accepted' = [accepted EXCEPT ![q.name] =
                  @ \cup {[password |-> q.row.password, role |-> q.row.role]}]
             /\ CarriedOut(r, "register")
             /\ UNCHANGED <<tokens, audit, now>>

(* Wrong on purpose: the token says the role the login asked for, a        *)
(* lawyer's unless told otherwise.                                         *)
TokenOfAsked(name) ==
  [name |-> name, role |-> "lawyer", expires |-> now + Lifetime]

GenerateToken(name) ==
  [name |-> name, role |-> users[name].role, expires |-> now + Lifetime]

Login(r) ==
  LET q == req[r]
  IN /\ q.pc = "login"
     /\ IF /\ q.name \in Names /\ users[q.name] # NoUser
           /\ users[q.name].password = q.row.password
        THEN /\ tokens' = tokens \cup {GenerateToken(q.name)}
             /\ CarriedOut(r, "login")
             /\ UNCHANGED <<users, audit, now, accepted>>
        ELSE Refuses(r, "refused")

FindMe(r) ==
  LET q == req[r]  row == users[q.operator]
  IN /\ q.pc = "findMe"
     /\ IF row = NoUser THEN Refuses(r, "not_found")
        ELSE /\ Goto(r, [q EXCEPT !.pc = "saveMe",
                                  !.row = [row EXCEPT !.profile = q.row.profile]])
             /\ UNCHANGED <<users, tokens, audit, now, acts, accepted>>

(* Save: an UPDATE of every column as read. *)
SaveMe(r) ==
  /\ req[r].pc = "saveMe"
  /\ users' = [users EXCEPT ![req[r].operator] = req[r].row]
  /\ CarriedOut(r, "profile")
  /\ UNCHANGED <<tokens, audit, now, accepted>>

(* A GET: no audit row. *)
ListUsers(r) ==
  /\ req[r].pc = "list"
  /\ Goto(r, [req[r] EXCEPT !.pc = "done", !.outcome = "ok"])
  /\ UNCHANGED <<users, tokens, audit, now, acts, accepted>>

-----------------------------------------------------------------------------
(* Wrong on purpose: the operator is whoever the request is about. *)
WriteAuditByName(r) ==
  LET q == req[r]
  IN /\ q.pc = "audit"
     /\ audit' = audit \cup {[act |-> q.act, operator |-> q.name]}
     /\ Goto(r, [q EXCEPT !.pc = "done"])
     /\ UNCHANGED <<users, tokens, now, acts, accepted>>

(* AuditLog, after the handler: one row for what was answered without an   *)
(* error.  An INSERT that fails is only logged.                            *)
WriteAudit(r) ==
  LET q == req[r]
  IN /\ q.pc = "audit"
     /\ \/ audit' = audit \cup {[act |-> q.act, operator |-> q.operator]}
        \/ audit' = audit
     /\ Goto(r, [q EXCEPT !.pc = "done"])
     /\ UNCHANGED <<users, tokens, now, acts, accepted>>

(* A statement of the handler fails: an error, and no audit row. *)
StatementFails(r) ==
  /\ InFlight(r) /\ req[r].pc # "audit"
  /\ Refuses(r, "failed")

Received(r) ==
  /\ req[r].pc = "done"
  /\ Goto(r, Idle)
  /\ UNCHANGED <<users, tokens, audit, now, acts, accepted>>

Restart ==
  /\ req # [r \in Slots |-> Idle]
  /\ req' = [r \in Slots |-> Idle]
  /\ UNCHANGED <<users, tokens, audit, now, acts, accepted>>

Tick ==
  /\ now < MaxTime
  /\ now' = now + 1
  /\ UNCHANGED <<users, tokens, audit, req, acts, accepted>>

ClientStep(r) ==
  \/ \E n \in Typed, p \in Passwords :
       \/ \E role \in Roles \cup {"none"} : BeginRegister(r, n, p, role)
       \/ BeginLogin(r, n, p)
  \/ \E t \in tokens :
       \/ \E p \in Profiles : BeginProfile(r, t, p)
       \/ BeginList(r, t)
  \/ Received(r)

Step(r) ==
  \/ FindByUsername(r)
  \/ InsertUser(r)
  \/ Login(r)
  \/ FindMe(r)
  \/ SaveMe(r)
  \/ ListUsers(r)
  \/ WriteAudit(r)

Next ==
  \/ \E r \in Slots : ClientStep(r) \/ Step(r) \/ StatementFails(r)
  \/ Restart
  \/ Tick

Spec == Init /\ [][Next]_vars

-----------------------------------------------------------------------------
(* Rows, tokens and what requests in flight hold have their types          *)
(* (model/user.go, util/jwt.go, model/audit_log.go).                       *)
TypeOK ==
  /\ users \in [Names -> User \cup {NoUser}]
  /\ tokens \subseteq Token
  /\ audit \subseteq [act : 1..MaxActs, operator : Names \cup {Nobody}]
  /\ now \in 0..MaxTime
  /\ req \in [Slots -> Requests]
  /\ Len(acts) <= MaxActs
  /\ accepted \in [Names -> SUBSET [password : Passwords, role : Roles]]

(* A registration that succeeded is the only one of its name, and the      *)
(* account keeps its password and role through later registrations, late   *)
(* saves of the profile and restarts (user_service.go, Register and        *)
(* UpdateProfile; the unique index of model/user.go).                      *)
RegistrationStands ==
  \A n \in Names :
    accepted[n] = IF users[n] = NoUser THEN {}
                  ELSE {[password |-> users[n].password, role |-> users[n].role]}

(* The role a token carries, which is all that RequireRole looks at, is    *)
(* that of its account, as long as the token is believed (jwt.go, auth.go, *)
(* rbac.go).                                                               *)
TokensCarryTheRole ==
  \A t \in tokens : users[t.name] # NoUser /\ t.role = users[t.name].role

(* An audit row stands for one act that was carried out, and names whose   *)
(* it was (audit_log.go, after the handler and only without an error).     *)
AuditTellsWhatHappened ==
  \A a \in audit :
    /\ a.act \in DOMAIN acts /\ a.operator = acts[a.act].by
    /\ \A b \in audit : b.act = a.act => b = a

-----------------------------------------------------------------------------
(* What the documentation says and a failed INSERT or a stop breaks: every *)
(* write has its audit row once its request is over (README.md; the        *)
(* comment of AuditLog in audit_log.go).                                   *)
WritesAreAudited ==
  \A k \in DOMAIN acts :
    \/ \E a \in audit : a.act = k
    \/ \E r \in Slots : req[r].act = k
=============================================================================
