------------------------------ MODULE Accounts ------------------------------
(***************************************************************************)
(* Accounts: first-run setup, users and roles, sessions, API tokens, single *)
(* sign-on. The second factor of an account is in SecondFactor.            *)
(*                                                                         *)
(* The handlers of routes/users.py and routes/auth.py are coroutines that  *)
(* never await: one holds the loop until it ends, and is one step if it    *)
(* makes one transaction. First-run setup, changes of roles and passwords  *)
(* and deletions are of several, and the process may be killed in between. *)
(* The callback of the identity provider is a thread, `habeny token` a     *)
(* process of its own, and each of their database calls a step.            *)
(***************************************************************************)
EXTENDS Integers, FiniteSets

CONSTANTS
    MaxUsers,       \* rows ever inserted (AUTOINCREMENT: ids are not reused)
    Names,          \* usernames
    Subjects,       \* identities at the identity provider
    Sessions,       \* session tokens
    Tokens,         \* API tokens
    Flows,          \* sign-ins at the identity provider
    LowRoles        \* the roles below admin in use

ASSUME MaxUsersType == MaxUsers \in Nat
ASSUME RolesAreRanks == LowRoles \subseteq {0, 1}
ASSUME SubjectsAreNotLocal == "local" \notin Subjects

VARIABLES
    up,         \* the process runs
    handler,    \* the handler that holds the loop, the user it is about, and sessions it is to keep
    file,       \* the setup token's file exists
    user,       \* the users table
    lastId,     \* the largest id ever given
    session,    \* the sessions table: owners
    token,      \* the api_tokens table: owners and roles
    sso,        \* FlowStore, and the threads of sso_callback
    cli,        \* `habeny token create`
    setUp       \* the first account was made by setup_admin (history)

serverVars == <<up, handler, file>>
accountVars == <<serverVars, user, lastId, session, token, sso, cli, setUp>>

Ids == 1 .. MaxUsers
Nobody == 0
Admin == 2
Roles == LowRoles \cup {Admin}
NoRole == -1
Local == "local"

NoUser == [name |-> "", subject |-> "", role |-> NoRole, password |-> FALSE]
LocalUser(n, r) == [name |-> n, subject |-> Local, role |-> r, password |-> TRUE]
SsoUser(n, x, r) == [name |-> n, subject |-> x, role |-> r, password |-> FALSE]

NoToken == [owner |-> Nobody, role |-> NoRole]
NoFlow == [at |-> "none", subject |-> "", claimed |-> NoRole, id |-> Nobody]
NoCli == [id |-> Nobody, name |-> "", role |-> NoRole]
Idle == [at |-> "idle", target |-> Nobody, keep |-> {}]

User == [name : Names, subject : Subjects \cup {Local}, role : Roles, password : BOOLEAN]

FlowRecord == [at : {"asked", "read", "synced", "known", "none"}, subject : Subjects \cup {""},
               claimed : Roles \cup {NoRole}, id : Ids \cup {Nobody}]

Handler == [at : {"idle", "setup", "created", "removed", "admin", "password"}, target : Ids \cup {Nobody},
            keep : SUBSET Sessions]

CliRecord == [id : Ids, name : Names, role : Roles]

AccountTypeOK ==
    /\ {up, file, setUp} \subseteq BOOLEAN
    /\ handler \in Handler
    /\ user \in [Ids -> User \cup {NoUser}]
    /\ lastId \in 0 .. MaxUsers
    /\ session \in [Sessions -> Ids \cup {Nobody}]
    /\ token \in [Tokens -> [owner : Ids, role : Roles] \cup {NoToken}]
    /\ sso \in [Flows -> FlowRecord]
    /\ cli \in CliRecord \cup {NoCli}
    /\ ~up => handler = Idle

Exists(i) == i # Nobody /\ user[i] # NoUser
Users == {i \in Ids : Exists(i)}
Admins == {i \in Users : user[i].role = Admin}
Taken(n) == \E i \in Users : user[i].name = n
BySubject(x) == {i \in Users : user[i].subject = x}

\* A coroutine can run.
OnLoop == up /\ handler = Idle

\* require_admin, with a session or an API token.
ActsAsAdmin(a) ==
    /\ a \in Admins
    /\ \/ \E s \in Sessions : session[s] = a
       \/ \E t \in Tokens : token[t] = [owner |-> a, role |-> Admin]

-----------------------------------------------------------------------------
(* db.py *)

\* Mutant of NewId: without AUTOINCREMENT, the one after the largest in the table.
NewIdOfTable == IF Users = {} THEN 1 ELSE 1 + (CHOOSE i \in Users : \A j \in Users : j <= i)

NewId == lastId + 1

InsertUser(u) ==
    /\ NewId <= MaxUsers
    /\ lastId' = NewId
    /\ user' = [user EXCEPT ![NewId] = u]

\* IntegrityError on the name or the subject
Conflicts(u) == Taken(u.name) \/ (u.subject # Local /\ BySubject(u.subject) # {})

\* Mutant of IsLastAdmin.
NeverLast(i) == FALSE

IsLastAdmin(i) == Admins = {i}

SetRole(i, r) == user' = [user EXCEPT ![i].role = r]
SignOutOthers(i, keep) ==
    session' = [s \in Sessions |-> IF session[s] = i /\ s \notin keep THEN Nobody ELSE session[s]]
SignOut(i) == SignOutOthers(i, {})
StartSession(s, i) ==
    /\ session[s] = Nobody
    /\ session' = [session EXCEPT ![s] = i]

\* The foreign key refuses a token of nobody.
InsertToken(t, i, r) ==
    /\ token[t] = NoToken
    /\ token' = IF Exists(i) THEN [token EXCEPT ![t] = [owner |-> i, role |-> r]] ELSE token

\* ON DELETE CASCADE takes the sessions and the tokens with the row.
DeleteUser(i) ==
    /\ user' = [user EXCEPT ![i] = NoUser]
    /\ token' = [t \in Tokens |-> IF token[t].owner = i THEN NoToken ELSE token[t]]
    /\ SignOut(i)

-----------------------------------------------------------------------------
(* The process and first-run setup. *)

Crash ==
    /\ up /\ up' = FALSE
    /\ handler' = Idle
    /\ sso' = [f \in Flows |-> NoFlow]
    /\ UNCHANGED <<file, user, lastId, session, token, cli, setUp>>

\* ensure_setup_token
Start ==
    /\ ~up /\ up' = TRUE
    /\ file' = (Users = {})
    /\ UNCHANGED <<handler, user, lastId, session, token, sso, cli, setUp>>

SetupChecks ==
    /\ OnLoop /\ Users = {} /\ file
    /\ handler' = [Idle EXCEPT !.at = "setup"]
    /\ UNCHANGED <<up, file, user, lastId, session, token, sso, cli, setUp>>

\* Mutant of SetupCreates: without counting again.
SetupCreatesUnchecked(n) ==
    /\ handler.at = "setup" /\ ~Taken(n)
    /\ InsertUser(LocalUser(n, Admin))
    /\ handler' = [Idle EXCEPT !.at = "created", !.target = NewId]
    /\ setUp' = TRUE
    /\ UNCHANGED <<up, file, session, token, sso, cli>>

\* create_first_user counts again in its transaction.
SetupCreates(n) ==
    /\ handler.at = "setup"
    /\ IF Users = {}
       THEN /\ InsertUser(LocalUser(n, Admin))
            /\ handler' = [Idle EXCEPT !.at = "created", !.target = NewId]
            /\ setUp' = TRUE
       ELSE handler' = Idle /\ UNCHANGED <<user, lastId, setUp>>
    /\ UNCHANGED <<up, file, session, token, sso, cli>>

\* remove_setup_token
SetupRemoves ==
    /\ handler.at = "created"
    /\ file' = FALSE
    /\ handler' = [handler EXCEPT !.at = "removed"]
    /\ UNCHANGED <<up, user, lastId, session, token, sso, cli, setUp>>

SetupFinishes(s) ==
    /\ handler.at = "removed"
    /\ StartSession(s, handler.target)
    /\ handler' = Idle
    /\ UNCHANGED <<up, file, user, lastId, token, sso, cli, setUp>>

ProcessNext ==
    \/ Crash \/ Start \/ SetupChecks \/ SetupRemoves
    \/ \E n \in Names : SetupCreates(n)
    \/ \E s \in Sessions : SetupFinishes(s)

-----------------------------------------------------------------------------
(* Signing in. Requests that are refused change nothing; those that the rate *)
(* limiter refuses are among them.                                           *)

Login(i, s) ==
    /\ OnLoop /\ Exists(i) /\ user[i].password
    /\ StartSession(s, i)
    /\ UNCHANGED <<serverVars, user, lastId, token, sso, cli, setUp>>

\* Logging out, ending one of one's sessions, and the end of SESSION_TTL_HOURS.
SessionEnds(s) ==
    /\ session[s] # Nobody
    /\ session' = [session EXCEPT ![s] = Nobody]
    /\ UNCHANGED <<serverVars, user, lastId, token, sso, cli, setUp>>

SignInNext ==
    \/ \E i \in Ids, s \in Sessions : Login(i, s)
    \/ \E s \in Sessions : SessionEnds(s)

-----------------------------------------------------------------------------
(* One's own account: require_session, and the current password where        *)
(* _confirm_password asks for it.                                            *)

SignedIn(s) == OnLoop /\ session[s] # Nobody
Confirmed(i) == user[i].subject = Local /\ user[i].password

\* update_user_password; the user's sessions are next.
NewPassword(i, keep) ==
    /\ user' = [user EXCEPT ![i].password = TRUE]
    /\ handler' = [at |-> "password", target |-> i, keep |-> keep]
    /\ UNCHANGED <<up, file, lastId, session, token, sso, cli, setUp>>

ChangePassword(s) == SignedIn(s) /\ Confirmed(session[s]) /\ NewPassword(session[s], {s})

\* delete_user_sessions; also when it fails
PasswordChanged ==
    /\ handler.at = "password" /\ handler' = Idle
    /\ SignOutOthers(handler.target, handler.keep) \/ UNCHANGED session
    /\ UNCHANGED <<up, file, user, lastId, token, sso, cli, setUp>>

EndOtherSessions(s) ==
    /\ SignedIn(s)
    /\ SignOutOthers(session[s], {s})
    /\ UNCHANGED <<serverVars, user, lastId, token, sso, cli, setUp>>

CreateToken(s, t, r) ==
    /\ SignedIn(s) /\ r <= user[session[s]].role
    /\ InsertToken(t, session[s], r)
    /\ UNCHANGED <<serverVars, user, lastId, session, sso, cli, setUp>>

\* Revoked by its owner, an administrator or `habeny token`, or expired and pruned.
TokenEnds(t) ==
    /\ token[t] # NoToken
    /\ token' = [token EXCEPT ![t] = NoToken]
    /\ UNCHANGED <<serverVars, user, lastId, session, sso, cli, setUp>>

OwnNext ==
    \/ \E s \in Sessions :
          \/ ChangePassword(s) \/ EndOtherSessions(s)
          \/ \E t \in Tokens, r \in Roles : CreateToken(s, t, r)
    \/ \E t \in Tokens : TokenEnds(t)
    \/ PasswordChanged

-----------------------------------------------------------------------------
(* Administrators. A change of role and a deletion hold the loop between the *)
(* check of who asks and their transaction, while sign-ins through the       *)
(* identity provider go on.                                                  *)

Target(a, i) == OnLoop /\ ActsAsAdmin(a) /\ Exists(i) /\ i # a

AddUser(a, n, r) ==
    /\ OnLoop /\ ActsAsAdmin(a) /\ ~Conflicts(LocalUser(n, r))
    /\ InsertUser(LocalUser(n, r))
    /\ UNCHANGED <<serverVars, session, token, sso, cli, setUp>>

AdminAsks(a, i) ==
    /\ Target(a, i)
    /\ handler' = [Idle EXCEPT !.at = "admin", !.target = i]
    /\ UNCHANGED <<up, file, user, lastId, session, token, sso, cli, setUp>>

\* set_user_role
UpdateUser(r) ==
    LET i == handler.target IN
    /\ handler.at = "admin" /\ handler' = Idle
    /\ IF r # Admin /\ IsLastAdmin(i) THEN UNCHANGED user ELSE SetRole(i, r)
    /\ UNCHANGED <<up, file, lastId, session, token, sso, cli, setUp>>

\* delete_user
RemoveUser ==
    LET i == handler.target IN
    /\ handler.at = "admin" /\ handler' = Idle
    /\ IF IsLastAdmin(i) THEN UNCHANGED <<user, session, token>> ELSE DeleteUser(i)
    /\ UNCHANGED <<up, file, lastId, sso, cli, setUp>>

ResetPassword(a, i) == Target(a, i) /\ user[i].subject = Local /\ NewPassword(i, {})

EndUserSessions(a, i) ==
    /\ Target(a, i)
    /\ SignOut(i)
    /\ UNCHANGED <<serverVars, user, lastId, token, sso, cli, setUp>>

AdminNext ==
    \/ \E a \in Ids, n \in Names, r \in Roles : AddUser(a, n, r)
    \/ \E a, i \in Ids :
          \/ AdminAsks(a, i) \/ ResetPassword(a, i) \/ EndUserSessions(a, i)
    \/ \E r \in Roles : UpdateUser(r)
    \/ RemoveUser

-----------------------------------------------------------------------------
(* Signing in through the identity provider, by threads. With group mapping, *)
(* the identity's groups claim a role.                                       *)

\* What the groups of an identity ask for: a role, or none that is mapped.
Claims == Roles \cup {NoRole}

Flow(f, at) == sso' = [sso EXCEPT ![f].at = at]
Known(f, i) == sso' = [sso EXCEPT ![f] = [NoFlow EXCEPT !.at = "known", !.subject = sso[f].subject, !.id = i]]
FlowEnds(f) == sso' = [sso EXCEPT ![f] = NoFlow]

SsoLogin(f) ==
    /\ up /\ sso[f] = NoFlow
    /\ Flow(f, "asked")
    /\ UNCHANGED <<serverVars, user, lastId, session, token, cli, setUp>>

\* The provider says who it is and of which groups; get_user_by_oidc_subject.
\* Of an account that is found, a role is claimed when it is another than the row has.
SsoReads(f, x, r) ==
    /\ sso[f].at = "asked"
    /\ LET found == [at |-> "read", subject |-> x, claimed |-> r, id |-> Nobody] IN
       \/ BySubject(x) = {} /\ sso' = [sso EXCEPT ![f] = found]
       \/ \E i \in BySubject(x) :
             sso' = [sso EXCEPT ![f] = [found EXCEPT !.id = i, !.claimed = IF @ = user[i].role THEN NoRole ELSE @]]
    /\ UNCHANGED <<serverVars, user, lastId, session, token, cli, setUp>>

\* FLOW_TTL is over, or the provider or the exchange of the code refuses.
SsoRefused(f) ==
    /\ sso[f].at = "asked"
    /\ FlowEnds(f)
    /\ UNCHANGED <<serverVars, user, lastId, session, token, cli, setUp>>

\* create_sso_user, with the role claimed or else HABENY_OIDC_DEFAULT_ROLE
SsoCreates(f, n, r) ==
    /\ sso[f].at = "read" /\ sso[f].id = Nobody
    /\ sso[f].claimed # NoRole => r = sso[f].claimed
    /\ IF Conflicts(SsoUser(n, sso[f].subject, r))
       THEN FlowEnds(f) /\ UNCHANGED <<user, lastId>>
       ELSE /\ InsertUser(SsoUser(n, sso[f].subject, r))
            /\ Known(f, NewId)
    /\ UNCHANGED <<serverVars, session, token, cli, setUp>>

\* set_user_role, when a role is claimed
SsoSyncs(f) ==
    LET i == sso[f].id
        r == sso[f].claimed
    IN
    /\ sso[f].at = "read" /\ i # Nobody
    /\ IF r = NoRole THEN Known(f, i) /\ UNCHANGED user
       ELSE IF r # Admin /\ IsLastAdmin(i) THEN Known(f, i) /\ UNCHANGED user
       ELSE IF Exists(i) THEN Flow(f, "synced") /\ SetRole(i, r)
       ELSE Flow(f, "synced") /\ UNCHANGED user
    /\ UNCHANGED <<serverVars, lastId, session, token, cli, setUp>>

\* The row is read again; the request fails when it is gone.
SsoReadsAgain(f) ==
    /\ sso[f].at = "synced"
    /\ IF Exists(sso[f].id) THEN Known(f, sso[f].id) ELSE FlowEnds(f)
    /\ UNCHANGED <<serverVars, user, lastId, session, token, cli, setUp>>

\* start_session: the foreign key refuses a session of nobody.
SsoSignsIn(f, s) ==
    /\ sso[f].at = "known"
    /\ IF Exists(sso[f].id) THEN StartSession(s, sso[f].id) ELSE UNCHANGED session
    /\ FlowEnds(f)
    /\ UNCHANGED <<serverVars, user, lastId, token, cli, setUp>>

SsoNext == \E f \in Flows :
    \/ \E x \in Subjects, r \in Claims : SsoReads(f, x, r)
    \/ \E n \in Names, r \in Roles : SsoCreates(f, n, r)
    \/ \E s \in Sessions : SsoSignsIn(f, s)
    \/ SsoLogin(f) \/ SsoRefused(f) \/ SsoSyncs(f) \/ SsoReadsAgain(f)

-----------------------------------------------------------------------------
(* habeny token create: reads the user, and then inserts the token. *)

CliReads(i, r) ==
    /\ cli = NoCli /\ Exists(i) /\ r <= user[i].role
    /\ cli' = [id |-> i, name |-> user[i].name, role |-> r]
    /\ UNCHANGED <<serverVars, user, lastId, session, token, sso, setUp>>

CliCreates(t) ==
    /\ cli # NoCli /\ cli' = NoCli
    /\ InsertToken(t, cli.id, cli.role)
    /\ UNCHANGED <<serverVars, user, lastId, session, sso, setUp>>

CliNext == (\E i \in Ids, r \in Roles : CliReads(i, r)) \/ (\E t \in Tokens : CliCreates(t))

AccountInit ==
    /\ up = TRUE /\ handler = Idle /\ file = TRUE
    /\ user = [i \in Ids |-> NoUser] /\ lastId = 0
    /\ session = [s \in Sessions |-> Nobody]
    /\ token = [t \in Tokens |-> NoToken]
    /\ sso = [f \in Flows |-> NoFlow]
    /\ cli = NoCli
    /\ setUp = FALSE

AccountNext == ProcessNext \/ SignInNext \/ OwnNext \/ AdminNext \/ SsoNext \/ CliNext

AccountSpec == AccountInit /\ [][AccountNext]_accountVars

-----------------------------------------------------------------------------
(* Properties. *)

\* Once there is an administrator there is always one, whatever administrators,
\* group mappings and half-finished requests do to the roles (db.py: _is_last_admin).
AdminRemains == [][Admins # {} => Admins' # {}]_accountVars

\* An account that is looked up and used later is still the same, whatever is deleted and
\* made in between: a sign-in through the identity provider goes on in the account of its
\* identity or in none, and `habeny token` makes a token of the user it was asked for or none.
\* An account of the provider never gets a password (routes/auth.py: _sso_account; cli.py:
\* cmd_token; routes/users.py: reset_user_password).
IdentitiesApart ==
    /\ \A f \in Flows : Exists(sso[f].id) => user[sso[f].id].subject = sso[f].subject
    /\ Exists(cli.id) => user[cli.id].name = cli.name
    /\ \A i \in Users : user[i].subject # Local => ~user[i].password

\* First-run setup makes the first account or none, and is offered exactly until there
\* is one: the setup token outlives neither a setup nor, if that is cut off, the next
\* start (setup_token.py; db.py: create_first_user).
SetupOnce ==
    /\ [][setUp' # setUp => Users = {}]_accountVars
    /\ [][OnLoop' /\ setUp' => ~file']_accountVars
=============================================================================
