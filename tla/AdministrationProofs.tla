------------------------- MODULE AdministrationProofs -------------------------
(***************************************************************************)
(* Accounts and sign-ins, the second factor, other hosts and the helper,   *)
(* for any numbers of them; and the parts of MCAdministration, each by     *)
(* itself one of the components, so that what is proved of a component     *)
(* holds of the whole.                                                     *)
(***************************************************************************)
EXTENDS MCAdministration, AuditProofs, RegistryProofs

-----------------------------------------------------------------------------
(* Accounts. *)

\* No row is of an id yet to be given.
TableOK ==
    /\ user \in [Ids -> User \cup {NoUser}] /\ lastId \in 0 .. MaxUsers
    /\ \A i \in Users : i <= lastId
    /\ \A i \in Users : user[i].subject # Local => user[i].password = FALSE

\* An identity was read before its account is made.
SignInsOK ==
    /\ session \in [Sessions -> Ids \cup {Nobody}]
    /\ token \in [Tokens -> [owner : Ids, role : Roles] \cup {NoToken}]
    /\ sso \in [Flows -> FlowRecord]
    /\ cli \in CliRecord \cup {NoCli}
    /\ \A f \in Flows : sso[f].at = "read" => sso[f].subject \in Subjects

\* An id that was looked up has been given, and its row is still of the same user, or gone.
LookupsOK ==
    /\ \A f \in Flows : /\ sso[f].id <= lastId
                        /\ sso[f].id \in Users => user[sso[f].id].subject = sso[f].subject
    /\ cli.id <= lastId
    /\ cli.id \in Users => user[cli.id].name = cli.name

\* The user that a handler is about stays while it holds the loop; setup goes on only until
\* there is an administrator, and then its token goes before another handler comes.
HandlerOK ==
    /\ {up, file, setUp} \subseteq BOOLEAN
    /\ handler \in Handler
    /\ up = FALSE => handler = Idle
    /\ handler.at = "admin" => handler.target \in Users
    /\ setUp = TRUE => Admins # {} /\ handler.at # "setup"
    /\ setUp = TRUE /\ up = TRUE /\ handler.at # "created" => file = FALSE

AccountInv == TableOK /\ SignInsOK /\ LookupsOK /\ HandlerOK

LEMMA AccountFacts ==
    /\ NoUser \notin User /\ Nobody \notin Ids /\ Ids \subseteq Nat
    /\ Roles \subseteq {0, 1, 2} /\ Admin \in Roles /\ NoRole \notin Roles
    /\ Local \notin Subjects
<1>1. Roles \subseteq {0, 1, 2} /\ Admin \in Roles /\ NoRole \notin Roles
  BY RolesAreRanks DEF Roles, Admin, NoRole
<1>2. NoUser \notin User
  BY <1>1 DEF NoUser, User
<1> QED  BY <1>1, <1>2, SubjectsAreNotLocal DEF Nobody, Ids, Local

LEMMA UsersAre == ASSUME TableOK PROVE \A i : i \in Users <=> i \in Ids /\ user[i] \in User
BY AccountFacts DEF TableOK, Users, Exists

-----------------------------------------------------------------------------
\* What a step may do to the users table: a new row, other values in a row, a row that goes.
Inserted(u) ==
    /\ InsertUser(u) /\ u \in User /\ ~Conflicts(u)
    /\ u.subject # Local => u.password = FALSE

Changed(i, u) ==
    /\ user' = [user EXCEPT ![i] = u] /\ lastId' = lastId
    /\ i \in Users /\ u \in User /\ u.name = user[i].name /\ u.subject = user[i].subject
    /\ u.subject # Local => u.password = FALSE
    /\ u.role = Admin \/ user[i].role # Admin \/ Admins # {i}

Removed(i) ==
    /\ user' = [user EXCEPT ![i] = NoUser] /\ lastId' = lastId
    /\ Admins # {i} /\ handler' = Idle

UserChange ==
    \/ UNCHANGED <<user, lastId>>
    \/ \E u \in User : Inserted(u)
    \/ \E i \in Users, u \in User : Changed(i, u)
    \/ \E i \in Ids : Removed(i)

LEMMA InsertedKeeps ==
    ASSUME TableOK, NEW u \in User, Inserted(u)
    PROVE  /\ TableOK' /\ Users \subseteq Users'
           /\ \A i \in Admins : i \in Admins'
           /\ NewId \in Users' /\ user'[NewId] = u /\ lastId' = NewId /\ NewId > lastId
           /\ \A i \in Users' : i # NewId => i \in Users /\ user'[i] = user[i]
<1> DEFINE k == NewId
<1>1. k \in Ids /\ k \notin Users /\ user' = [user EXCEPT ![k] = u] /\ lastId' = k /\ lastId' \in 0 .. MaxUsers
  BY MaxUsersType DEF TableOK, Inserted, InsertUser, NewId, Ids, Users
<1>2. \A i : i \in Ids => i \in Nat
  BY AccountFacts
<1>3. user' \in [Ids -> User \cup {NoUser}] /\ \A i \in Ids : user'[i] = IF i = k THEN u ELSE user[i]
  BY <1>1 DEF TableOK
<1>4. \A i : i \in Users' <=> i = k \/ i \in Users
  BY <1>1, <1>3, AccountFacts DEF Users, Exists
<1>5. \A i \in Users : i \in Ids /\ i # k /\ user'[i] = user[i]
  BY <1>1, <1>3 DEF Users
<1>6. \A i \in Users' : i <= lastId'
  <2>1. lastId \in Nat /\ \A i \in Users : i <= lastId /\ i \in Nat
    BY <1>2, <1>5 DEF TableOK
  <2> QED  BY <1>1, <1>4, <2>1 DEF NewId
<1>8. user'[k] = u
  BY <1>1, <1>3
<1>9. k > lastId
  BY DEF NewId, TableOK
<1> HIDE DEF k
<1>11. \A i \in Users' : user'[i].subject # Local => user'[i].password = FALSE
  BY <1>4, <1>5, <1>8, Zenon DEF TableOK, Inserted
<1>12. TableOK'
  BY <1>1, <1>3, <1>6, <1>11, Zenon DEF TableOK
<1>13. \A i \in Admins : i \in Admins'
  BY <1>4, <1>5 DEF Admins
<1> QED  BY <1>1, <1>4, <1>5, <1>8, <1>9, <1>12, <1>13 DEF k

LEMMA ChangedKeeps ==
    ASSUME TableOK, NEW i \in Users, NEW u \in User, Changed(i, u)
    PROVE  /\ TableOK' /\ Users' = Users /\ (Admins # {} => Admins' # {})
           /\ \A j \in Users : user'[j].name = user[j].name /\ user'[j].subject = user[j].subject
<1>1. i \in Ids /\ user' = [user EXCEPT ![i] = u] /\ lastId' = lastId
  BY DEF Changed, Users
<1>2. user' \in [Ids -> User \cup {NoUser}] /\ \A j \in Ids : user'[j] = IF j = i THEN u ELSE user[j]
  BY <1>1 DEF TableOK
<1>3. Users' = Users
  BY <1>1, <1>2, AccountFacts DEF Users, Exists
<1>4. \A j \in Users : j \in Ids
  BY DEF Users
<1>5. \A j \in Users : /\ user'[j].name = user[j].name /\ user'[j].subject = user[j].subject
                       /\ j # i => user'[j] = user[j]
                       /\ user'[i] = u
  BY <1>1, <1>2, <1>4 DEF Changed
<1>6. \A j \in Users' : user'[j].subject # Local => user'[j].password = FALSE
  <2>1. (u.subject # Local => u.password = FALSE) /\ user'[i] = u
    BY <1>5 DEF Changed
  <2>2. \A j \in Users : j # i => (user'[j].subject # Local => user'[j].password = FALSE)
    BY <1>5, Zenon DEF TableOK
  <2> QED  BY <1>3, <2>1, <2>2, Zenon
<1>7. TableOK'
  <2>1. \A j \in Users' : j <= lastId'
    BY <1>1, <1>3 DEF TableOK
  <2> QED  BY <1>1, <1>2, <1>6, <2>1, Zenon DEF TableOK
<1>8. ASSUME Admins # {} PROVE Admins' # {}
  <2>1. CASE u.role = Admin
    BY <1>3, <1>5, <2>1 DEF Admins
  <2>2. CASE u.role # Admin
    <3>1. PICK j \in Admins : j # i
      BY <1>8, <2>2 DEF Changed, Admins
    <3> QED  BY <1>3, <1>5, <3>1 DEF Admins
  <2> QED  BY <2>1, <2>2
<1> QED  BY <1>3, <1>5, <1>7, <1>8

LEMMA RemovedKeeps ==
    ASSUME TableOK, NEW i \in Ids, Removed(i)
    PROVE  /\ TableOK' /\ (Admins # {} => Admins' # {})
           /\ \A j \in Users' : j \in Users /\ user'[j] = user[j]
<1>1. user' = [user EXCEPT ![i] = NoUser] /\ lastId' = lastId
  BY DEF Removed
<1>2. user' \in [Ids -> User \cup {NoUser}] /\ \A j \in Ids : user'[j] = IF j = i THEN NoUser ELSE user[j]
  BY <1>1 DEF TableOK
<1>3. \A j : j \in Users' <=> j \in Users /\ j # i
  BY <1>2 DEF Users, Exists
<1>4. \A j \in Users : j \in Ids /\ (j # i => user'[j] = user[j])
  BY <1>2 DEF Users
<1>5. \A j \in Users' : user'[j].subject # Local => user'[j].password = FALSE
  BY <1>3, <1>4, Zenon DEF TableOK
<1>6. TableOK'
  BY <1>1, <1>2, <1>3, <1>4, <1>5 DEF TableOK
<1>7. ASSUME Admins # {} PROVE Admins' # {}
  <2>1. PICK j \in Admins : j # i
    BY <1>7 DEF Removed
  <2> QED  BY <1>3, <1>4, <2>1 DEF Admins
<1> QED  BY <1>3, <1>4, <1>6, <1>7

\* A row of an id given before is of the same user afterwards.
LEMMA RowsKept ==
    ASSUME TableOK, UserChange
    PROVE  /\ lastId' \in Nat /\ lastId' >= lastId
           /\ \A i \in Users' : i <= lastId =>
                 i \in Users /\ user'[i].name = user[i].name /\ user'[i].subject = user[i].subject
<1>1. lastId \in Nat
  BY MaxUsersType DEF TableOK
<1>2. CASE UNCHANGED <<user, lastId>>
  BY <1>1, <1>2 DEF Users, Exists
<1>3. ASSUME NEW u \in User, Inserted(u)
      PROVE  /\ lastId' \in Nat /\ lastId' >= lastId
             /\ \A i \in Users' : i <= lastId => i \in Users /\ user'[i] = user[i]
  <2>1. lastId' = NewId /\ NewId > lastId /\ \A i \in Users' : i # NewId => i \in Users /\ user'[i] = user[i]
    BY <1>3, InsertedKeeps
  <2> QED  BY <1>1, <2>1 DEF NewId
<1>4. ASSUME NEW i \in Users, NEW u \in User, Changed(i, u)
      PROVE  /\ lastId' = lastId /\ Users' = Users
             /\ \A j \in Users : user'[j].name = user[j].name /\ user'[j].subject = user[j].subject
  BY <1>4, ChangedKeeps DEF Changed
<1>5. ASSUME NEW i \in Ids, Removed(i)
      PROVE  lastId' = lastId /\ \A j \in Users' : j \in Users /\ user'[j] = user[j]
  BY <1>5, RemovedKeeps DEF Removed
<1> QED  BY <1>1, <1>2, <1>3, <1>4, <1>5 DEF UserChange

LEMMA ChangesKeep ==
    ASSUME TableOK, UserChange
    PROVE  TableOK' /\ (Admins # {} => Admins' # {}) /\ (handler' # Idle => Users \subseteq Users')
<1>1. CASE UNCHANGED <<user, lastId>>
  BY <1>1 DEF TableOK, Users, Admins, Exists
<1>2. ASSUME NEW u \in User, Inserted(u) PROVE TableOK' /\ (Admins # {} => Admins' # {}) /\ Users \subseteq Users'
  BY <1>2, InsertedKeeps
<1>3. ASSUME NEW i \in Users, NEW u \in User, Changed(i, u)
      PROVE  TableOK' /\ (Admins # {} => Admins' # {}) /\ Users \subseteq Users'
  BY <1>3, ChangedKeeps
<1>4. ASSUME NEW i \in Ids, Removed(i) PROVE TableOK' /\ (Admins # {} => Admins' # {}) /\ handler' = Idle
  BY <1>4, RemovedKeeps DEF Removed
<1> QED  BY <1>1, <1>2, <1>3, <1>4 DEF UserChange

-----------------------------------------------------------------------------
LEMMA NewUsers ==
    ASSUME NEW n \in Names, NEW r \in Roles
    PROVE  /\ LocalUser(n, r) \in User /\ LocalUser(n, r).subject = Local /\ LocalUser(n, r).role = r
           /\ \A x \in Subjects : SsoUser(n, x, r) \in User /\ SsoUser(n, x, r).password = FALSE
BY DEF LocalUser, SsoUser, User

\* Other values of one column of a row
LEMMA RowChanges ==
    ASSUME TableOK, NEW i \in Users
    PROVE  /\ \A r \in Roles : /\ [user[i] EXCEPT !.role = r] \in User
                               /\ [user[i] EXCEPT !.role = r].role = r
                               /\ [user[i] EXCEPT !.role = r].name = user[i].name
                               /\ [user[i] EXCEPT !.role = r].subject = user[i].subject
                               /\ [user[i] EXCEPT !.role = r].password = user[i].password
           /\ [user[i] EXCEPT !.password = TRUE] \in User
           /\ [user[i] EXCEPT !.password = TRUE].role = user[i].role
           /\ [user[i] EXCEPT !.password = TRUE].name = user[i].name
           /\ [user[i] EXCEPT !.password = TRUE].subject = user[i].subject
<1>1. user[i] \in User
  BY UsersAre
<1> QED  BY <1>1 DEF User

LEMMA RoleChanged ==
    ASSUME TableOK, NEW i \in Users, NEW r \in Roles, SetRole(i, r), UNCHANGED lastId, r = Admin \/ ~IsLastAdmin(i)
    PROVE  UserChange
<1> DEFINE u == [user[i] EXCEPT !.role = r]
<1>1. user' = [user EXCEPT ![i] = u]
  BY DEF SetRole
<1>2. u \in User /\ u.role = r /\ u.name = user[i].name /\ u.subject = user[i].subject /\ u.password = user[i].password
  BY RowChanges
<1> HIDE DEF u
<1>3. u.subject # Local => u.password = FALSE
  BY <1>2 DEF TableOK
<1>4. Changed(i, u)
  BY <1>1, <1>2, <1>3 DEF Changed, IsLastAdmin
<1> QED  BY <1>2, <1>4 DEF UserChange

LEMMA PasswordRowChanged ==
    ASSUME TableOK, NEW i \in Users, user[i].subject = Local, user' = [user EXCEPT ![i].password = TRUE], UNCHANGED lastId
    PROVE  UserChange
<1> DEFINE u == [user[i] EXCEPT !.password = TRUE]
<1>1. user' = [user EXCEPT ![i] = u]
  OBVIOUS
<1>2. u \in User /\ u.role = user[i].role /\ u.name = user[i].name /\ u.subject = user[i].subject
  BY RowChanges
<1> HIDE DEF u
<1>3. Changed(i, u)
  BY <1>1, <1>2 DEF Changed
<1> QED  BY <1>2, <1>3 DEF UserChange

\* Every step changes the users table in one of these ways.
LEMMA ChangesKnown == ASSUME AccountInv, AccountNext PROVE UserChange
<1> USE DEF AccountInv
<1>1. ASSUME ProcessNext PROVE UserChange
  <2>1. ASSUME NEW n \in Names, SetupCreates(n) PROVE UserChange
    <3>1. CASE Users = {}
      <4>1. InsertUser(LocalUser(n, Admin))
        BY <2>1, <3>1 DEF SetupCreates
      <4>2. LocalUser(n, Admin) \in User /\ LocalUser(n, Admin).subject = Local
        BY NewUsers, AccountFacts
      <4>3. ~Conflicts(LocalUser(n, Admin))
        BY <3>1, <4>2 DEF Conflicts, Taken
      <4> QED  BY <4>1, <4>2, <4>3 DEF UserChange, Inserted
    <3>2. CASE Users # {}
      BY <2>1, <3>2 DEF SetupCreates, UserChange
    <3> QED  BY <3>1, <3>2
  <2> QED  BY <1>1, <2>1 DEF ProcessNext, Crash, Start, SetupChecks, SetupRemoves, SetupFinishes, UserChange
<1>2. ASSUME SignInNext \/ CliNext PROVE UserChange
  BY <1>2 DEF SignInNext, CliNext, Login, SessionEnds, CliReads, CliCreates, UserChange
<1>3. ASSUME OwnNext PROVE UserChange
  <2>1. ASSUME NEW s \in Sessions, ChangePassword(s) PROVE UserChange
    <3>1. session[s] \in Ids /\ user[session[s]].subject = Local
      BY <2>1 DEF ChangePassword, SignedIn, Confirmed, SignInsOK
    <3>2. session[s] \in Users
      <4>1. NoUser.subject # Local
        BY DEF NoUser, Local
      <4> QED  BY <3>1, <4>1, AccountFacts DEF Users, Exists
    <3> QED  BY <2>1, <3>1, <3>2, PasswordRowChanged DEF ChangePassword, NewPassword
  <2> QED  BY <1>3, <2>1 DEF OwnNext, PasswordChanged, EndOtherSessions, CreateToken, TokenEnds, UserChange
<1>4. ASSUME AdminNext PROVE UserChange
  <2>1. ASSUME NEW a \in Ids, NEW n \in Names, NEW r \in Roles, AddUser(a, n, r) PROVE UserChange
    BY <2>1, NewUsers DEF AddUser, UserChange, Inserted
  <2>2. ASSUME NEW r \in Roles, UpdateUser(r) PROVE UserChange
    <3>1. handler.target \in Users
      BY <2>2 DEF UpdateUser, HandlerOK
    <3>2. CASE r # Admin /\ IsLastAdmin(handler.target)
      BY <2>2, <3>2 DEF UpdateUser, UserChange
    <3>3. CASE r = Admin \/ ~IsLastAdmin(handler.target)
      BY <2>2, <3>1, <3>3, RoleChanged DEF UpdateUser
    <3> QED  BY <3>2, <3>3
  <2>3. ASSUME RemoveUser PROVE UserChange
    <3>1. handler.target \in Ids
      BY <2>3 DEF RemoveUser, HandlerOK, Users
    <3>2. CASE IsLastAdmin(handler.target)
      BY <2>3, <3>2 DEF RemoveUser, UserChange
    <3>3. CASE ~IsLastAdmin(handler.target)
      BY <2>3, <3>1, <3>3 DEF RemoveUser, DeleteUser, IsLastAdmin, UserChange, Removed
    <3> QED  BY <3>2, <3>3
  <2>4. ASSUME NEW a \in Ids, NEW i \in Ids, ResetPassword(a, i) PROVE UserChange
    <3>1. i \in Users /\ user[i].subject = Local
      BY <2>4 DEF ResetPassword, Target, Users
    <3> QED  BY <2>4, <3>1, PasswordRowChanged DEF ResetPassword, NewPassword
  <2> QED  BY <1>4, <2>1, <2>2, <2>3, <2>4 DEF AdminNext, AdminAsks, EndUserSessions, UserChange
<1>5. ASSUME NEW f \in Flows, NEW n \in Names, NEW r \in Roles, SsoCreates(f, n, r) PROVE UserChange
  <2> DEFINE u == SsoUser(n, sso[f].subject, r)
  <2>1. CASE Conflicts(u)
    BY <1>5, <2>1 DEF SsoCreates, UserChange
  <2>2. CASE ~Conflicts(u)
    <3>1. InsertUser(u)
      BY <1>5, <2>2 DEF SsoCreates
    <3>2. u \in User /\ u.password = FALSE
      BY <1>5, NewUsers DEF SsoCreates, SignInsOK
    <3> HIDE DEF u
    <3> QED  BY <2>2, <3>1, <3>2 DEF UserChange, Inserted
  <2> QED  BY <2>1, <2>2
<1>6. ASSUME NEW f \in Flows, SsoSyncs(f) PROVE UserChange
  <2> DEFINE i == sso[f].id
             r == sso[f].claimed
  <2>1. i \in Ids /\ r \in Roles \cup {NoRole}
    BY <1>6 DEF SsoSyncs, SignInsOK, FlowRecord
  <2>2. \/ UNCHANGED <<user, lastId>>
        \/ /\ r # NoRole /\ Exists(i) /\ SetRole(i, r) /\ UNCHANGED lastId
           /\ r = Admin \/ ~IsLastAdmin(i)
    BY <1>6 DEF SsoSyncs
  <2> HIDE DEF i, r
  <2>3. CASE UNCHANGED <<user, lastId>>
    BY <2>3 DEF UserChange
  <2>4. CASE ~UNCHANGED <<user, lastId>>
    BY <2>1, <2>2, <2>4, RoleChanged DEF Users
  <2> QED  BY <2>3, <2>4
<1>7. ASSUME SsoNext PROVE UserChange
  BY <1>5, <1>6, <1>7 DEF SsoNext, SsoReads, SsoSignsIn, SsoLogin, SsoRefused, SsoReadsAgain, UserChange
<1> QED  BY <1>1, <1>2, <1>3, <1>4, <1>7 DEF AccountNext

-----------------------------------------------------------------------------
LEMMA SignOutKeeps ==
    ASSUME session \in [Sessions -> Ids \cup {Nobody}]
    PROVE  /\ \A i : SignOut(i) => session' \in [Sessions -> Ids \cup {Nobody}]
           /\ \A i, keep : SignOutOthers(i, keep) => session' \in [Sessions -> Ids \cup {Nobody}]
           /\ \A i \in Ids \cup {Nobody}, s \in Sessions : StartSession(s, i) => session' \in [Sessions -> Ids \cup {Nobody}]
BY DEF SignOut, SignOutOthers, StartSession

LEMMA TokenKeeps ==
    ASSUME SignInsOK, NEW t \in Tokens, NEW i \in Ids, NEW r \in Roles, InsertToken(t, i, r)
    PROVE  token' \in [Tokens -> [owner : Ids, role : Roles] \cup {NoToken}]
BY DEF SignInsOK, InsertToken

\* A step of a sign-in, which has read who it is before it makes an account.
LEMMA FlowKeeps ==
    ASSUME SignInsOK, NEW f \in Flows, NEW g \in FlowRecord, sso' = [sso EXCEPT ![f] = g],
           g.at = "read" => g.subject \in Subjects, UNCHANGED <<token, cli>>,
           session' \in [Sessions -> Ids \cup {Nobody}]
    PROVE  SignInsOK'
<1>1. sso' \in [Flows -> FlowRecord] /\ \A h \in Flows : sso'[h] = IF h = f THEN g ELSE sso[h]
  BY DEF SignInsOK
<1> QED  BY <1>1 DEF SignInsOK

LEMMA FlowRecords ==
    /\ NoFlow \in FlowRecord /\ NoFlow.at = "none"
    /\ \A i \in Ids, x \in Subjects \cup {""} :
          /\ [NoFlow EXCEPT !.at = "known", !.subject = x, !.id = i] \in FlowRecord
          /\ [NoFlow EXCEPT !.at = "known", !.subject = x, !.id = i].at = "known"
    /\ \A g \in FlowRecord : \A at \in {"asked", "synced"} :
          \E h \in FlowRecord : h = [g EXCEPT !.at = at] /\ h.at = at
<1>1. \A i \in Ids, x \in Subjects \cup {""} :
         /\ [NoFlow EXCEPT !.at = "known", !.subject = x, !.id = i] \in FlowRecord
         /\ [NoFlow EXCEPT !.at = "known", !.subject = x, !.id = i].at = "known"
  BY DEF NoFlow, FlowRecord
<1>2. NoFlow \in FlowRecord /\ NoFlow.at = "none"
  BY DEF NoFlow, FlowRecord
<1>3. ASSUME NEW g \in FlowRecord, NEW at \in {"asked", "synced"}
      PROVE  \E h \in FlowRecord : h = [g EXCEPT !.at = at] /\ h.at = at
  <2>1. [g EXCEPT !.at = at] \in FlowRecord /\ [g EXCEPT !.at = at].at = at
    BY DEF FlowRecord
  <2> QED  BY <2>1
<1> QED  BY <1>1, <1>2, <1>3

LEMMA SsoKeeps == ASSUME AccountInv, SsoNext PROVE SignInsOK'
<1> USE DEF AccountInv
<1>1. SignInsOK /\ session \in [Sessions -> Ids \cup {Nobody}] /\ \A f \in Flows : sso[f] \in FlowRecord
  BY DEF SignInsOK
<1>2. ASSUME NEW f \in Flows, FlowEnds(f), UNCHANGED <<token, cli>>, session' \in [Sessions -> Ids \cup {Nobody}]
      PROVE  SignInsOK'
  BY <1>1, <1>2, FlowRecords, FlowKeeps DEF FlowEnds
<1>3. ASSUME NEW f \in Flows, NEW i \in Ids, Known(f, i), UNCHANGED <<token, cli, session>>
      PROVE  SignInsOK'
  <2> DEFINE g == [NoFlow EXCEPT !.at = "known", !.subject = sso[f].subject, !.id = i]
  <2>1. g \in FlowRecord /\ g.at = "known" /\ sso' = [sso EXCEPT ![f] = g]
    <3>1. sso[f].subject \in Subjects \cup {""}
      BY <1>1 DEF FlowRecord
    <3> QED  BY <1>3, <3>1, FlowRecords DEF Known
  <2> HIDE DEF g
  <2> QED  BY <1>1, <1>3, <2>1, FlowKeeps
<1>4. ASSUME NEW f \in Flows, NEW at \in {"asked", "synced"}, Flow(f, at), UNCHANGED <<token, cli, session>>
      PROVE  SignInsOK'
  <2>1. PICK g \in FlowRecord : g = [sso[f] EXCEPT !.at = at] /\ g.at = at
    <3>1. sso[f] \in FlowRecord
      BY <1>1
    <3>2. \A h \in FlowRecord : \E g \in FlowRecord : g = [h EXCEPT !.at = at] /\ g.at = at
      BY FlowRecords, Zenon
    <3> QED  BY <3>1, <3>2
  <2>2. sso' = [sso EXCEPT ![f] = g]
    BY <1>4, <2>1 DEF Flow
  <2> QED  BY <1>1, <1>4, <2>1, <2>2, FlowKeeps
<1>5. ASSUME NEW f \in Flows, NEW x \in Subjects, NEW r \in Claims, SsoReads(f, x, r) PROVE SignInsOK'
  <2> DEFINE found == [at |-> "read", subject |-> x, claimed |-> r, id |-> Nobody]
  <2>1. UNCHANGED <<token, cli, session>>
    BY <1>5 DEF SsoReads
  <2>2. PICK g \in FlowRecord : sso' = [sso EXCEPT ![f] = g] /\ g.subject = x
    <3>1. found \in FlowRecord /\ found.subject = x
      BY DEF FlowRecord, Claims
    <3>2. CASE sso' = [sso EXCEPT ![f] = found]
      BY <3>1, <3>2
    <3>3. ASSUME NEW i \in BySubject(x), sso' = [sso EXCEPT ![f] = [found EXCEPT !.id = i, !.claimed = IF @ = user[i].role THEN NoRole ELSE @]]
          PROVE  \E g \in FlowRecord : sso' = [sso EXCEPT ![f] = g] /\ g.subject = x
      <4>1. i \in Ids /\ user[i] \in User
        BY UsersAre DEF BySubject
      <4>2. user[i].role \in Roles
        BY <4>1 DEF User
      <4>3. /\ [found EXCEPT !.id = i, !.claimed = IF @ = user[i].role THEN NoRole ELSE @] \in FlowRecord
            /\ [found EXCEPT !.id = i, !.claimed = IF @ = user[i].role THEN NoRole ELSE @].subject = x
        BY <4>1, <4>2 DEF FlowRecord, Claims
      <4> QED  BY <3>3, <4>3
    <3> QED  BY <1>5, <3>2, <3>3 DEF SsoReads
  <2> QED  BY <1>1, <2>1, <2>2, FlowKeeps
<1>6. ASSUME NEW f \in Flows, NEW n \in Names, NEW r \in Roles, SsoCreates(f, n, r) PROVE SignInsOK'
  <2> DEFINE u == SsoUser(n, sso[f].subject, r)
  <2>1. CASE Conflicts(u)
    BY <1>1, <1>2, <1>6, <2>1 DEF SsoCreates
  <2>2. CASE ~Conflicts(u)
    <3>1. InsertUser(u) /\ Known(f, NewId) /\ UNCHANGED <<token, cli, session>>
      BY <1>6, <2>2 DEF SsoCreates
    <3>2. NewId \in Ids
      BY <3>1, MaxUsersType DEF InsertUser, NewId, TableOK, Ids
    <3> HIDE DEF u
    <3> QED  BY <1>3, <3>1, <3>2
  <2> QED  BY <2>1, <2>2
<1>7. ASSUME NEW f \in Flows, SsoSyncs(f) PROVE SignInsOK'
  <2>1. sso[f].id \in Ids
    BY <1>1, <1>7 DEF SsoSyncs, FlowRecord
  <2> QED  BY <1>3, <1>4, <1>7, <2>1 DEF SsoSyncs
<1>8. ASSUME NEW f \in Flows, SsoReadsAgain(f) PROVE SignInsOK'
  <2>1. CASE Exists(sso[f].id)
    <3>1. sso[f].id \in Ids
      BY <1>1, <2>1 DEF Exists, FlowRecord
    <3> QED  BY <1>3, <1>8, <2>1, <3>1 DEF SsoReadsAgain
  <2>2. CASE ~Exists(sso[f].id)
    BY <1>1, <1>2, <1>8, <2>2 DEF SsoReadsAgain
  <2> QED  BY <2>1, <2>2
<1>9. ASSUME NEW f \in Flows, NEW s \in Sessions, SsoSignsIn(f, s) PROVE SignInsOK'
  <2>1. sso[f].id \in Ids \cup {Nobody}
    BY <1>1 DEF FlowRecord
  <2>2. session' \in [Sessions -> Ids \cup {Nobody}]
    BY <1>1, <1>9, <2>1, SignOutKeeps DEF SsoSignsIn
  <2> QED  BY <1>2, <1>9, <2>2 DEF SsoSignsIn
<1>10. ASSUME NEW f \in Flows, SsoLogin(f) \/ SsoRefused(f) PROVE SignInsOK'
  BY <1>1, <1>2, <1>4, <1>10 DEF SsoLogin, SsoRefused
<1> QED  BY <1>5, <1>6, <1>7, <1>8, <1>9, <1>10 DEF SsoNext

LEMMA SignInsKeep == ASSUME AccountInv, AccountNext PROVE SignInsOK'
<1> USE DEF AccountInv
<1>1. /\ session \in [Sessions -> Ids \cup {Nobody}]
      /\ token \in [Tokens -> [owner : Ids, role : Roles] \cup {NoToken}]
      /\ cli \in CliRecord \cup {NoCli}
      /\ handler.target \in Ids \cup {Nobody}
  BY DEF SignInsOK, HandlerOK, Handler
<1>2. ASSUME session' \in [Sessions -> Ids \cup {Nobody}],
             token' \in [Tokens -> [owner : Ids, role : Roles] \cup {NoToken}],
             cli' \in CliRecord \cup {NoCli}, UNCHANGED sso
      PROVE  SignInsOK'
  BY <1>2 DEF SignInsOK
<1>3. ASSUME ProcessNext PROVE SignInsOK'
  <2>1. ASSUME Crash PROVE SignInsOK'
    <3>1. \A f \in Flows : sso'[f] = NoFlow
      BY <2>1 DEF Crash
    <3>2. sso' \in [Flows -> FlowRecord]
      BY <2>1, FlowRecords DEF Crash
    <3> QED  BY <1>1, <2>1, <3>1, <3>2, FlowRecords DEF Crash, SignInsOK
  <2>2. ASSUME Start \/ SetupChecks \/ SetupRemoves \/ \E n \in Names : SetupCreates(n) PROVE SignInsOK'
    BY <1>1, <1>2, <2>2 DEF Start, SetupChecks, SetupRemoves, SetupCreates
  <2>3. ASSUME NEW s \in Sessions, SetupFinishes(s) PROVE SignInsOK'
    BY <1>1, <1>2, <2>3, SignOutKeeps DEF SetupFinishes
  <2> QED  BY <1>3, <2>1, <2>2, <2>3 DEF ProcessNext
<1>4. ASSUME SignInNext PROVE SignInsOK'
  <2>1. ASSUME NEW i \in Ids, NEW s \in Sessions, Login(i, s) PROVE SignInsOK'
    BY <1>1, <1>2, <2>1, SignOutKeeps DEF Login
  <2>2. ASSUME NEW s \in Sessions, SessionEnds(s) PROVE SignInsOK'
    BY <1>1, <1>2, <2>2 DEF SessionEnds
  <2> QED  BY <1>4, <2>1, <2>2 DEF SignInNext
<1>5. ASSUME OwnNext PROVE SignInsOK'
  <2>1. ASSUME NEW s \in Sessions, ChangePassword(s) \/ EndOtherSessions(s) PROVE SignInsOK'
    <3>1. session[s] \in Ids
      BY <1>1, <2>1 DEF ChangePassword, EndOtherSessions, SignedIn
    <3> QED  BY <1>1, <1>2, <2>1, <3>1, SignOutKeeps DEF ChangePassword, NewPassword, EndOtherSessions
  <2>2. ASSUME NEW s \in Sessions, NEW t \in Tokens, NEW r \in Roles, CreateToken(s, t, r) PROVE SignInsOK'
    <3>1. session[s] \in Ids
      BY <1>1, <2>2 DEF CreateToken, SignedIn
    <3> QED  BY <1>1, <1>2, <2>2, <3>1, TokenKeeps DEF CreateToken
  <2>3. ASSUME NEW t \in Tokens, TokenEnds(t) PROVE SignInsOK'
    BY <1>1, <1>2, <2>3 DEF TokenEnds
  <2>4. ASSUME PasswordChanged PROVE SignInsOK'
    BY <1>1, <1>2, <2>4, SignOutKeeps DEF PasswordChanged
  <2> QED  BY <1>5, <2>1, <2>2, <2>3, <2>4 DEF OwnNext
<1>6. ASSUME AdminNext PROVE SignInsOK'
  <2>1. ASSUME RemoveUser PROVE SignInsOK'
    <3>1. handler.target \in Ids
      BY <2>1 DEF RemoveUser, HandlerOK, Users
    <3>2. session' \in [Sessions -> Ids \cup {Nobody}]
      BY <1>1, <2>1, <3>1, SignOutKeeps DEF RemoveUser, DeleteUser
    <3>3. token' \in [Tokens -> [owner : Ids, role : Roles] \cup {NoToken}]
      BY <1>1, <2>1 DEF RemoveUser, DeleteUser
    <3> QED  BY <1>1, <1>2, <2>1, <3>2, <3>3 DEF RemoveUser
  <2>2. ASSUME NEW a \in Ids, NEW i \in Ids, ResetPassword(a, i) \/ EndUserSessions(a, i) PROVE SignInsOK'
    BY <1>1, <1>2, <2>2, SignOutKeeps DEF ResetPassword, NewPassword, EndUserSessions
  <2>3. ASSUME UNCHANGED <<session, token, cli, sso>> PROVE SignInsOK'
    BY <1>1, <1>2, <2>3
  <2> QED  BY <1>6, <2>1, <2>2, <2>3 DEF AdminNext, AddUser, AdminAsks, UpdateUser
<1>7. ASSUME CliNext PROVE SignInsOK'
  <2>1. ASSUME NEW i \in Ids, NEW r \in Roles, CliReads(i, r) PROVE SignInsOK'
    <3>1. i \in Ids /\ user[i] \in User
      BY <2>1, UsersAre DEF CliReads, Users
    <3>2. [id |-> i, name |-> user[i].name, role |-> r] \in CliRecord
      BY <3>1 DEF User, CliRecord
    <3> QED  BY <1>1, <1>2, <2>1, <3>2 DEF CliReads
  <2>2. ASSUME NEW t \in Tokens, CliCreates(t) PROVE SignInsOK'
    <3>1. cli.id \in Ids /\ cli.role \in Roles
      BY <1>1, <2>2 DEF CliCreates, CliRecord
    <3> QED  BY <1>1, <1>2, <2>2, <3>1, TokenKeeps DEF CliCreates
  <2> QED  BY <1>7, <2>1, <2>2 DEF CliNext
<1> QED  BY <1>3, <1>4, <1>5, <1>6, <1>7, SsoKeeps DEF AccountNext

-----------------------------------------------------------------------------
LEMMA LookupsAreNumbers ==
    ASSUME TableOK, SignInsOK
    PROVE  lastId \in Nat /\ (\A f \in Flows : sso[f].id \in Nat) /\ cli.id \in Nat
<1>1. lastId \in Nat
  BY MaxUsersType DEF TableOK
<1>2. Ids \cup {Nobody} \subseteq Nat
  BY AccountFacts DEF Nobody
<1>3. \A f \in Flows : sso[f].id \in Ids \cup {Nobody}
  BY DEF SignInsOK, FlowRecord
<1>4. cli.id \in Ids \cup {Nobody}
  <2>1. NoCli.id = Nobody /\ \A c \in CliRecord : c.id \in Ids
    BY DEF NoCli, CliRecord
  <2> QED  BY <2>1 DEF SignInsOK
<1> QED  BY <1>1, <1>2, <1>3, <1>4

\* A sign-in goes on with the account it is at, with none, or with one looked up now.
LEMMA FlowLooksUp ==
    ASSUME AccountInv, UserChange, NEW f \in Flows, NEW g, sso' = [sso EXCEPT ![f] = g], UNCHANGED cli,
           \/ g.id = Nobody
           \/ g.id = sso[f].id /\ g.subject = sso[f].subject
           \/ g.id \in Users' /\ g.id <= lastId' /\ user'[g.id].subject = g.subject
    PROVE  LookupsOK'
<1> USE DEF AccountInv
<1>1. /\ lastId' \in Nat /\ lastId' >= lastId
      /\ \A i \in Users' : i <= lastId =>
            i \in Users /\ user'[i].name = user[i].name /\ user'[i].subject = user[i].subject
  BY RowsKept
<1>2. \A h \in Flows : sso'[h] = IF h = f THEN g ELSE sso[h]
  BY DEF SignInsOK
<1>3. (\A h \in Flows : sso[h].id \in Nat) /\ cli.id \in Nat
  BY LookupsAreNumbers
<1>4. Nobody \notin Users' /\ Nobody = 0
  BY AccountFacts DEF Users, Nobody
<1>8. lastId \in Nat
  BY LookupsAreNumbers
<1>5. /\ \A h \in Flows : sso[h].id <= lastId /\ (sso[h].id \in Users => user[sso[h].id].subject = sso[h].subject)
      /\ cli.id <= lastId /\ (cli.id \in Users => user[cli.id].name = cli.name)
  BY DEF LookupsOK
<1>6. ASSUME NEW h \in Flows
      PROVE  sso'[h].id <= lastId' /\ (sso'[h].id \in Users' => user'[sso'[h].id].subject = sso'[h].subject)
  <2>1. CASE h = f
    BY <1>1, <1>2, <1>3, <1>4, <1>5, <1>8, <2>1
  <2>2. CASE h # f
    BY <1>1, <1>2, <1>3, <1>5, <1>8, <2>2
  <2> QED  BY <2>1, <2>2
<1>7. cli'.id <= lastId' /\ (cli'.id \in Users' => user'[cli'.id].name = cli'.name)
  BY <1>1, <1>3, <1>5, <1>8
<1> QED  BY <1>6, <1>7 DEF LookupsOK

LEMMA LookupsSame == ASSUME AccountInv, UserChange, UNCHANGED <<sso, cli>> PROVE LookupsOK'
<1> USE DEF AccountInv
<1>1. /\ lastId' \in Nat /\ lastId' >= lastId
      /\ \A i \in Users' : i <= lastId =>
            i \in Users /\ user'[i].name = user[i].name /\ user'[i].subject = user[i].subject
  BY RowsKept
<1>2. (\A h \in Flows : sso[h].id \in Nat) /\ cli.id \in Nat
  BY LookupsAreNumbers
<1>3. lastId \in Nat
  BY LookupsAreNumbers
<1> QED  BY <1>1, <1>2, <1>3 DEF LookupsOK

LEMMA SsoLooksUp == ASSUME AccountInv, SsoNext PROVE LookupsOK'
<1> USE DEF AccountInv
<1>1. UserChange /\ TableOK' /\ lastId \in Nat
  BY ChangesKnown, ChangesKeep, LookupsAreNumbers DEF AccountNext
<1>2. ASSUME NEW f \in Flows, FlowEnds(f), UNCHANGED cli PROVE LookupsOK'
  <2>1. NoFlow.id = Nobody
    BY DEF NoFlow
  <2> QED  BY <1>1, <1>2, <2>1, FlowLooksUp DEF FlowEnds
<1>3. ASSUME NEW f \in Flows, NEW i, Known(f, i), UNCHANGED cli,
             i = sso[f].id \/ (i \in Users' /\ i <= lastId' /\ user'[i].subject = sso[f].subject)
      PROVE  LookupsOK'
  <2> DEFINE g == [NoFlow EXCEPT !.at = "known", !.subject = sso[f].subject, !.id = i]
  <2>1. g.id = i /\ g.subject = sso[f].subject /\ sso' = [sso EXCEPT ![f] = g]
    BY <1>3 DEF Known, NoFlow
  <2> HIDE DEF g
  <2> QED  BY <1>1, <1>3, <2>1, FlowLooksUp
<1>4. ASSUME NEW f \in Flows, NEW at, Flow(f, at), UNCHANGED cli PROVE LookupsOK'
  <2> DEFINE g == [sso[f] EXCEPT !.at = at]
  <2>1. g.id = sso[f].id /\ g.subject = sso[f].subject /\ sso' = [sso EXCEPT ![f] = g]
    BY <1>4 DEF Flow, SignInsOK, FlowRecord
  <2> HIDE DEF g
  <2> QED  BY <1>1, <1>4, <2>1, FlowLooksUp
<1>5. ASSUME NEW f \in Flows, NEW x \in Subjects, NEW r \in Claims, SsoReads(f, x, r) PROVE LookupsOK'
  <2> DEFINE found == [at |-> "read", subject |-> x, claimed |-> r, id |-> Nobody]
  <2>1. UNCHANGED <<cli, user, lastId>>
    BY <1>5 DEF SsoReads
  <2>2. CASE sso' = [sso EXCEPT ![f] = found]
    <3>1. found.id = Nobody
      OBVIOUS
    <3> HIDE DEF found
    <3> QED  BY <1>1, <2>1, <2>2, <3>1, FlowLooksUp
  <2>3. ASSUME NEW i \in BySubject(x), sso' = [sso EXCEPT ![f] = [found EXCEPT !.id = i, !.claimed = IF @ = user[i].role THEN NoRole ELSE @]]
        PROVE  LookupsOK'
    <3> DEFINE g == [found EXCEPT !.id = i, !.claimed = IF @ = user[i].role THEN NoRole ELSE @]
    <3>1. g.id = i /\ g.subject = x
      OBVIOUS
    <3>2. i \in Users' /\ i <= lastId' /\ user'[i].subject = x
      BY <2>1 DEF BySubject, TableOK, Users, Exists
    <3>3. sso' = [sso EXCEPT ![f] = g]
      BY <2>3
    <3> HIDE DEF g, found
    <3> QED  BY <1>1, <2>1, <3>1, <3>2, <3>3, FlowLooksUp
  <2> QED  BY <1>5, <2>2, <2>3 DEF SsoReads
<1>6. ASSUME NEW f \in Flows, NEW n \in Names, NEW r \in Roles, SsoCreates(f, n, r) PROVE LookupsOK'
  <2> DEFINE u == SsoUser(n, sso[f].subject, r)
  <2>1. CASE Conflicts(u)
    BY <1>2, <1>6, <2>1 DEF SsoCreates
  <2>2. CASE ~Conflicts(u)
    <3>1. InsertUser(u) /\ Known(f, NewId) /\ UNCHANGED cli
      BY <1>6, <2>2 DEF SsoCreates
    <3>2. u \in User /\ u.password = FALSE /\ u.subject = sso[f].subject
      BY <1>6, NewUsers DEF SsoCreates, SignInsOK, SsoUser
    <3> HIDE DEF u
    <3>3. Inserted(u)
      BY <2>2, <3>1, <3>2 DEF Inserted
    <3>4. NewId \in Users' /\ user'[NewId] = u /\ lastId' = NewId
      BY <3>2, <3>3, InsertedKeeps
    <3>5. NewId \in Nat
      BY <1>1 DEF NewId
    <3> QED  BY <1>3, <3>1, <3>2, <3>4, <3>5
  <2> QED  BY <2>1, <2>2
<1>7. ASSUME NEW f \in Flows, SsoSyncs(f) \/ SsoReadsAgain(f) PROVE LookupsOK'
  BY <1>2, <1>3, <1>4, <1>7 DEF SsoSyncs, SsoReadsAgain
<1>8. ASSUME NEW f \in Flows, NEW s \in Sessions, SsoSignsIn(f, s) PROVE LookupsOK'
  BY <1>2, <1>8 DEF SsoSignsIn
<1>9. ASSUME NEW f \in Flows, SsoLogin(f) \/ SsoRefused(f) PROVE LookupsOK'
  BY <1>2, <1>4, <1>9 DEF SsoLogin, SsoRefused
<1> QED  BY <1>5, <1>6, <1>7, <1>8, <1>9 DEF SsoNext

LEMMA LookupsKeep == ASSUME AccountInv, AccountNext PROVE LookupsOK'
<1> USE DEF AccountInv
<1>1. UserChange
  BY ChangesKnown
<1>2. lastId \in Nat /\ lastId' \in Nat /\ Nobody = 0 /\ Nobody \notin Users'
  <2>1. lastId \in Nat /\ lastId' \in Nat
    BY <1>1, RowsKept, LookupsAreNumbers
  <2>2. Nobody = 0 /\ Nobody \notin Users'
    BY AccountFacts DEF Nobody, Users
  <2> QED  BY <2>1, <2>2
<1>3. ASSUME Crash PROVE LookupsOK'
  <2>1. /\ \A f \in Flows : sso'[f].id = Nobody
        /\ UNCHANGED <<user, lastId, cli>>
    BY <1>3 DEF Crash, NoFlow
  <2> QED  BY <1>2, <2>1 DEF LookupsOK, Users, Exists
<1>4. ASSUME CliNext PROVE LookupsOK'
  <2>1. UNCHANGED <<user, lastId, sso>>
    BY <1>4 DEF CliNext, CliReads, CliCreates
  <2>2. cli'.id <= lastId' /\ (cli'.id \in Users' => user'[cli'.id].name = cli'.name)
    <3>1. ASSUME NEW i \in Ids, NEW r \in Roles, CliReads(i, r)
          PROVE  cli'.id <= lastId' /\ user'[cli'.id].name = cli'.name
      BY <3>1, <2>1 DEF CliReads, TableOK, Users
    <3>2. ASSUME NEW t \in Tokens, CliCreates(t) PROVE cli'.id = Nobody
      BY <3>2 DEF CliCreates, NoCli
    <3> QED  BY <1>2, <1>4, <3>1, <3>2 DEF CliNext
  <2> QED  BY <2>1, <2>2 DEF LookupsOK, Users, Exists
<1>5. ASSUME UNCHANGED <<sso, cli>> PROVE LookupsOK'
  BY <1>1, <1>5, LookupsSame
<1>6. ASSUME ProcessNext \/ SignInNext PROVE LookupsOK'
  BY <1>3, <1>5, <1>6 DEF ProcessNext, Start, SetupChecks, SetupCreates, SetupRemoves, SetupFinishes, SignInNext, Login,
                          SessionEnds
<1>7. ASSUME OwnNext \/ AdminNext PROVE LookupsOK'
  BY <1>5, <1>7 DEF OwnNext, ChangePassword, NewPassword, PasswordChanged, EndOtherSessions, CreateToken, TokenEnds,
                    AdminNext, AddUser, AdminAsks, UpdateUser, RemoveUser, ResetPassword, EndUserSessions
<1> QED  BY <1>4, <1>6, <1>7, SsoLooksUp DEF AccountNext

-----------------------------------------------------------------------------
LEMMA HandlerKeeps == ASSUME AccountInv, AccountNext PROVE HandlerOK'
<1> USE DEF AccountInv
<1>1. /\ TableOK' /\ (Admins # {} => Admins' # {}) /\ (handler' # Idle => Users \subseteq Users')
      /\ Admins' # {} => Users' # {}
  BY ChangesKnown, ChangesKeep DEF Admins
<1>2. /\ {up, file, setUp} \subseteq BOOLEAN /\ handler \in Handler
      /\ up = FALSE => handler = Idle
      /\ handler.at = "admin" => handler.target \in Users
      /\ setUp = TRUE => Admins # {} /\ handler.at # "setup"
      /\ setUp = TRUE /\ up = TRUE /\ handler.at # "created" => file = FALSE
  BY DEF HandlerOK
<1>3. /\ Idle \in Handler /\ Idle.at = "idle" /\ Idle.target = Nobody
      /\ [Idle EXCEPT !.at = "setup"] \in Handler /\ [Idle EXCEPT !.at = "setup"].at = "setup"
  BY DEF Idle, Handler
<1>4. Admins # {} => Users # {}
  BY DEF Admins
<1>5. CASE UNCHANGED <<serverVars, setUp>>
  <2>1. handler' # Idle => Users \subseteq Users'
    BY <1>1
  <2>2. handler'.at = "admin" => handler' # Idle
    BY <1>3
  <2> QED  BY <1>1, <1>2, <1>5, <2>1, <2>2 DEF HandlerOK, serverVars
<1>6. ASSUME Crash PROVE HandlerOK'
  <2>1. handler' = Idle /\ up' = FALSE /\ UNCHANGED <<file, setUp>>
    BY <1>6 DEF Crash
  <2> QED  BY <1>1, <1>2, <1>3, <2>1 DEF HandlerOK
<1>7. ASSUME Start PROVE HandlerOK'
  <2>1. up' = TRUE /\ up = FALSE /\ UNCHANGED <<handler, user, setUp>>
    <3>1. up' = TRUE /\ UNCHANGED <<handler, user, setUp>>
      BY <1>7 DEF Start
    <3>2. up = FALSE
      BY <1>2, <1>7, Zenon DEF Start
    <3> QED  BY <3>1, <3>2
  <2>2. file' \in BOOLEAN /\ (Users # {} => file' = FALSE)
    BY <1>7, Zenon DEF Start
  <2>3. handler = Idle
    BY <1>2, <2>1
  <2> QED  BY <1>1, <1>2, <1>3, <1>4, <2>1, <2>2, <2>3 DEF HandlerOK
<1>8. ASSUME SetupChecks PROVE HandlerOK'
  <2>1. up = TRUE
    BY <1>2, <1>8, Zenon DEF SetupChecks, OnLoop
  <2>2. handler' = [Idle EXCEPT !.at = "setup"] /\ UNCHANGED <<up, file, setUp>> /\ Users = {}
    BY <1>8 DEF SetupChecks
  <2>3. setUp # TRUE
    BY <1>2, <1>4, <2>2
  <2> QED  BY <1>1, <1>2, <1>3, <2>1, <2>2, <2>3 DEF HandlerOK
<1>9. ASSUME NEW n \in Names, SetupCreates(n) PROVE HandlerOK'
  <2>1. up = TRUE /\ UNCHANGED <<up, file>> /\ handler.at = "setup" /\ setUp # TRUE
    BY <1>2, <1>3, <1>9 DEF SetupCreates
  <2>2. CASE Users = {}
    <3>1. PICK u \in User : Inserted(u) /\ u.role = Admin
      BY <1>9, <2>2, NewUsers, AccountFacts DEF SetupCreates, Inserted, Conflicts, Taken
    <3>2. NewId \in Users' /\ user'[NewId] = u
      BY <3>1, InsertedKeeps
    <3>3. Admins' # {} /\ NewId \in Ids
      BY <3>1, <3>2 DEF Admins, Users
    <3>4. handler' \in Handler /\ handler'.at = "created" /\ setUp' = TRUE
      BY <1>9, <2>2, <3>3 DEF SetupCreates, Idle, Handler
    <3> QED  BY <1>2, <2>1, <3>3, <3>4 DEF HandlerOK
  <2>3. CASE Users # {}
    <3>1. handler' = Idle /\ UNCHANGED setUp
      BY <1>9, <2>3 DEF SetupCreates
    <3> QED  BY <1>1, <1>2, <1>3, <2>1, <3>1 DEF HandlerOK
  <2> QED  BY <2>2, <2>3
<1>10. ASSUME NEW s \in Sessions, SetupFinishes(s) PROVE HandlerOK'
  <2>1. handler' = Idle /\ UNCHANGED <<file, up, setUp>> /\ handler.at = "removed"
    BY <1>10 DEF SetupFinishes
  <2> QED  BY <1>1, <1>2, <1>3, <2>1 DEF HandlerOK
<1>17. ASSUME SetupRemoves PROVE HandlerOK'
  <2>1. /\ handler' \in Handler /\ handler'.at = "removed" /\ handler.at = "created"
        /\ file' = FALSE /\ UNCHANGED <<up, setUp>>
    BY <1>2, <1>17 DEF SetupRemoves, Handler
  <2>2. up # FALSE
    BY <1>2, <1>3, <2>1
  <2> QED  BY <1>1, <1>2, <1>3, <2>1, <2>2 DEF HandlerOK
<1>18. ASSUME NEW i \in Ids, NEW keep \in SUBSET Sessions, OnLoop, NewPassword(i, keep) PROVE HandlerOK'
  <2>1. handler' \in Handler /\ handler'.at = "password" /\ handler = Idle /\ UNCHANGED <<up, file, setUp>>
    BY <1>18 DEF NewPassword, OnLoop, Handler
  <2>2. up # FALSE
    BY <1>18, Zenon DEF OnLoop
  <2> QED  BY <1>1, <1>2, <1>3, <2>1, <2>2 DEF HandlerOK
<1>11. ASSUME NEW a \in Ids, NEW i \in Ids, AdminAsks(a, i) PROVE HandlerOK'
  <2>1. handler' \in Handler /\ handler'.at = "admin" /\ handler'.target = i /\ handler = Idle /\ UNCHANGED <<up, file, setUp>>
    BY <1>11 DEF AdminAsks, Target, OnLoop, Idle, Handler
  <2>2. i \in Users'
    BY <1>1, <1>3, <1>11, <2>1 DEF AdminAsks, Target, Users
  <2>3. up # FALSE
    BY <1>11, Zenon DEF AdminAsks, Target, OnLoop
  <2> QED  BY <1>1, <1>2, <1>3, <2>1, <2>2, <2>3 DEF HandlerOK
<1>12. ASSUME handler.at \in {"admin", "password"}, handler' = Idle, UNCHANGED <<up, file, setUp>> PROVE HandlerOK'
  BY <1>1, <1>2, <1>3, <1>12 DEF HandlerOK
<1>13. ASSUME ProcessNext PROVE HandlerOK'
  BY <1>6, <1>7, <1>8, <1>9, <1>10, <1>13, <1>17 DEF ProcessNext
<1>14. ASSUME AdminNext PROVE HandlerOK'
  BY <1>5, <1>11, <1>12, <1>14, <1>18 DEF AdminNext, AddUser, UpdateUser, RemoveUser, ResetPassword, Target, EndUserSessions
<1>15. ASSUME SignInNext \/ OwnNext \/ CliNext PROVE HandlerOK'
  <2>1. ASSUME NEW s \in Sessions, ChangePassword(s) PROVE HandlerOK'
    <3>1. session[s] \in Ids /\ {s} \in SUBSET Sessions
      BY <2>1 DEF ChangePassword, SignedIn, SignInsOK
    <3> QED  BY <1>18, <2>1, <3>1 DEF ChangePassword, SignedIn
  <2>2. ASSUME PasswordChanged PROVE HandlerOK'
    BY <1>12, <2>2 DEF PasswordChanged
  <2> QED  BY <1>5, <1>15, <2>1, <2>2 DEF SignInNext, Login, SessionEnds, OwnNext, EndOtherSessions, CreateToken,
                     TokenEnds, CliNext, CliReads, CliCreates
<1>16. ASSUME SsoNext PROVE HandlerOK'
  BY <1>5, <1>16 DEF SsoNext, SsoReads, SsoCreates, SsoSignsIn, SsoLogin, SsoRefused, SsoSyncs, SsoReadsAgain
<1> QED  BY <1>13, <1>14, <1>15, <1>16 DEF AccountNext

LEMMA AccountStart == AccountInit => AccountInv
<1> SUFFICES ASSUME AccountInit PROVE AccountInv
  OBVIOUS
<1>1. Users = {}
  BY DEF AccountInit, Users, Exists
<1>2. TableOK
  BY <1>1, MaxUsersType DEF AccountInit, TableOK
<1>3. SignInsOK
  BY FlowRecords DEF AccountInit, SignInsOK
<1>4. HandlerOK
  BY DEF AccountInit, HandlerOK, Handler, Idle
<1>5. LookupsOK
  <2>1. (\A f \in Flows : sso[f].id = 0) /\ cli.id = 0 /\ lastId = 0
    BY DEF AccountInit, NoFlow, NoCli, Nobody
  <2> QED  BY <1>1, <2>1 DEF LookupsOK
<1> QED  BY <1>2, <1>3, <1>4, <1>5 DEF AccountInv

LEMMA AccountStep == AccountInv /\ [AccountNext]_accountVars => AccountInv'
<1>1. AccountInv /\ AccountNext => AccountInv'
  BY ChangesKnown, ChangesKeep, SignInsKeep, LookupsKeep, HandlerKeeps DEF AccountInv
<1>2. AccountInv /\ UNCHANGED accountVars => AccountInv'
  BY DEF accountVars, serverVars, AccountInv, TableOK, SignInsOK, LookupsOK, HandlerOK, Users, Exists, Admins
<1> QED  BY <1>1, <1>2

LEMMA AccountsAlways == AccountSpec => []AccountInv
BY AccountStart, AccountStep, PTL DEF AccountSpec

\* Once there is an administrator there is one ever after, for any number of users,
\* requests and sign-ins at once (set_user_role and delete_user of db.py: _is_last_admin).
THEOREM AdminStays == AccountSpec => AdminRemains
<1>1. AccountInv /\ [AccountNext]_accountVars => [Admins # {} => Admins' # {}]_accountVars
  BY ChangesKnown, ChangesKeep DEF AccountInv
<1> QED  BY <1>1, AccountsAlways, PTL DEF AccountSpec, AdminRemains

\* A sign-in that looked an account up goes on in the same one or in none, and so does
\* `habeny token`, for any identities and sign-ins at once, whatever is deleted and made in
\* between: an id is never given twice. No account of the identity provider gets a password.
THEOREM IdentitiesStayApart == AccountSpec => []IdentitiesApart
<1>1. AccountInv => IdentitiesApart
  <2> SUFFICES ASSUME AccountInv PROVE IdentitiesApart
    OBVIOUS
  <2>1. /\ \A f \in Flows : Exists(sso[f].id) => sso[f].id \in Users
        /\ Exists(cli.id) => cli.id \in Users
    <3>1. (\A f \in Flows : sso[f].id \in Ids \cup {Nobody}) /\ cli.id \in Ids \cup {Nobody}
      <4>1. NoCli.id = Nobody /\ \A c \in CliRecord : c.id \in Ids
        BY DEF NoCli, CliRecord
      <4> QED  BY <4>1 DEF AccountInv, SignInsOK, FlowRecord
    <3> QED  BY <3>1 DEF Users, Exists
  <2>2. \A i \in Users : user[i].subject # Local => ~user[i].password
    BY Zenon DEF AccountInv, TableOK
  <2> QED  BY <2>1, <2>2 DEF IdentitiesApart, AccountInv, LookupsOK
<1> QED  BY <1>1, AccountsAlways, PTL

\* First-run setup makes the first account or none, and its token is gone before anybody
\* else is served, also when the process ends between the two (create_first_user,
\* setup_token.py).
THEOREM SetupIsOnce == AccountSpec => SetupOnce
<1>1. AccountInv /\ [AccountNext]_accountVars => [setUp' # setUp => Users = {}]_accountVars
  <2> SUFFICES ASSUME AccountNext, setUp' # setUp PROVE Users = {}
    OBVIOUS
  <2> QED
    BY DEF AccountNext, ProcessNext, Crash, Start, SetupChecks, SetupCreates, SetupRemoves, SetupFinishes, SignInNext,
           Login, SessionEnds, OwnNext, ChangePassword, NewPassword, PasswordChanged, EndOtherSessions, CreateToken, TokenEnds, AdminNext, AddUser,
           AdminAsks, UpdateUser, RemoveUser, ResetPassword, EndUserSessions, CliNext, CliReads, CliCreates,
           SsoNext, SsoReads, SsoCreates, SsoSignsIn, SsoLogin, SsoRefused, SsoSyncs, SsoReadsAgain
<1>2. AccountInv' => [OnLoop' /\ setUp' => ~file']_accountVars
  <2> SUFFICES ASSUME AccountInv', OnLoop', setUp' PROVE ~file'
    OBVIOUS
  <2>1. up' = TRUE /\ setUp' = TRUE
    BY Zenon DEF AccountInv, HandlerOK, OnLoop
  <2>2. handler'.at # "created"
    BY DEF OnLoop, Idle
  <2>3. file' = FALSE
    BY <2>1, <2>2 DEF AccountInv, HandlerOK
  <2> QED  BY <2>3
<1> QED  BY <1>1, <1>2, AccountsAlways, PTL DEF AccountSpec, SetupOnce

-----------------------------------------------------------------------------
(* Other hosts. *)

\* What a request is to write without another probe was accepted.
EditsWorked == \A e \in Editors :
    LET w == editor[e] IN
    w.at \in {"insert", "update"} => <<w.row.token, w.row.fingerprint>> \in accepted[w.id]

HostInv == HostTypeOK /\ StoredWorked /\ EditsWorked

\* A row or a request that is there is a whole one.
LEMMA WholeRows == ASSUME HostTypeOK
    PROVE  /\ \A h \in Registered : host[h] \in HostRow
           /\ \A e \in Editors : editor[e].at # "idle" => editor[e] \in Edit
BY DEF HostTypeOK, Registered, NotEditing

LEMMA ProbeKeeps == ASSUME HostInv, NEW e \in Editors, Probe(e) PROVE HostInv'
<1> DEFINE w == editor[e]
<1>1. w \in Edit /\ UNCHANGED <<host, former, remote>>
  BY WholeRows DEF Probe, HostInv
<1>2. CASE /\ accepted' = [accepted EXCEPT ![w.id] = @ \cup {<<w.row.token, w.row.fingerprint>>}]
           /\ editor' = [editor EXCEPT ![e].at = IF w.isNew THEN "insert" ELSE "update"]
  <2> DEFINE v == [w EXCEPT !.at = IF w.isNew THEN "insert" ELSE "update"]
  <2>1. v \in Edit /\ editor' = [editor EXCEPT ![e] = v] /\ v.id = w.id /\ v.row = w.row
    BY <1>1, <1>2 DEF Edit
  <2>2. HostTypeOK'
    BY <1>1, <1>2, <2>1 DEF HostInv, HostTypeOK, Edit, HostRow
  <2>3. StoredWorked' /\ EditsWorked'
    BY <1>1, <1>2, <2>1, WholeRows DEF HostInv, HostTypeOK, Edit, HostRow, StoredWorked, EditsWorked, Registered, NotEditing
  <2> QED  BY <2>2, <2>3 DEF HostInv
<1>3. CASE editor' = [editor EXCEPT ![e] = NotEditing] /\ UNCHANGED accepted
  BY <1>1, <1>3 DEF HostInv, HostTypeOK, StoredWorked, EditsWorked, Registered, NotEditing
<1> QED  BY <1>2, <1>3 DEF Probe

LEMMA AddKeeps == ASSUME HostInv, NEW e \in Editors, NEW h \in Hosts, NEW stored \in HostRow, AddBegins(e, h, stored)
    PROVE HostInv'
BY DEF AddBegins, HostInv, HostTypeOK, StoredWorked, EditsWorked, Registered, Edit

\* A row that is written again as it is was accepted, a new one is probed first.
LEMMA EditKeeps ==
    ASSUME HostInv, NEW e \in Editors, NEW h \in Hosts,
           NEW t \in Secrets \cup {NotGiven}, NEW c \in Certificates \cup {NotGiven}, EditBegins(e, h, t, c)
    PROVE  HostInv'
<1> DEFINE stored == [token |-> IF t = NotGiven THEN host[h].token ELSE t,
                   fingerprint |-> IF c = NotGiven THEN host[h].fingerprint ELSE c]
           v == [at |-> IF MustProbe(t, c) THEN "probe" ELSE "update", id |-> h, row |-> stored, isNew |-> FALSE]
<1>1. host[h] \in HostRow /\ editor' = [editor EXCEPT ![e] = v] /\ UNCHANGED <<host, former, remote, accepted>>
  BY WholeRows DEF EditBegins, HostInv
<1>2. v \in Edit
  BY <1>1 DEF Edit, HostRow
<1>3. v.at = "update" => <<stored.token, stored.fingerprint>> \in accepted[h]
  BY DEF MustProbe, EditBegins, HostInv, StoredWorked
<1> QED  BY <1>1, <1>2, <1>3 DEF HostInv, HostTypeOK, StoredWorked, EditsWorked, Registered

LEMMA SaveKeeps == ASSUME HostInv, NEW e \in Editors, Save(e) PROVE HostInv'
<1>1. editor[e] \in Edit /\ UNCHANGED <<former, remote, accepted>>
  BY WholeRows DEF Save, HostInv
<1>2. host' \in {host, [host EXCEPT ![editor[e].id] = editor[e].row]} /\ editor' = [editor EXCEPT ![e] = NotEditing]
  BY DEF Save
<1>3. HostTypeOK'
  BY <1>1, <1>2 DEF HostInv, HostTypeOK, Edit
<1>4. EditsWorked'
  BY <1>1, <1>2 DEF HostInv, HostTypeOK, EditsWorked, NotEditing
<1>5. StoredWorked'
  BY <1>1, <1>2 DEF HostInv, HostTypeOK, StoredWorked, EditsWorked, Registered, Edit, Save
<1> QED  BY <1>3, <1>4, <1>5 DEF HostInv

LEMMA HostStep == HostInv /\ [HostNext]_hostVars => HostInv'
<1> SUFFICES ASSUME HostInv, [HostNext]_hostVars PROVE HostInv'
  OBVIOUS
<1>1. ASSUME NEW h \in Hosts, Delete(h) PROVE HostInv'
  BY <1>1 DEF Delete, HostInv, HostTypeOK, StoredWorked, EditsWorked, Registered
<1>2. ASSUME NEW h \in Hosts, RemoteChanges(h) PROVE HostInv'
  <2>1. remote' \in [Hosts -> [shows : Certificates, takes : SUBSET Secrets]]
    <3>1. ASSUME NEW c \in Certificates, remote' = [remote EXCEPT ![h].shows = c]
          PROVE remote' \in [Hosts -> [shows : Certificates, takes : SUBSET Secrets]]
      BY <3>1 DEF HostInv, HostTypeOK
    <3>2. ASSUME NEW s \in SUBSET Secrets, remote' = [remote EXCEPT ![h].takes = s]
          PROVE remote' \in [Hosts -> [shows : Certificates, takes : SUBSET Secrets]]
      BY <3>2 DEF HostInv, HostTypeOK
    <3> QED  BY <1>2, <3>1, <3>2 DEF RemoteChanges
  <2> QED  BY <1>2, <2>1 DEF RemoteChanges, HostInv, HostTypeOK, StoredWorked, EditsWorked, Registered
<1>3. CASE ConsoleRestarts
  BY <1>3 DEF ConsoleRestarts, HostInv, HostTypeOK, StoredWorked, EditsWorked, Registered, NotEditing
<1>4. CASE UNCHANGED hostVars
  BY <1>4 DEF hostVars, HostInv, HostTypeOK, StoredWorked, EditsWorked, Registered
<1> QED  BY <1>1, <1>2, <1>3, <1>4, ProbeKeeps, AddKeeps, EditKeeps, SaveKeeps DEF HostNext

LEMMA HostStart == HostInit => HostInv
BY DEF HostInit, HostInv, HostTypeOK, StoredWorked, EditsWorked, Registered, NotEditing

\* A host's token and fingerprint that are stored together were accepted together, for any
\* number of administrators who edit it at once.
THEOREM StoredPairsWorked == HostSpec => []StoredWorked
<1>1. HostInv => StoredWorked
  BY DEF HostInv
<1> QED  BY <1>1, HostStart, HostStep, PTL DEF HostSpec

-----------------------------------------------------------------------------
(* The helper. *)

\* A client waits on the connection of its last call.
OnLastCall == \A c \in Clients :
    connection[c] = IF client[c] = "waiting" THEN calls[c] ELSE 0

\* A thread has its call's connection, and is the only one for that call.
OneThreadEach ==
    /\ \A t \in threads : t.on = t.call.n /\ t.call.n <= calls[t.call.by]
    /\ \A t, u \in threads : t.call = u.call => t = u

\* What a thread is about to say is so.
ThreadsAreTrue == \A t \in threads :
    /\ t.says = "ok" => t.call \in performed
    /\ t.says \in {"nothing", "refused"} => t.call \notin performed

\* An answer is to the call its client waits for, which no thread works on any more.
AnswersAreTrue == \A a \in answers :
    LET call == LastCall(a.to) IN
    /\ client[a.to] = "waiting" /\ a.on = calls[a.to]
    /\ \A t \in threads : t.call # call
    /\ a.says = "ok" => call \in performed
    /\ a.says = "refused" => call \notin performed

\* A call that ended as not carried out never will be.
RefusedForGood == \A c \in Clients :
    client[c] \in {"refused", "unavailable"} => \A t \in threads : t.call # LastCall(c)

HelperInv ==
    /\ HelperTypeOK
    /\ OnLastCall /\ OneThreadEach /\ ThreadsAreTrue /\ AnswersAreTrue
    /\ RefusedForGood /\ OutcomeIsTrue
    /\ \A p \in performed : p.n <= calls[p.by]

USE MaxCallsType

LEMMA HelperTypeStep == ASSUME HelperTypeOK, [HelperNext]_helperVars PROVE HelperTypeOK'
<1> USE DEF HelperTypeOK, Outcomes, Call, Thread, Answer
<1>1. ASSUME NEW c \in Clients, Request(c) PROVE HelperTypeOK'
  <2>1. calls[c] + 1 \in 1 .. MaxCalls
    BY <1>1 DEF Request
  <2>2. [call |-> [by |-> c, n |-> calls[c] + 1], on |-> Connects(c), says |-> "nothing"] \in Thread
    BY <2>1 DEF Connects
  <2> QED  BY <1>1, <2>1, <2>2 DEF Request, Connects
<1>2. ASSUME NEW c \in Clients, NEW o \in Outcomes, CallEnds(c, o) PROVE HelperTypeOK'
  BY <1>2 DEF CallEnds
<1>3. ASSUME NEW t \in threads, NEW s \in {"ok", "refused", "error"}, ThreadSays(t, s) PROVE threads' \subseteq Thread
  BY <1>3 DEF ThreadSays
<1>4. ASSUME NEW t \in threads, RefuseCall(t) \/ Perform(t) \/ OperationFails(t) PROVE HelperTypeOK'
  BY <1>3, <1>4 DEF RefuseCall, Perform, OperationFails
<1>5. ASSUME NEW t \in threads, Send(t) PROVE HelperTypeOK'
  BY <1>5 DEF Send
<1>6. ASSUME HelperDies \/ HelperStarts PROVE HelperTypeOK'
  BY <1>6 DEF HelperDies, HelperStarts
<1>7. ASSUME UNCHANGED helperVars PROVE HelperTypeOK'
  BY <1>7 DEF helperVars
<1>8. ASSUME NEW c \in Clients, GivesUp(c) \/ ReadsEnd(c) \/ (\E a \in answers : a.to = c /\ ReadAnswer(a))
      PROVE HelperTypeOK'
  BY <1>2, <1>8 DEF GivesUp, ReadsEnd, ReadAnswer
<1> QED  BY <1>1, <1>8, <1>4, <1>5, <1>6, <1>7 DEF HelperNext, ClientNext, ThreadNext

\* A call of a client's own that nobody has heard of
LEMMA RequestKeeps == ASSUME HelperInv, HelperTypeOK', NEW c \in Clients, Request(c) PROVE HelperInv'
<1> DEFINE new == [by |-> c, n |-> calls[c] + 1]
<1> USE DEF HelperInv, HelperTypeOK, Call, Thread, Answer, LastCall
<1>1. /\ new \notin performed
      /\ \A t \in threads : t.call # new
      /\ calls' = [calls EXCEPT ![c] = @ + 1]
      /\ performed' = performed /\ answers' = answers
      /\ \A a \in answers : a.to # c
  <2>1. \A a \in answers : a.to # c
    BY DEF Request, AnswersAreTrue
  <2>2. \A t \in threads : t.call # new
    BY DEF OneThreadEach
  <2> QED  BY <2>1, <2>2 DEF Request
<1>2. \/ threads' = threads /\ client' = [client EXCEPT ![c] = "unavailable"] /\ connection' = connection
      \/ /\ threads' = threads \cup {[call |-> new, on |-> calls[c] + 1, says |-> "nothing"]}
         /\ client' = [client EXCEPT ![c] = "waiting"]
         /\ connection' = [connection EXCEPT ![c] = calls[c] + 1]
  BY DEF Request, Connects
<1>3. OnLastCall'
  BY <1>1, <1>2 DEF OnLastCall, Request
<1>4. OneThreadEach'
  BY <1>1, <1>2 DEF OneThreadEach
<1>5. ThreadsAreTrue'
  BY <1>1, <1>2 DEF ThreadsAreTrue
<1>6. AnswersAreTrue'
  BY <1>1, <1>2 DEF AnswersAreTrue
<1>7. RefusedForGood' /\ OutcomeIsTrue'
  BY <1>1, <1>2 DEF RefusedForGood, OutcomeIsTrue, OneThreadEach
<1>8. \A p \in performed' : p.n <= calls'[p.by]
  BY <1>1
<1> QED  BY <1>3, <1>4, <1>5, <1>6, <1>7, <1>8

\* The end of a call, as the helper answered or as none that tells anything
LEMMA CallEndKeeps ==
    ASSUME HelperInv, HelperTypeOK', NEW c \in Clients, NEW o, CallEnds(c, o),
           \/ o \in {"timeout", "lost"}
           \/ \E a \in answers : a.to = c /\ a.says = o
    PROVE  HelperInv'
<1> USE DEF HelperInv, HelperTypeOK, Call, Thread, Answer, LastCall, CallEnds
<1>1. OnLastCall' /\ OneThreadEach' /\ ThreadsAreTrue'
  BY DEF OnLastCall, OneThreadEach, ThreadsAreTrue
<1>2. AnswersAreTrue'
  BY DEF AnswersAreTrue
<1>3. RefusedForGood' /\ OutcomeIsTrue'
  BY DEF RefusedForGood, OutcomeIsTrue, AnswersAreTrue
<1> QED  BY <1>1, <1>2, <1>3

\* A thread that has done its work, with or without an effect
LEMMA WorkKeeps ==
    ASSUME HelperInv, HelperTypeOK', NEW t \in threads, NEW s \in {"ok", "refused", "error"}, t.says = "nothing",
           ThreadSays(t, s), UNCHANGED <<helper, calls, client, connection, answers>>,
           performed' \in {performed, performed \cup {t.call}},
           s = "ok" => t.call \in performed',
           s = "refused" => performed' = performed
    PROVE  HelperInv'
<1> DEFINE v == [t EXCEPT !.says = s]
<1> USE DEF HelperInv, HelperTypeOK, Call, Thread, Answer, LastCall
<1>1. v.call = t.call /\ v.on = t.on /\ v.says = s /\ threads' = (threads \ {t}) \cup {v}
  BY DEF ThreadSays
<1>2. OnLastCall'
  BY DEF OnLastCall
<1>3. OneThreadEach'
  BY <1>1 DEF OneThreadEach
<1>4. ThreadsAreTrue'
  BY <1>1 DEF ThreadsAreTrue, OneThreadEach
<1>5. AnswersAreTrue'
  BY <1>1 DEF AnswersAreTrue
<1>6. RefusedForGood' /\ OutcomeIsTrue'
  BY <1>1 DEF RefusedForGood, OutcomeIsTrue
<1>7. \A p \in performed' : p.n <= calls'[p.by]
  BY DEF OneThreadEach
<1> QED  BY <1>2, <1>3, <1>4, <1>5, <1>6, <1>7

LEMMA SendKeeps == ASSUME HelperInv, HelperTypeOK', NEW t \in threads, Send(t) PROVE HelperInv'
<1> DEFINE new == [to |-> t.call.by, on |-> t.on, says |-> t.says]
<1> USE DEF HelperInv, HelperTypeOK, Call, Thread, Answer, LastCall
<1>1. threads' = threads \ {t} /\ UNCHANGED <<calls, client, connection, performed>>
  BY DEF Send
<1>2. ASSUME answers' # answers
      PROVE  /\ answers' = answers \cup {new}
             /\ client[t.call.by] = "waiting" /\ calls[t.call.by] = t.on
             /\ LastCall(t.call.by) = t.call
  BY <1>2 DEF Send, OnLastCall, OneThreadEach
<1>3. OnLastCall' /\ OneThreadEach' /\ ThreadsAreTrue' /\ RefusedForGood' /\ OutcomeIsTrue'
  BY <1>1 DEF OnLastCall, OneThreadEach, ThreadsAreTrue, RefusedForGood, OutcomeIsTrue
<1>4. AnswersAreTrue'
  <2>1. ASSUME NEW a \in answers PROVE AnswersAreTrue!(a)'
    BY <1>1 DEF AnswersAreTrue
  <2>2. CASE answers' # answers
    BY <1>1, <1>2, <2>2 DEF AnswersAreTrue, OneThreadEach, ThreadsAreTrue, Send
  <2> QED  BY <1>1, <2>2 DEF AnswersAreTrue
<1> QED  BY <1>1, <1>3, <1>4

LEMMA HelperEndKeeps == ASSUME HelperInv, HelperTypeOK', HelperDies \/ HelperStarts PROVE HelperInv'
<1> USE DEF HelperInv, HelperTypeOK, Call, Thread, Answer, LastCall
<1>1. CASE HelperDies
  <2>1. PICK begun \in SUBSET {t.call : t \in {u \in threads : u.says = "nothing"}} : performed' = performed \cup begun
    BY <1>1 DEF HelperDies
  <2>2. \A p \in begun : \E t \in threads : t.call = p
    BY <2>1
  <2>3. threads' = {} /\ UNCHANGED <<calls, client, connection, answers>>
    BY <1>1 DEF HelperDies
  <2>4. OnLastCall' /\ OneThreadEach' /\ ThreadsAreTrue' /\ RefusedForGood'
    BY <2>3 DEF OnLastCall, OneThreadEach, ThreadsAreTrue, RefusedForGood
  <2>5. AnswersAreTrue'
    BY <2>1, <2>2, <2>3 DEF AnswersAreTrue
  <2>6. OutcomeIsTrue'
    BY <2>1, <2>2, <2>3 DEF OutcomeIsTrue, RefusedForGood
  <2>7. \A p \in performed' : p.n <= calls'[p.by]
    BY <2>1, <2>2, <2>3 DEF OneThreadEach
  <2> QED  BY <2>4, <2>5, <2>6, <2>7
<1>2. CASE HelperStarts
  BY <1>2 DEF HelperStarts, OnLastCall, OneThreadEach, ThreadsAreTrue, AnswersAreTrue, RefusedForGood, OutcomeIsTrue
<1> QED  BY <1>1, <1>2

LEMMA HelperStep == HelperInv /\ [HelperNext]_helperVars => HelperInv'
<1> SUFFICES ASSUME HelperInv, [HelperNext]_helperVars PROVE HelperInv'
  OBVIOUS
<1>1. HelperTypeOK'
  BY HelperTypeStep DEF HelperInv
<1>2. ASSUME NEW c \in Clients, Request(c) PROVE HelperInv'
  BY <1>1, <1>2, RequestKeeps
<1>3. ASSUME NEW c \in Clients, GivesUp(c) \/ ReadsEnd(c) PROVE HelperInv'
  BY <1>1, <1>3, CallEndKeeps DEF GivesUp, ReadsEnd
<1>4. ASSUME NEW a \in answers, ReadAnswer(a) PROVE HelperInv'
  BY <1>1, <1>4, CallEndKeeps DEF ReadAnswer, HelperInv, HelperTypeOK, Answer
<1>5. ASSUME NEW t \in threads, RefuseCall(t) \/ Perform(t) \/ OperationFails(t) PROVE HelperInv'
  BY <1>1, <1>5, WorkKeeps DEF RefuseCall, Perform, OperationFails
<1>6. ASSUME NEW t \in threads, Send(t) PROVE HelperInv'
  BY <1>1, <1>6, SendKeeps
<1>7. CASE HelperDies \/ HelperStarts
  BY <1>1, <1>7, HelperEndKeeps
<1>8. CASE UNCHANGED helperVars
  BY <1>1, <1>8 DEF helperVars, HelperInv, OnLastCall, OneThreadEach, ThreadsAreTrue, AnswersAreTrue,
     RefusedForGood, OutcomeIsTrue, LastCall
<1> QED  BY <1>2, <1>3, <1>4, <1>5, <1>6, <1>7, <1>8 DEF HelperNext, ClientNext, ThreadNext

LEMMA HelperStart == HelperInit => HelperInv
BY DEF HelperInit, HelperInv, HelperTypeOK, Outcomes, OnLastCall, OneThreadEach, ThreadsAreTrue, AnswersAreTrue,
   RefusedForGood, OutcomeIsTrue

\* Of a call that was answered the client knows what became of it, for any number of
\* clients and calls: the helper never answers one call's connection with another's result.
THEOREM OutcomesAreTrue == HelperSpec => []OutcomeIsTrue
<1>1. HelperInv => OutcomeIsTrue
  BY DEF HelperInv
<1> QED  BY <1>1, HelperStart, HelperStep, PTL DEF HelperSpec

-----------------------------------------------------------------------------
(* The second factor. *)

\* The secret and the set of recovery codes are of those made, and not the same number.
MadeBefore ==
    /\ factor.secret <= made /\ factor.set <= made
    /\ factor.on => factor.secret # 0 /\ factor.set # 0 /\ factor.secret # factor.set
    /\ \A x \in used : x[1] <= made

\* Codes that could still be accepted were not.
StillUnused ==
    /\ ~factor.on => \A x \in used : x[1] # factor.secret
    /\ factor.on => \A x \in used :
          /\ x[1] = factor.secret => x[2] <= factor.last
          /\ x[1] = factor.set => x[2] \notin factor.left

\* With the factor on, only those still to be signed out are there by password alone.
PasswordsPending == factor.on => \A b \in Browsers : browser[b] = "password" => b \in pending

FactorInv == FactorTypeOK /\ MadeBefore /\ StillUnused /\ CodesOnce /\ PasswordsPending

USE StepsAreNumbers, MaxMadeType, AttemptsPositive

\* Codes are accepted that were not: the app's, and recovery codes.
LEMMA AppCodeFresh ==
    ASSUME FactorInv, NEW c \in now - 1 .. now + 1, factor.on, Matches(c, factor.last)
    PROVE  <<factor.secret, c>> \in ((1 .. MaxMade) \X Int) \ used
BY DEF FactorInv, FactorTypeOK, Factor, MadeBefore, StillUnused, Matches

LEMMA RecoveryCodeFresh ==
    ASSUME FactorInv, NEW k \in factor.left, factor.on
    PROVE  <<factor.set, k>> \in ((1 .. MaxMade) \X Int) \ used
BY DEF FactorInv, FactorTypeOK, Factor, MadeBefore, StillUnused, Numbers

LEMMA OneMoreCode ==
    ASSUME FactorInv, NEW x, x \notin used, Accepts(x)
    PROVE  used' = used \cup {x} /\ again' = FALSE
BY Zenon DEF FactorInv, FactorTypeOK, CodesOnce, Accepts

\* What a checked code leaves behind
LEMMA CheckedKeeps ==
    ASSUME FactorInv, SecondFactorChecked, UNCHANGED <<now, made>>,
           challenge' \in [Challenges -> NoChallenge .. MaxAttempts - 1],
           pending' = pending,
           browser' = browser \/ (\E b \in Browsers : browser' = [browser EXCEPT ![b] = "code"])
    PROVE  FactorInv'
<1> USE DEF FactorInv
<1>1. browser' \in [Browsers -> SessionKind] /\ (factor'.on = factor.on => PasswordsPending')
  BY DEF FactorTypeOK, SessionKind, PasswordsPending
<1>2. ASSUME NEW c \in now - 1 .. now + 1, AppCode(c) PROVE FactorInv'
  <2>1. <<factor.secret, c>> \in ((1 .. MaxMade) \X Int) \ used
    BY <1>2, AppCodeFresh DEF AppCode
  <2>2. factor.on /\ factor' = [factor EXCEPT !.last = c] /\ used' = used \cup {<<factor.secret, c>>} /\ again' = FALSE
    BY <1>2, <2>1, OneMoreCode DEF AppCode
  <2>3. FactorTypeOK'
    <3>1. factor' \in Factor
      BY <2>2 DEF FactorTypeOK, Factor
    <3> QED  BY <1>1, <2>1, <2>2, <3>1 DEF FactorTypeOK
  <2>4. MadeBefore'
    BY <2>1, <2>2 DEF FactorTypeOK, Factor, MadeBefore
  <2>5. StillUnused'
    BY <1>2, <2>2 DEF FactorTypeOK, Factor, MadeBefore, StillUnused, AppCode, Matches
  <2>6. factor'.on = factor.on
    BY <2>2 DEF FactorTypeOK, Factor
  <2> QED  BY <1>1, <2>2, <2>3, <2>4, <2>5, <2>6 DEF CodesOnce
<1>3. ASSUME NEW k \in Numbers, RecoveryCode(k) PROVE FactorInv'
  <2>1. <<factor.set, k>> \in ((1 .. MaxMade) \X Int) \ used
    BY <1>3, RecoveryCodeFresh DEF RecoveryCode
  <2>2. factor.on /\ factor' = [factor EXCEPT !.left = @ \ {k}] /\ used' = used \cup {<<factor.set, k>>} /\ again' = FALSE
    BY <1>3, <2>1, OneMoreCode DEF RecoveryCode
  <2>3. FactorTypeOK'
    <3>1. factor' \in Factor
      BY <2>2 DEF FactorTypeOK, Factor
    <3> QED  BY <1>1, <2>1, <2>2, <3>1 DEF FactorTypeOK
  <2>4. MadeBefore'
    BY <2>1, <2>2 DEF FactorTypeOK, Factor, MadeBefore
  <2>5. StillUnused'
    BY <2>2 DEF FactorTypeOK, Factor, MadeBefore, StillUnused
  <2>6. factor'.on = factor.on
    BY <2>2 DEF FactorTypeOK, Factor
  <2> QED  BY <1>1, <2>2, <2>3, <2>4, <2>5, <2>6 DEF CodesOnce
<1> QED  BY <1>2, <1>3 DEF SecondFactorChecked

LEMMA SigningInKeeps == ASSUME FactorInv, SigningIn PROVE FactorInv'
<1> USE DEF FactorInv, FactorTypeOK, Factor, MadeBefore, StillUnused, CodesOnce, PasswordsPending, history, SessionKind
<1>1. ASSUME NEW b \in Browsers, PasswordAlone(b) \/ SignsOut(b) PROVE FactorInv'
  BY <1>1 DEF PasswordAlone, SignsOut
<1>2. ASSUME NEW h \in Challenges, PasswordFirst(h) \/ WrongCode(h) \/ ChallengeExpires(h) PROVE FactorInv'
  <2>1. challenge' \in [Challenges -> NoChallenge .. MaxAttempts - 1]
    BY <1>2 DEF PasswordFirst, WrongCode, ChallengeExpires, NoChallenge
  <2> QED  BY <1>2, <2>1 DEF PasswordFirst, WrongCode, ChallengeExpires
<1>3. ASSUME NEW h \in Challenges, NEW b \in Browsers, CodeSecond(h, b) PROVE FactorInv'
  <2>1. challenge' \in [Challenges -> NoChallenge .. MaxAttempts - 1]
    BY <1>3 DEF CodeSecond, NoChallenge
  <2> QED  BY <1>3, <2>1, CheckedKeeps DEF CodeSecond
<1> QED  BY <1>1, <1>2, <1>3 DEF SigningIn

\* A new secret, or a new set of codes, is none of those used before.
LEMMA ChangingKeeps == ASSUME FactorInv, Changing PROVE FactorInv'
<1> USE DEF FactorInv, CodesOnce
<1>1. ASSUME NEW b \in Browsers, StartTwoFactor(b) PROVE FactorInv'
  BY <1>1 DEF StartTwoFactor, signedIn, history, FactorTypeOK, Factor, MadeBefore, StillUnused, PasswordsPending
<1>2. ASSUME NEW b \in Browsers, RegenerateRecoveryCodes(b) PROVE FactorInv'
  <2>1. /\ factor.on /\ made < MaxMade /\ made' = made + 1
        /\ factor' = [factor EXCEPT !.set = made + 1, !.left = Numbers]
        /\ UNCHANGED <<now, challenge, browser, pending, used, again>>
    BY <1>2 DEF RegenerateRecoveryCodes, signedIn, history
  <2>2. FactorTypeOK'
    <3>1. made + 1 \in 0 .. MaxMade /\ Numbers \in SUBSET Numbers
      BY <2>1 DEF FactorTypeOK
    <3>2. factor' \in Factor
      BY <2>1, <3>1 DEF FactorTypeOK, Factor
    <3> QED  BY <2>1, <3>1, <3>2 DEF FactorTypeOK
  <2>3. MadeBefore'
    BY <2>1 DEF FactorTypeOK, Factor, MadeBefore
  <2>4. StillUnused'
    BY <2>1 DEF FactorTypeOK, Factor, MadeBefore, StillUnused
  <2> QED  BY <2>1, <2>2, <2>3, <2>4 DEF FactorTypeOK, PasswordsPending
<1>3. ASSUME NEW b \in Browsers, DisableTwoFactor(b) PROVE FactorInv'
  <2>1. ASSUME NEW x \in ((1 .. MaxMade) \X Int) \ used, x[1] <= made, Accepts(x) PROVE FactorInv'
    <3>1. used' = used \cup {x} /\ again' = FALSE /\ factor' = Off /\ UNCHANGED <<now, made, challenge, browser, pending>>
      BY <1>3, <2>1, OneMoreCode DEF DisableTwoFactor, signedIn
    <3>2. Off \in Factor /\ ~Off.on /\ Off.secret = 0 /\ Off.set = 0
      BY DEF Off, Factor, NoStep
    <3>3. FactorTypeOK'
      BY <3>1, <3>2 DEF FactorTypeOK
    <3>4. MadeBefore' /\ StillUnused' /\ PasswordsPending'
      BY <2>1, <3>1, <3>2 DEF FactorTypeOK, Factor, MadeBefore, StillUnused, PasswordsPending
    <3> QED  BY <3>1, <3>3, <3>4
  <2>2. factor.secret <= made /\ factor.set <= made
    BY DEF MadeBefore
  <2>3. ASSUME NEW c \in now - 1 .. now + 1, Matches(c, factor.last), Accepts(<<factor.secret, c>>) PROVE FactorInv'
    BY <1>3, <2>1, <2>2, <2>3, AppCodeFresh DEF DisableTwoFactor
  <2>4. ASSUME NEW k \in factor.left, Accepts(<<factor.set, k>>) PROVE FactorInv'
    BY <1>3, <2>1, <2>2, <2>4, RecoveryCodeFresh DEF DisableTwoFactor
  <2> QED  BY <1>3, <2>3, <2>4 DEF DisableTwoFactor
<1>4. CASE ResetUserTwoFactor
  BY <1>4 DEF ResetUserTwoFactor, history, FactorTypeOK, Factor, MadeBefore, StillUnused, PasswordsPending, Off, NoStep
<1>5. ASSUME NEW b \in Browsers, NEW c \in now - 1 .. now + 1, EnableTwoFactor(b, c) PROVE FactorInv'
  <2>1. /\ ~factor.on /\ factor.secret # 0 /\ made < MaxMade /\ made' = made + 1
        /\ factor' = Enabled(c) /\ UNCHANGED <<now, challenge>>
        /\ Accepts(<<factor.secret, c>>)
        /\ browser' = [browser EXCEPT ![b] = "code"] /\ pending' = Browsers \ {b}
    BY <1>5 DEF EnableTwoFactor
  <2>2. <<factor.secret, c>> \in ((1 .. MaxMade) \X Int) \ used
    BY <2>1 DEF FactorTypeOK, Factor, MadeBefore, StillUnused
  <2>3. used' = used \cup {<<factor.secret, c>>} /\ again' = FALSE
    BY <2>1, <2>2, OneMoreCode
  <2>4. FactorTypeOK'
    <3>1. made + 1 \in 0 .. MaxMade /\ c \in Int /\ Numbers \in SUBSET Numbers
      BY <2>1 DEF FactorTypeOK
    <3>2. factor' \in Factor
      BY <2>1, <3>1 DEF FactorTypeOK, Factor, Enabled
    <3>3. browser' \in [Browsers -> SessionKind] /\ pending' \subseteq Browsers
      BY <2>1 DEF FactorTypeOK, SessionKind
    <3> QED  BY <2>1, <2>2, <2>3, <3>1, <3>2, <3>3 DEF FactorTypeOK
  <2>5. MadeBefore'
    BY <2>1, <2>2, <2>3 DEF FactorTypeOK, Factor, MadeBefore, Enabled
  <2>6. StillUnused'
    BY <2>1, <2>2, <2>3 DEF FactorTypeOK, Factor, MadeBefore, StillUnused, Enabled
  <2>7. PasswordsPending'
    BY <2>1 DEF FactorTypeOK, SessionKind, PasswordsPending
  <2> QED  BY <2>3, <2>4, <2>5, <2>6, <2>7
<1> QED  BY <1>1, <1>2, <1>3, <1>4, <1>5 DEF Changing

\* Browsers that are signed out, or that a handler was cut off from signing out.
LEMMA CutOffKeeps ==
    ASSUME FactorInv, CutOff
    PROVE  /\ browser' \in [Browsers -> SessionKind] /\ pending' \subseteq Browsers
           /\ factor.on => \A b \in Browsers : browser'[b] # "password"
BY DEF FactorInv, FactorTypeOK, SessionKind, PasswordsPending, CutOff

LEMMA BrowsersEndKeeps == ASSUME FactorInv, SignedOut \/ SignOutFails PROVE FactorInv'
<1>1. UNCHANGED <<now, factor, made, challenge, used, again>>
  BY DEF SignedOut, SignOutFails, history
<1>2. browser' \in [Browsers -> SessionKind] /\ pending' \subseteq Browsers /\ PasswordsPending'
  <2>1. CASE SignedOut
    BY <1>1, <2>1 DEF SignedOut, FactorInv, FactorTypeOK, SessionKind, PasswordsPending
  <2>2. CASE SignOutFails
    BY <1>1, <2>2, CutOffKeeps DEF SignOutFails, PasswordsPending
  <2> QED  BY <2>1, <2>2
<1> QED  BY <1>1, <1>2 DEF FactorInv, FactorTypeOK, MadeBefore, StillUnused, CodesOnce

LEMMA RestartKeeps == ASSUME FactorInv, Restart PROVE FactorInv'
<1>1. /\ challenge' \in [Challenges -> NoChallenge .. MaxAttempts - 1]
      /\ UNCHANGED <<now, made>>
  BY DEF Restart, NoChallenge
<1>2. CASE UNCHANGED <<factor, history>>
  BY <1>1, <1>2, CutOffKeeps DEF Restart, history, FactorInv, FactorTypeOK, MadeBefore, StillUnused, CodesOnce,
     PasswordsPending
<1>3. CASE LoopFree /\ SecondFactorChecked
  <2>1. pending' = pending /\ browser' = browser
    BY <1>3 DEF Restart, CutOff, LoopFree, FactorInv, FactorTypeOK
  <2> QED  BY <1>1, <1>3, <2>1, CheckedKeeps
<1> QED  BY <1>2, <1>3 DEF Restart

LEMMA FactorStep == FactorInv /\ [FactorNext]_factorVars => FactorInv'
<1> SUFFICES ASSUME FactorInv, [FactorNext]_factorVars PROVE FactorInv'
  OBVIOUS
<1>1. CASE ClockMoves \/ UNCHANGED factorVars
  BY <1>1 DEF ClockMoves, factorVars, signedIn, history, FactorInv, FactorTypeOK, Factor, MadeBefore, StillUnused,
     CodesOnce, PasswordsPending
<1> QED  BY <1>1, SigningInKeeps, ChangingKeeps, BrowsersEndKeeps, RestartKeeps DEF FactorNext

LEMMA FactorStart == FactorInit => FactorInv
<1> SUFFICES ASSUME FactorInit PROVE FactorInv
  OBVIOUS
<1>1. Off \in Factor /\ ~Off.on
  BY DEF Off, Factor, NoStep
<1>2. FactorTypeOK
  <2>1. challenge \in [Challenges -> NoChallenge .. MaxAttempts - 1]
    BY DEF FactorInit, NoChallenge
  <2>2. again \in BOOLEAN
    BY DEF FactorInit
  <2> QED  BY <1>1, <2>1, <2>2 DEF FactorInit, FactorTypeOK, SessionKind
<1>3. MadeBefore /\ StillUnused /\ PasswordsPending
  BY DEF FactorInit, MadeBefore, StillUnused, PasswordsPending, Off
<1> QED  BY <1>2, <1>3 DEF FactorInit, FactorInv, CodesOnce

LEMMA FactorAlways == FactorSpec => []FactorInv
BY FactorStart, FactorStep, PTL DEF FactorSpec

\* No code is accepted twice, for any number of enrolments, sign-ins and settings of the clock.
THEOREM NoCodeTwice == FactorSpec => []CodesOnce
<1>1. FactorInv => CodesOnce
  BY DEF FactorInv
<1> QED  BY <1>1, FactorAlways, PTL

\* While the factor is on, every browser that is signed in gave a code, unless the request that
\* turned it on was cut off before it had signed the others out; for any restarts and failures.
THEOREM SignedInWithCode == FactorSpec => []OnlyWithCode
<1>1. FactorInv => OnlyWithCode
  BY DEF FactorInv, PasswordsPending, OnlyWithCode, LoopFree
<1> QED  BY <1>1, FactorAlways, PTL

-----------------------------------------------------------------------------
(* The parts together. *)

\* Each variable changes with its own part, so a step of the whole is a step of each component,
\* or leaves it alone.
LEMMA StepOfEach ==
    ASSUME [AdministrationNext]_<<part, vars, accountVars, factorVars, registryVars, upgradeVars, hostVars, helperVars>>
    PROVE  /\ [Next]_vars /\ [AccountNext]_accountVars /\ [FactorNext]_factorVars
           /\ [RegistryNext]_registryVars /\ [UpgradeNext]_upgradeVars
           /\ [HostNext]_hostVars /\ [HelperNext]_helperVars
<1>1. RowsNext \/ LimitsNext \/ TeamsNext => RegistryNext
    BY FirstIsRequest DEF RowsNext, LimitsNext, TeamsNext, RegistryNext
<1>2. QED
    BY <1>1 DEF AdministrationNext

\* What is proved of a component holds of it among the others.
THEOREM AdministrationImplementsEach ==
    AdministrationSpec => /\ Spec /\ AccountSpec /\ FactorSpec /\ RegistrySpec
                          /\ UpgradeSpec /\ HostSpec /\ HelperSpec
<1>1. AdministrationInit => /\ Init /\ AccountInit /\ FactorInit /\ RegistryInit
                            /\ UpgradeInit /\ HostInit /\ HelperInit
    BY DEF AdministrationInit
<1>2. QED
    BY <1>1, StepOfEach, PTL DEF AdministrationSpec, Spec, AccountSpec, FactorSpec, RegistrySpec,
                                 UpgradeSpec, HostSpec, HelperSpec

\* Every state of the administrators' parts has the types its variables are meant to have.
THEOREM AdministrationTypes == AdministrationSpec => []AdministrationTypeOK
<1>1. AccountInv => AccountTypeOK
    BY DEF AccountInv, TableOK, SignInsOK, HandlerOK, AccountTypeOK
<1>2. FactorInv => FactorTypeOK
    BY DEF FactorInv
<1>3. UpgradeInv => UpgradeTypeOK
    BY DEF UpgradeInv
<1>4. HostInv => HostTypeOK
    BY DEF HostInv
<1>5. HelperInv => HelperTypeOK
    BY DEF HelperInv
<1>6. HostSpec => []HostInv
    BY HostStart, HostStep, PTL DEF HostSpec
<1>7. HelperSpec => []HelperInv
    BY HelperStart, HelperStep, PTL DEF HelperSpec
<1>8. UpgradeSpec => []UpgradeInv
    BY UpgradeStart, UpgradeStep, PTL DEF UpgradeSpec
<1>9. Spec => []TypeOK
    BY TypeCorrect
<1>10. TypeOK /\ AccountTypeOK /\ FactorTypeOK /\ RegistryTypeOK /\ UpgradeTypeOK /\ HostTypeOK /\ HelperTypeOK
          => AdministrationTypeOK
    BY DEF AdministrationTypeOK
<1>11. QED
    BY <1>1, <1>2, <1>3, <1>4, <1>5, <1>6, <1>7, <1>8, <1>9, <1>10, AdministrationImplementsEach,
       AccountsAlways, FactorAlways, RegistryAlways, RegistryTyped, PTL

=============================================================================
