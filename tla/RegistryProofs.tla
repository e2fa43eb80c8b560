---------------------------- MODULE RegistryProofs ----------------------------
(***************************************************************************)
(* The database, for any names, owners, teams, groups, requests, releases  *)
(* and processes: nobody is over a limit unless excused, a name keeps its  *)
(* number, and the schema of a database is always one that its version     *)
(* stands for.                                                             *)
(***************************************************************************)
EXTENDS Registry, Upgrades, FiniteSetTheorems, TLAPS

-----------------------------------------------------------------------------
(* Limits. *)

\* What the limits depend on has its type.
LimitsTyped ==
    /\ exists \subseteq Agents
    /\ owner \in [Agents -> OwnerRecord]
    /\ team \in [Owners -> Teams \cup {None}]
    /\ limit \in [Owners \cup Teams -> Nat]
    /\ request \in [Requests -> DeployRequest]
    /\ \A r \in Requests : request[r].at # "none" => request[r].user \in Owners

\* Whom a container counts for, and the containers that do or will.
OwnersOf(n) == {owner[n].user, owner[n].team} \ {None}
UsersOf(r) == {request[r].user, request[r].team} \ {None}
Running == {r \in Requests : request[r].at = "running"}
Listed == {r \in Requests : request[r].at = "listed"}
Coming == UNION {request[r].names : r \in Running}
Due(p) == {n \in exists \cup Coming : p \in OwnersOf(n)}
Unexcused == (Owners \cup Teams) \ excused

DueIsAllowed == \A p \in Unexcused : Cardinality(Due(p)) <= limit[p]

\* A name listed as existing that is gone counts for nobody who is not excused.
ListedIsThere ==
    \A r \in Listed : \A n \in request[r].names \cap request[r].seen :
        n \in exists \/ OwnersOf(n) \subseteq excused

\* Whoever a listed request counts for has nothing that it did not see.
AllIsSeen == \A r \in Listed : \A p \in UsersOf(r) \ excused : Due(p) \subseteq request[r].seen

\* What a running request will make is its user's.
ComingIsTheirs ==
    \A r \in Running : \A n \in request[r].names :
        n \in exists \/ OwnersOf(n) \subseteq excused \cup UsersOf(r)

LimitsInv == LimitsTyped /\ DueIsAllowed /\ ListedIsThere /\ AllIsSeen /\ ComingIsTheirs

limitsVars == <<exists, owner, team, limit, request, excused>>

LEMMA OwnersNamed ==
    ASSUME LimitsTyped, NEW n \in Agents
    PROVE  OwnersOf(n) \subseteq Owners \cup Teams
BY DEF LimitsTyped, OwnersOf, OwnerRecord

LEMMA UsersNamed ==
    ASSUME LimitsTyped, NEW r \in Requests
    PROVE  UsersOf(r) \subseteq Owners \cup Teams
BY DEF LimitsTyped, UsersOf, DeployRequest

LEMMA ComingNamed ==
    ASSUME LimitsTyped
    PROVE  /\ Coming \subseteq Agents
           /\ \A p : Due(p) \subseteq Agents
BY DEF LimitsTyped, Due, Coming, Running, DeployRequest

LEMMA FewerDue ==
    ASSUME NEW S, NEW T \in SUBSET Agents, S \subseteq T
    PROVE  /\ Cardinality(S) \in Nat /\ Cardinality(T) \in Nat
           /\ Cardinality(S) <= Cardinality(T)
<1>1. IsFiniteSet(T)
    BY FS_Subset, AgentsAreFinite
<1>2. IsFiniteSet(S) /\ Cardinality(S) <= Cardinality(T)
    BY <1>1, FS_Subset
<1>3. QED
    BY <1>1, <1>2, FS_CardinalityType

LEMMA LimitsAtFirst == RegistryInit => LimitsInv
<1> SUFFICES ASSUME RegistryInit PROVE LimitsInv
    OBVIOUS
<1>1. NoRequest \in DeployRequest
    BY DEF NoRequest, DeployRequest
<1>2. LimitsTyped
    BY <1>1, LimitsAreNumbers DEF RegistryInit, LimitsTyped, Unowned, OwnerRecord, NoRequest
<1>3. Running = {} /\ Listed = {}
    BY DEF RegistryInit, Running, Listed, NoRequest
<1>4. \A p : Due(p) = {}
    BY <1>3 DEF Due, Coming, RegistryInit
<1>5. \A p \in Unexcused : limit[p] \in Nat
    BY <1>2 DEF LimitsTyped, Unexcused
<1>6. DueIsAllowed
    BY <1>4, <1>5, FS_EmptySet DEF DueIsAllowed
<1>7. QED
    BY <1>2, <1>3, <1>6 DEF LimitsInv, ListedIsThere, AllIsSeen, ComingIsTheirs

LEMMA LimitsStutter == LimitsInv /\ UNCHANGED limitsVars => LimitsInv'
BY DEF LimitsInv, limitsVars, LimitsTyped, DueIsAllowed, ListedIsThere, AllIsSeen, ComingIsTheirs,
       Unexcused, Due, Coming, Running, Listed, OwnersOf, UsersOf

\* A step after which nobody not excused has more due, and no limit is lower.
LEMMA StillAllowed ==
    ASSUME LimitsInv, LimitsTyped', excused \subseteq excused',
           \A p \in Unexcused' : Due(p)' \subseteq Due(p) /\ limit[p] <= limit'[p]
    PROVE  DueIsAllowed'
<1> SUFFICES ASSUME NEW p \in Unexcused'
             PROVE  Cardinality(Due(p)') <= limit'[p]
    BY DEF DueIsAllowed
<1>1. p \in Unexcused
    BY DEF Unexcused
<1>2. /\ Cardinality(Due(p)') \in Nat /\ Cardinality(Due(p)) \in Nat
      /\ Cardinality(Due(p)') <= Cardinality(Due(p))
    BY FewerDue, ComingNamed DEF LimitsInv
<1>3. Cardinality(Due(p)) <= limit[p]
    BY <1>1 DEF LimitsInv, DueIsAllowed
<1>4. limit[p] \in Nat /\ limit'[p] \in Nat
    BY <1>1 DEF LimitsInv, LimitsTyped, Unexcused
<1>5. limit[p] <= limit'[p]
    OBVIOUS
<1>6. QED
    BY <1>2, <1>3, <1>4, <1>5

LEMMA AskLimits ==
    ASSUME LimitsInv, NEW r \in Requests, NEW u \in Owners, NEW names \in SUBSET Agents, NEW g \in Groups,
           Ask(r, u, names, g)
    PROVE  LimitsInv'
<1> DEFINE asked == [at |-> "asked", user |-> u, team |-> team[u], names |-> names,
                     group |-> g, seen |-> {}]
<1>1. request' = [request EXCEPT ![r] = asked] /\ request[r].at = "none"
    BY DEF Ask, NoRequest
<1>2. asked \in DeployRequest
    BY DEF LimitsInv, LimitsTyped, DeployRequest
<1>3. UNCHANGED <<exists, owner, team, limit, excused>>
    BY DEF Ask
<1>4. \A q \in Requests : q # r => request'[q] = request[q]
    BY <1>1 DEF LimitsInv, LimitsTyped
<1>5. request'[r].at = "asked" /\ request'[r].user = u
    BY <1>1 DEF LimitsInv, LimitsTyped
<1>6. Running' = Running /\ Listed' = Listed
    BY <1>1, <1>4, <1>5 DEF Running, Listed
<1>7. LimitsTyped'
    BY <1>1, <1>2, <1>3, <1>4, <1>5 DEF LimitsInv, LimitsTyped
<1>8. \A q \in Running \cup Listed : q # r /\ request'[q] = request[q]
    BY <1>1, <1>4 DEF Running, Listed
<1>9. Coming' = Coming
    BY <1>6, <1>8 DEF Coming
<1>10. \A p : Due(p)' = Due(p)
    BY <1>3, <1>9 DEF Due, OwnersOf
<1>11. \A q \in Running \cup Listed : UsersOf(q)' = UsersOf(q)
    BY <1>8 DEF UsersOf
<1>12. DueIsAllowed'
    BY <1>3, <1>10 DEF LimitsInv, DueIsAllowed, Unexcused
<1>13. ListedIsThere'
    BY <1>3, <1>6, <1>8 DEF LimitsInv, ListedIsThere, OwnersOf
<1>14. AllIsSeen'
    BY <1>3, <1>6, <1>8, <1>10, <1>11 DEF LimitsInv, AllIsSeen
<1>15. ComingIsTheirs'
    BY <1>3, <1>6, <1>8, <1>11 DEF LimitsInv, ComingIsTheirs, OwnersOf
<1>16. QED
    BY <1>7, <1>12, <1>13, <1>14, <1>15 DEF LimitsInv

\* Whom somebody else's names count for is charged, with them, in Shared.
LEMMA ChargedShared ==
    ASSUME NEW r \in Requests, NEW q \in Requests, q # r, NEW at, request[q].at \in at,
           NEW p \in UsersOf(r) \cap UsersOf(q)
    PROVE  p \in Shared(r, at)
<1>1. p \in Charged(r) /\ p \in Charged(q)
    BY DEF UsersOf, Charged
<1>2. QED
    BY <1>1 DEF Shared

LEMMA ListLimits ==
    ASSUME LimitsInv, NEW r \in Requests, ListExisting(r)
    PROVE  LimitsInv'
<1>1. /\ request[r].at = "asked" /\ request[r] \in DeployRequest /\ request[r].user \in Owners
      /\ request \in [Requests -> DeployRequest] /\ exists \subseteq Agents
    BY DEF ListExisting, LimitsInv, LimitsTyped
<1>2. /\ UNCHANGED <<exists, owner, team, limit>>
      /\ excused' = excused \cup Shared(r, {"running"})
    BY DEF ListExisting, tables
<1>3. \A q \in Requests : q # r => request'[q] = request[q]
    BY <1>1 DEF ListExisting
<1>4. /\ request'[r] \in DeployRequest /\ request'[r].at = "listed" /\ request'[r].seen = exists
      /\ request'[r].user = request[r].user /\ request'[r].team = request[r].team
      /\ request'[r].names = request[r].names
      /\ request' \in [Requests -> DeployRequest]
    BY <1>1 DEF ListExisting, DeployRequest
<1>5. Running' = Running /\ Listed' = Listed \cup {r} /\ r \notin Running \cup Listed
    BY <1>1, <1>3, <1>4 DEF Running, Listed
<1>6. LimitsTyped'
    BY <1>1, <1>2, <1>3, <1>4 DEF LimitsInv, LimitsTyped
<1>7. \A q \in Running \cup Listed : q \in Requests /\ q # r /\ request'[q] = request[q]
    BY <1>3, <1>5 DEF Running, Listed
<1>8. Coming' = Coming
    BY <1>5, <1>7 DEF Coming
<1>9. \A p : Due(p)' = Due(p)
    BY <1>2, <1>8 DEF Due, OwnersOf
<1>10. /\ \A q \in Requests : UsersOf(q)' = UsersOf(q)
       /\ \A n \in Agents : OwnersOf(n)' = OwnersOf(n)
    BY <1>2, <1>3, <1>4 DEF UsersOf, OwnersOf
<1>11. DueIsAllowed'
    BY <1>2, <1>9 DEF LimitsInv, DueIsAllowed, Unexcused
<1>12. ListedIsThere'
  <2> SUFFICES ASSUME NEW q \in Listed', NEW n \in request'[q].names \cap request'[q].seen
               PROVE  n \in exists' \/ OwnersOf(n)' \subseteq excused'
      BY DEF ListedIsThere
  <2>1. CASE q = r
      BY <2>1, <1>2, <1>4
  <2>2. CASE q \in Listed
      BY <2>2, <1>2, <1>7 DEF LimitsInv, ListedIsThere, OwnersOf
  <2>3. QED
      BY <1>5, <2>1, <2>2
<1>13. AllIsSeen'
  <2> SUFFICES ASSUME NEW q \in Listed', NEW p \in UsersOf(q)' \ excused', NEW n \in Due(p)'
               PROVE  n \in request'[q].seen
      BY DEF AllIsSeen
  <2>1. n \in Due(p) /\ p \in OwnersOf(n) /\ q \in Requests /\ p \in UsersOf(q) \ excused
      BY <1>2, <1>9, <1>10 DEF Due, Listed
  <2>2. CASE q \in Listed
      BY <2>1, <2>2, <1>7 DEF LimitsInv, AllIsSeen
  <2>3. CASE q = r /\ n \in exists
      BY <2>3, <1>4
  <2>4. CASE q = r /\ n \notin exists
    <3>1. PICK s \in Running : n \in request[s].names
        BY <2>1, <2>4 DEF Due, Coming
    <3>2. p \in UsersOf(s)
        BY <2>1, <2>4, <3>1 DEF LimitsInv, ComingIsTheirs
    <3>3. s \in Requests /\ s # r /\ request[s].at \in {"running"}
        BY <3>1, <1>5 DEF Running
    <3>4. p \in Shared(r, {"running"})
        BY <2>1, <2>4, <3>2, <3>3, ChargedShared
    <3>5. QED
        BY <3>4, <1>2
  <2>5. QED
      BY <1>5, <2>2, <2>3, <2>4
<1>14. ComingIsTheirs'
  <2> SUFFICES ASSUME NEW q \in Running', NEW n \in request'[q].names
               PROVE  n \in exists' \/ OwnersOf(n)' \subseteq excused' \cup UsersOf(q)'
      BY DEF ComingIsTheirs
  <2>1. q \in Running /\ n \in request[q].names /\ UsersOf(q)' = UsersOf(q)
      BY <1>5, <1>7, <1>10
  <2>2. QED
      BY <2>1, <1>2 DEF LimitsInv, ComingIsTheirs, OwnersOf
<1>15. QED
    BY <1>6, <1>11, <1>12, <1>13, <1>14 DEF LimitsInv

LEMMA RefuseLimits ==
    ASSUME LimitsInv, NEW r \in Requests, Refuse(r)
    PROVE  LimitsInv'
<1>1. /\ request[r].at = "listed" /\ request' = [request EXCEPT ![r] = NoRequest]
      /\ request \in [Requests -> DeployRequest]
      /\ UNCHANGED <<exists, owner, team, limit, excused>>
    BY DEF Refuse, LimitsInv, LimitsTyped, tables
<1>2. /\ \A q \in Requests : q # r => request'[q] = request[q]
      /\ request'[r] = NoRequest
    BY <1>1
<1>3. NoRequest \in DeployRequest /\ NoRequest.at = "none"
    BY DEF NoRequest, DeployRequest
<1>4. Running' = Running /\ Listed' = Listed \ {r} /\ r \notin Running
    BY <1>1, <1>2, <1>3 DEF Running, Listed
<1>5. LimitsTyped'
    BY <1>1, <1>2, <1>3 DEF LimitsInv, LimitsTyped
<1>6. \A q \in Running' \cup Listed' : request'[q] = request[q] /\ UsersOf(q)' = UsersOf(q)
    BY <1>2, <1>4 DEF Running, Listed, UsersOf
<1>7. Coming' = Coming
    BY <1>4, <1>6 DEF Coming
<1>8. \A p : Due(p)' = Due(p)
    BY <1>1, <1>7 DEF Due, OwnersOf
<1>9. DueIsAllowed'
    BY <1>1, <1>8 DEF LimitsInv, DueIsAllowed, Unexcused
<1>10. ListedIsThere'
    BY <1>1, <1>4, <1>6 DEF LimitsInv, ListedIsThere, OwnersOf
<1>11. AllIsSeen'
    BY <1>1, <1>4, <1>6, <1>8 DEF LimitsInv, AllIsSeen
<1>12. ComingIsTheirs'
    BY <1>1, <1>4, <1>6 DEF LimitsInv, ComingIsTheirs, OwnersOf
<1>13. QED
    BY <1>5, <1>9, <1>10, <1>11, <1>12 DEF LimitsInv

LEMMA WorkerLimits ==
    ASSUME LimitsInv, NEW r \in Requests, NEW n \in Agents, WorkerDone(r, n)
    PROVE  LimitsInv'
<1>1. /\ request[r].at = "running" /\ n \in request[r].names
      /\ exists' \in {exists, exists \cup {n}}
      /\ request' = [request EXCEPT ![r] = IF request[r].names \ {n} = {} THEN NoRequest
                                          ELSE [request[r] EXCEPT !.names = request[r].names \ {n}]]
      /\ request \in [Requests -> DeployRequest]
      /\ UNCHANGED <<owner, team, limit, excused>>
    BY DEF WorkerDone, LimitsInv, LimitsTyped, tables
<1>2. \A q \in Requests : q # r => request'[q] = request[q]
    BY <1>1
<1>3. NoRequest \in DeployRequest /\ NoRequest.at = "none"
    BY DEF NoRequest, DeployRequest
<1>4. \/ request'[r] = NoRequest
      \/ /\ request'[r] \in DeployRequest /\ request'[r].at = "running"
         /\ request'[r].user = request[r].user /\ request'[r].team = request[r].team
         /\ request'[r].names = request[r].names \ {n}
  <2>1. CASE request[r].names \ {n} = {}
      BY <1>1, <2>1
  <2>2. CASE request[r].names \ {n} # {}
    <3>1. request'[r] = [request[r] EXCEPT !.names = request[r].names \ {n}] /\ request[r] \in DeployRequest
        BY <1>1, <2>2
    <3>2. QED
        BY <3>1, <1>1 DEF DeployRequest
  <2>3. QED
      BY <2>1, <2>2
<1>5. request[r].user \in Owners /\ exists \subseteq Agents
    BY <1>1 DEF LimitsInv, LimitsTyped
<1>6. LimitsTyped'
  <2>1. request' \in [Requests -> DeployRequest]
      BY <1>1, <1>2, <1>3, <1>4
  <2>2. \A q \in Requests : request'[q].at # "none" => request'[q].user \in Owners
      BY <1>2, <1>3, <1>4, <1>5 DEF LimitsInv, LimitsTyped
  <2>3. QED
      BY <1>1, <1>5, <2>1, <2>2 DEF LimitsInv, LimitsTyped
<1>7. r \in Running /\ r \notin Listed /\ r \notin Listed'
    BY <1>1, <1>3, <1>4 DEF Running, Listed
<1>8. Listed' = Listed /\ Running' \subseteq Running
    BY <1>2, <1>7 DEF Running, Listed
<1>9. \A q \in Listed : q # r /\ request'[q] = request[q] /\ UsersOf(q)' = UsersOf(q)
    BY <1>2, <1>7 DEF Listed, UsersOf
<1>10. \A q \in Running' : request'[q].names \subseteq request[q].names /\ UsersOf(q)' = UsersOf(q)
    BY <1>2, <1>3, <1>4 DEF Running, UsersOf
<1>11. Coming' \subseteq Coming /\ n \in Coming
    BY <1>1, <1>7, <1>8, <1>10 DEF Coming
<1>12. \A p : Due(p)' \subseteq Due(p)
    BY <1>1, <1>11 DEF Due, OwnersOf
<1>13. exists \subseteq exists' /\ excused' = excused
    BY <1>1
<1>14. \A p \in Unexcused' : limit[p] <= limit'[p]
    BY <1>1 DEF LimitsInv, LimitsTyped, Unexcused
<1>15. DueIsAllowed'
    BY <1>6, <1>12, <1>13, <1>14, StillAllowed
<1>16. ListedIsThere'
    BY <1>1, <1>8, <1>9, <1>13 DEF LimitsInv, ListedIsThere, OwnersOf
<1>17. AllIsSeen'
  <2> SUFFICES ASSUME NEW q \in Listed', NEW p \in UsersOf(q)' \ excused', NEW m \in Due(p)'
               PROVE  m \in request'[q].seen
      BY DEF AllIsSeen
  <2>1. q \in Listed /\ p \in UsersOf(q) \ excused /\ m \in Due(p) /\ request'[q] = request[q]
      BY <1>8, <1>9, <1>12, <1>13
  <2>2. QED
      BY <2>1 DEF LimitsInv, AllIsSeen
<1>18. ComingIsTheirs'
  <2> SUFFICES ASSUME NEW q \in Running', NEW m \in request'[q].names
               PROVE  m \in exists' \/ OwnersOf(m)' \subseteq excused' \cup UsersOf(q)'
      BY DEF ComingIsTheirs
  <2>1. q \in Running /\ m \in request[q].names /\ UsersOf(q)' = UsersOf(q)
      BY <1>8, <1>10
  <2>2. QED
      BY <1>1, <2>1, <1>13 DEF LimitsInv, ComingIsTheirs, OwnersOf
<1>19. QED
    BY <1>6, <1>15, <1>16, <1>17, <1>18 DEF LimitsInv

LEMMA AcceptTypes ==
    ASSUME LimitsInv, NEW r \in Requests, Accept(r)
    PROVE  /\ request[r].at = "listed" /\ request[r] \in DeployRequest /\ request[r].user \in Owners
           /\ request' \in [Requests -> DeployRequest]
           /\ \A q \in Requests : q # r => request'[q] = request[q]
           /\ request'[r].at = "running" /\ request'[r].names = request[r].names
           /\ \A q \in Requests : UsersOf(q)' = UsersOf(q) /\ request'[q].user = request[q].user
           /\ UNCHANGED <<exists, team, limit>>
           /\ LimitsTyped'
<1>1. /\ request[r].at = "listed" /\ request[r] \in DeployRequest /\ request[r].user \in Owners
      /\ request \in [Requests -> DeployRequest]
    BY DEF Accept, LimitsInv, LimitsTyped
<1>2. /\ request' = [request EXCEPT ![r] = [@ EXCEPT !.at = "running", !.seen = {}, !.group = None]]
      /\ UNCHANGED <<exists, team, limit>>
      /\ Recorded(request[r].names \ request[r].seen, request[r].user, request[r].team)
    BY DEF Accept
<1>3. \A q \in Requests : q # r => request'[q] = request[q]
    BY <1>1, <1>2
<1>4. /\ request'[r].at = "running" /\ request'[r].names = request[r].names
      /\ request'[r].user = request[r].user /\ request'[r].team = request[r].team
      /\ request'[r] \in DeployRequest
    BY <1>1, <1>2 DEF DeployRequest
<1>5. \A q \in Requests : UsersOf(q)' = UsersOf(q) /\ request'[q].user = request[q].user
    BY <1>3, <1>4 DEF UsersOf
<1>6. request' \in [Requests -> DeployRequest]
    BY <1>1, <1>2, <1>3, <1>4
<1>7. owner' \in [Agents -> OwnerRecord]
    BY <1>1, <1>2 DEF Recorded, LimitsInv, LimitsTyped, OwnerRecord, DeployRequest
<1>8. \A q \in Requests : request'[q].at # "none" => request'[q].user \in Owners
    BY <1>1, <1>3, <1>4 DEF LimitsInv, LimitsTyped
<1>9. LimitsTyped'
    BY <1>2, <1>6, <1>7, <1>8 DEF LimitsInv, LimitsTyped
<1>10. QED
    BY <1>1, <1>2, <1>3, <1>4, <1>5, <1>6, <1>9

\* Who owns what, and who is excused, after a request is accepted.
LEMMA AcceptOwners ==
    ASSUME LimitsInv, NEW r \in Requests, Accept(r)
    PROVE  /\ excused \subseteq excused'
           /\ \A n \in Agents : OwnersOf(n)' = IF n \in request[r].names \ request[r].seen
                                                THEN UsersOf(r) ELSE OwnersOf(n)
           /\ Contended(r) => UsersOf(r) \subseteq excused'
           /\ \A q \in (Listed \cup Running) \ {r} : UsersOf(q) \cap UsersOf(r) \subseteq excused'
           /\ \A p \in UsersOf(r) \ excused' : p \in Payers(request[r].user)
<1>1. /\ excused' = excused \cup Shared(r, {"listed", "running"})
                        \cup (IF team[request[r].user] # request[r].team THEN {request[r].team} \ {None} ELSE {})
                        \cup (IF Contended(r) THEN {request[r].user, request[r].team} \ {None} ELSE {})
      /\ Recorded(request[r].names \ request[r].seen, request[r].user, request[r].team)
    BY DEF Accept
<1>2. excused \subseteq excused'
    BY <1>1
<1>3. \A n \in Agents : OwnersOf(n)' = IF n \in request[r].names \ request[r].seen
                                        THEN UsersOf(r) ELSE OwnersOf(n)
    BY <1>1 DEF Recorded, OwnersOf, UsersOf
<1>4. Contended(r) => UsersOf(r) \subseteq excused'
    BY <1>1 DEF UsersOf
<1>5. ASSUME NEW q \in (Listed \cup Running) \ {r}, NEW p \in UsersOf(q) \cap UsersOf(r)
      PROVE  p \in excused'
  <2>1. q \in Requests /\ q # r /\ request[q].at \in {"listed", "running"}
      BY DEF Listed, Running
  <2>2. p \in Shared(r, {"listed", "running"})
      BY <2>1, ChargedShared
  <2>3. QED
      BY <1>1, <2>2
<1>6. \A p \in UsersOf(r) \ excused' : p \in Payers(request[r].user)
    BY <1>1 DEF UsersOf, Payers
<1>7. QED
    BY <1>2, <1>3, <1>4, <1>5, <1>6

\* What a user who is not excused will have when the request is accepted.
LEMMA AcceptDue ==
    ASSUME LimitsInv, NEW r \in Requests, Accept(r), NEW p, p \notin excused'
    PROVE  /\ Due(p)' \subseteq Agents
           /\ p \notin UsersOf(r) => Due(p)' \subseteq Due(p)
           /\ \A n \in Due(p)' \ (request[r].names \ request[r].seen) : n \in Due(p)
<1>1. /\ r \in Listed /\ Listed' = Listed \ {r} /\ Running' = Running \cup {r}
      /\ request'[r].names = request[r].names /\ UNCHANGED exists
      /\ \A q \in Running : request'[q] = request[q]
    BY AcceptTypes DEF Listed, Running
<1>2. Coming' = Coming \cup request[r].names
    BY <1>1 DEF Coming
<1>3. p \notin excused
    BY AcceptOwners
<1>4. request[r].names \subseteq Agents
    BY AcceptTypes DEF DeployRequest
<1>5. ASSUME NEW n \in Due(p)', n \notin request[r].names \ request[r].seen
      PROVE  n \in Due(p)
  <2>1. n \in Agents /\ p \in OwnersOf(n)' /\ n \in exists \cup Coming \cup request[r].names
      BY <1>1, <1>2, <1>4, ComingNamed DEF Due, LimitsInv, LimitsTyped
  <2>2. p \in OwnersOf(n)
      BY <1>5, <2>1, AcceptOwners
  <2>3. CASE n \in exists \cup Coming
      BY <2>2, <2>3 DEF Due
  <2>4. CASE n \in request[r].names \cap request[r].seen
    <3>1. n \in exists
        BY <1>1, <1>3, <2>2, <2>4 DEF LimitsInv, ListedIsThere
    <3>2. QED
        BY <2>2, <3>1 DEF Due
  <2>5. QED
      BY <1>5, <2>1, <2>3, <2>4
<1>6. ASSUME p \notin UsersOf(r), NEW n \in Due(p)'
      PROVE  n \in Due(p)
  <2>1. n \in Agents /\ p \in OwnersOf(n)'
      BY <1>1, <1>2, <1>4, ComingNamed DEF Due, LimitsInv, LimitsTyped
  <2>2. n \notin request[r].names \ request[r].seen
      BY <1>6, <2>1, AcceptOwners
  <2>3. QED
      BY <1>5, <2>2
<1>7. Due(p)' \subseteq Agents
    BY <1>1, <1>2, <1>4, ComingNamed DEF Due, LimitsInv, LimitsTyped
<1>8. QED
    BY <1>5, <1>6, <1>7

LEMMA AcceptAllowed ==
    ASSUME LimitsInv, NEW r \in Requests, Accept(r)
    PROVE  DueIsAllowed'
<1> SUFFICES ASSUME NEW p \in Unexcused'
             PROVE  Cardinality(Due(p)') <= limit'[p]
    BY DEF DueIsAllowed
<1> DEFINE new == request[r].names \ request[r].seen
<1> DEFINE had == {n \in request[r].seen : p \in {owner[n].user, owner[n].team}}
<1>1. p \in Owners \cup Teams /\ p \notin excused' /\ p \notin excused
    BY AcceptOwners DEF Unexcused
<1>2. limit' = limit /\ limit[p] \in Nat /\ new \subseteq Agents /\ had \subseteq Agents
    BY <1>1, AcceptTypes DEF LimitsInv, LimitsTyped, DeployRequest
<1>3. /\ Cardinality(Due(p)) <= limit[p] /\ LimitsTyped /\ LimitsTyped'
      /\ Due(p) \subseteq Agents /\ Due(p)' \subseteq Agents
  <2>1. LimitsTyped /\ LimitsTyped'
      BY AcceptTypes DEF LimitsInv
  <2>2. Due(p) \subseteq Agents
      BY <2>1, ComingNamed
  <2>3. Due(p)' \subseteq Agents
      BY <1>1, AcceptDue
  <2>4. Cardinality(Due(p)) <= limit[p]
      BY <1>1 DEF LimitsInv, DueIsAllowed, Unexcused
  <2>5. QED
      BY <2>1, <2>2, <2>3, <2>4
<1>4. CASE p \notin UsersOf(r) \/ new = {}
  <2>1. Due(p)' \subseteq Due(p)
      BY <1>1, <1>4, AcceptDue
  <2>2. /\ Cardinality(Due(p)') \in Nat /\ Cardinality(Due(p)) \in Nat
        /\ Cardinality(Due(p)') <= Cardinality(Due(p))
      BY <1>3, <2>1, FewerDue
  <2>3. QED
      BY <1>2, <1>3, <2>2
<1>5. CASE p \in UsersOf(r) /\ new # {}
  <2>1. r \in Listed
      BY AcceptTypes DEF Listed
  <2>2. Due(p) \subseteq request[r].seen
      BY <1>1, <1>5, <2>1 DEF LimitsInv, AllIsSeen
  <2>3. Due(p) \subseteq had
      BY <2>2 DEF Due, OwnersOf
  <2>4. Due(p)' \subseteq had \cup new
      BY <1>1, <2>3, AcceptDue
  <2>5. /\ IsFiniteSet(had) /\ IsFiniteSet(new) /\ had \cup new \subseteq Agents
      BY <1>2, FS_Subset, AgentsAreFinite
  <2>6. Cardinality(had) \in Nat /\ Cardinality(new) \in Nat /\ Cardinality(had \cap new) \in Nat
      BY <2>5, FS_Subset, FS_CardinalityType
  <2>7. Cardinality(new) > 0
      BY <1>5, <2>5, <2>6, FS_EmptySet
  <2>8. Cardinality(had) + Cardinality(new) <= limit[p]
      BY <1>1, <1>5, <2>7, AcceptOwners DEF Accept, WithinLimits
  <2>9. Cardinality(had \cup new) = Cardinality(had) + Cardinality(new) - Cardinality(had \cap new)
      BY <2>5, FS_Union
  <2>10. /\ Cardinality(Due(p)') \in Nat /\ Cardinality(had \cup new) \in Nat
         /\ Cardinality(Due(p)') <= Cardinality(had \cup new)
      BY <2>4, <2>5, FewerDue
  <2> HIDE DEF new, had
  <2>11. QED
      BY <1>2, <2>6, <2>8, <2>9, <2>10
<1>6. QED
    BY <1>4, <1>5

LEMMA AcceptLimits ==
    ASSUME LimitsInv, NEW r \in Requests, Accept(r)
    PROVE  LimitsInv'
<1>1. /\ r \in Listed /\ Listed' = Listed \ {r} /\ Running' = Running \cup {r} /\ r \notin Running
      /\ Listed \subseteq Requests /\ Running \subseteq Requests
      /\ UNCHANGED exists
      /\ \A q \in (Listed \cup Running) \ {r} : request'[q] = request[q]
      /\ \A q \in Listed \cup Running : request'[q].names = request[q].names /\ UsersOf(q)' = UsersOf(q)
      /\ \A q \in Listed \cup Running : request[q].names \subseteq Agents
    BY AcceptTypes DEF Listed, Running, LimitsInv, LimitsTyped, DeployRequest
<1>2. LimitsTyped'
    BY AcceptTypes
<1>3. DueIsAllowed'
    BY AcceptAllowed
<1>4. excused \subseteq excused'
    BY AcceptOwners
<1>5. ASSUME NEW q \in (Listed \cup Running) \ {r},
             NEW n \in request[q].names, n \in request[r].names \ request[r].seen
      PROVE  OwnersOf(n)' \subseteq excused'
  <2>1. Contended(r)
      BY <1>5 DEF Contended, Listed, Running
  <2>2. n \in Agents
      BY <1>1, <1>5
  <2>3. QED
      BY <1>5, <2>1, <2>2, AcceptOwners
<1>6. ListedIsThere'
  <2> SUFFICES ASSUME NEW q \in Listed', NEW n \in request'[q].names \cap request'[q].seen
               PROVE  n \in exists' \/ OwnersOf(n)' \subseteq excused'
      BY DEF ListedIsThere
  <2>1. q \in Listed /\ q # r /\ n \in request[q].names \cap request[q].seen /\ n \in Agents
      BY <1>1
  <2>2. CASE n \in request[r].names \ request[r].seen
      BY <1>5, <2>1, <2>2
  <2>3. CASE n \notin request[r].names \ request[r].seen
      BY <1>1, <1>4, <2>1, <2>3, AcceptOwners DEF LimitsInv, ListedIsThere
  <2>4. QED
      BY <2>2, <2>3
<1>7. AllIsSeen'
  <2> SUFFICES ASSUME NEW q \in Listed', NEW p \in UsersOf(q)' \ excused', NEW n \in Due(p)'
               PROVE  n \in request'[q].seen
      BY DEF AllIsSeen
  <2>1. q \in Listed /\ q # r /\ p \in UsersOf(q) /\ p \notin excused /\ request'[q] = request[q]
      BY <1>1, <1>4
  <2>2. p \notin UsersOf(r)
      BY <2>1, AcceptOwners
  <2>3. n \in Due(p)
      BY <2>2, AcceptDue
  <2>4. QED
      BY <2>1, <2>3 DEF LimitsInv, AllIsSeen
<1>8. ComingIsTheirs'
  <2> SUFFICES ASSUME NEW q \in Running', NEW n \in request'[q].names
               PROVE  n \in exists' \/ OwnersOf(n)' \subseteq excused' \cup UsersOf(q)'
      BY DEF ComingIsTheirs
  <2>1. n \in request[q].names /\ UsersOf(q)' = UsersOf(q) /\ n \in Agents
      BY <1>1
  <2>2. CASE q = r /\ n \in request[r].seen
      BY <1>1, <1>4, <2>1, <2>2, AcceptOwners DEF LimitsInv, ListedIsThere
  <2>3. CASE q = r /\ n \notin request[r].seen
      BY <2>1, <2>3, AcceptOwners
  <2>4. CASE q # r /\ n \in request[r].names \ request[r].seen
      BY <1>1, <1>5, <2>1, <2>4
  <2>5. CASE q # r /\ n \notin request[r].names \ request[r].seen
      BY <1>1, <1>4, <2>1, <2>5, AcceptOwners DEF LimitsInv, ComingIsTheirs
  <2>6. QED
      BY <2>2, <2>3, <2>4, <2>5
<1>9. QED
    BY <1>2, <1>3, <1>6, <1>7, <1>8 DEF LimitsInv
\* A step of administrators: it takes containers away, gives them to the excused,
\* and lowers limits of the excused only. Requests go on as they were.
LEMMA AdminLimits ==
    ASSUME LimitsInv, LimitsTyped', request' = request, exists' \subseteq exists, excused \subseteq excused',
           \A p \in Unexcused' : limit[p] <= limit'[p],
           \A n \in Agents : /\ OwnersOf(n)' \subseteq OwnersOf(n) \cup excused'
                             /\ n \in exists \ exists' => OwnersOf(n)' = {}
    PROVE  LimitsInv'
<1>1. Running' = Running /\ Listed' = Listed /\ Coming' = Coming
    BY DEF Running, Listed, Coming
<1>2. \A q \in Requests : UsersOf(q)' = UsersOf(q)
    BY DEF UsersOf
<1>3. ASSUME NEW p, p \notin excused'
      PROVE  Due(p)' \subseteq Due(p)
  <2> SUFFICES ASSUME NEW n \in Due(p)' PROVE n \in Due(p)
      OBVIOUS
  <2>1. n \in exists \cup Coming /\ n \in Agents
      BY <1>1, ComingNamed DEF Due, LimitsInv, LimitsTyped
  <2>2. p \in OwnersOf(n)
      BY <1>3, <2>1 DEF Due
  <2>3. QED
      BY <2>1, <2>2 DEF Due
<1>4. DueIsAllowed'
    BY <1>3, StillAllowed DEF Unexcused
<1>5. ListedIsThere'
  <2> SUFFICES ASSUME NEW q \in Listed, NEW n \in request[q].names \cap request[q].seen
               PROVE  n \in exists' \/ OwnersOf(n)' \subseteq excused'
      BY <1>1 DEF ListedIsThere
  <2>1. n \in Agents /\ (n \in exists \/ OwnersOf(n) \subseteq excused)
      BY DEF LimitsInv, ListedIsThere, LimitsTyped, Listed, DeployRequest
  <2>2. QED
      BY <2>1
<1>6. AllIsSeen'
  <2> SUFFICES ASSUME NEW q \in Listed, NEW p \in UsersOf(q)' \ excused', NEW n \in Due(p)'
               PROVE  n \in request[q].seen
      BY <1>1 DEF AllIsSeen
  <2>1. p \in UsersOf(q) \ excused /\ n \in Due(p)
      BY <1>2, <1>3 DEF Listed
  <2>2. QED
      BY <2>1 DEF LimitsInv, AllIsSeen
<1>7. ComingIsTheirs'
  <2> SUFFICES ASSUME NEW q \in Running, NEW n \in request[q].names
               PROVE  n \in exists' \/ OwnersOf(n)' \subseteq excused' \cup UsersOf(q)'
      BY <1>1 DEF ComingIsTheirs
  <2>1. /\ n \in Agents /\ UsersOf(q)' = UsersOf(q)
        /\ n \in exists \/ OwnersOf(n) \subseteq excused \cup UsersOf(q)
      BY <1>2 DEF LimitsInv, ComingIsTheirs, LimitsTyped, Running, DeployRequest
  <2>2. QED
      BY <2>1
<1>8. QED
    BY <1>4, <1>5, <1>6, <1>7 DEF LimitsInv

LEMMA LimitIsNat == LimitsTyped => \A p \in Owners \cup Teams : limit[p] <= limit[p]
BY DEF LimitsTyped

LEMMA DeleteLimits ==
    ASSUME LimitsInv, NEW u, NEW n \in Agents, DeleteAgent(u, n)
    PROVE  LimitsInv'
<1>1. /\ exists' = exists \ {n} /\ owner' = [owner EXCEPT ![n] = Unowned]
      /\ UNCHANGED <<team, limit, request, excused>>
      /\ owner \in [Agents -> OwnerRecord] /\ exists \subseteq Agents
    BY DEF DeleteAgent, LimitsInv, LimitsTyped
<1>2. Unowned \in OwnerRecord
    BY DEF Unowned, OwnerRecord
<1>3. LimitsTyped'
    BY <1>1, <1>2 DEF LimitsInv, LimitsTyped
<1>4. \A m \in Agents : OwnersOf(m)' = IF m = n THEN {} ELSE OwnersOf(m)
    BY <1>1 DEF OwnersOf, Unowned
<1>5. \A p \in Unexcused' : limit[p] <= limit'[p]
    BY <1>1, LimitIsNat DEF LimitsInv, Unexcused
<1>6. QED
    BY <1>1, <1>3, <1>4, <1>5, AdminLimits

LEMMA TeamLimits ==
    ASSUME LimitsInv, TeamNext
    PROVE  LimitsInv'
<1>1. /\ owner \in [Agents -> OwnerRecord] /\ exists \subseteq Agents
      /\ limit \in [Owners \cup Teams -> Nat] /\ team \in [Owners -> Teams \cup {None}]
    BY DEF LimitsInv, LimitsTyped
<1>2. \A p \in Owners \cup Teams : limit[p] <= limit[p]
    BY LimitIsNat DEF LimitsInv
<1>3. ASSUME NEW t \in Teams \cup {None}, NEW n \in Agents, AssignTeam(n, t)
      PROVE  LimitsInv'
  <2>1. /\ owner' = [owner EXCEPT ![n].team = t] /\ excused' = excused \cup ({t} \ {None})
        /\ UNCHANGED <<exists, team, limit, request>>
      BY <1>3 DEF AssignTeam
  <2>2. owner' \in [Agents -> OwnerRecord]
      BY <1>1, <2>1 DEF OwnerRecord
  <2>3. LimitsTyped'
      BY <2>1, <2>2 DEF LimitsInv, LimitsTyped
  <2>4. \A m \in Agents : OwnersOf(m)' \subseteq OwnersOf(m) \cup excused'
      BY <1>1, <2>1 DEF OwnersOf, OwnerRecord
  <2>5. QED
      BY <1>2, <2>1, <2>3, <2>4, AdminLimits DEF Unexcused
<1>4. ASSUME NEW t \in Teams \cup {None}, NEW u \in Owners, SetUserTeam(u, t)
      PROVE  LimitsInv'
  <2>1. LimitsTyped'
      BY <1>1, <1>4 DEF SetUserTeam, LimitsInv, LimitsTyped
  <2>2. \A m \in Agents : OwnersOf(m)' = OwnersOf(m)
      BY <1>4 DEF SetUserTeam, OwnersOf
  <2>3. QED
      BY <1>2, <1>4, <2>1, <2>2, AdminLimits DEF SetUserTeam, Unexcused
<1>5. ASSUME NEW t \in Teams, DeleteTeam(t)
      PROVE  LimitsInv'
  <2>1. /\ owner' = [n \in Agents |-> IF owner[n].team = t THEN [owner[n] EXCEPT !.team = None] ELSE owner[n]]
        /\ team' = [u \in Owners |-> IF team[u] = t THEN None ELSE team[u]]
        /\ UNCHANGED <<exists, limit, request, excused>>
      BY <1>5 DEF DeleteTeam
  <2>2. \A n \in Agents : owner'[n] = IF owner[n].team = t THEN [owner[n] EXCEPT !.team = None] ELSE owner[n]
      BY <2>1
  <2>3. owner' \in [Agents -> OwnerRecord] /\ team' \in [Owners -> Teams \cup {None}]
      BY <1>1, <2>1 DEF OwnerRecord
  <2>4. LimitsTyped'
      BY <2>1, <2>3 DEF LimitsInv, LimitsTyped
  <2>5. \A m \in Agents : OwnersOf(m)' \subseteq OwnersOf(m) \cup excused'
      BY <1>1, <2>2 DEF OwnersOf, OwnerRecord
  <2>6. QED
      BY <1>2, <2>1, <2>4, <2>5, AdminLimits DEF Unexcused
<1>6. ASSUME NEW p \in Owners \cup Teams, NEW l \in Limits, SetLimit(p, l)
      PROVE  LimitsInv'
  <2>1. /\ limit' = [limit EXCEPT ![p] = l]
        /\ excused' = IF l < limit[p] THEN excused \cup {p} ELSE excused
        /\ UNCHANGED <<exists, owner, team, request>> /\ l \in Nat
      BY <1>6, LimitsAreNumbers DEF SetLimit
  <2>2. LimitsTyped'
      BY <1>1, <2>1 DEF LimitsInv, LimitsTyped
  <2>3. \A m \in Agents : OwnersOf(m)' = OwnersOf(m)
      BY <2>1 DEF OwnersOf
  <2>4. ASSUME NEW q \in Unexcused'
        PROVE  limit[q] <= limit'[q]
    <3>1. CASE q = p
        BY <1>1, <2>1, <2>4, <3>1 DEF Unexcused
    <3>2. CASE q # p
        BY <1>1, <1>2, <2>1, <3>2 DEF Unexcused
    <3>3. QED
        BY <3>1, <3>2
  <2>5. excused \subseteq excused'
      BY <2>1
  <2>6. QED
      BY <2>1, <2>2, <2>3, <2>4, <2>5, AdminLimits
<1>7. QED
    BY <1>3, <1>4, <1>5, <1>6 DEF TeamNext

LEMMA LimitsKeepOn == LimitsInv /\ [RegistryNext]_registryVars => LimitsInv'
<1> SUFFICES ASSUME LimitsInv, [RegistryNext]_registryVars
             PROVE  LimitsInv'
    OBVIOUS
<1>1. ASSUME NEW r \in Requests, DeployStep(r)
      PROVE  LimitsInv'
    BY <1>1, AskLimits, ListLimits, AcceptLimits, RefuseLimits, WorkerLimits DEF DeployStep
<1>2. CASE WriterNext
  <2>1. UNCHANGED limitsVars
      BY <1>2 DEF WriterNext, ReadRow, WriteRow, WriteFails, limitsVars, tables
  <2>2. QED
      BY <2>1, LimitsStutter
<1>3. CASE DeleteNext
    BY <1>3, DeleteLimits DEF DeleteNext
<1>4. CASE GroupNext
  <2>1. UNCHANGED limitsVars
      BY <1>4 DEF GroupNext, RemoveFromGroup, AssignGroup, CreateGroup, DeleteGroup, RenameGroup, limitsVars
  <2>2. QED
      BY <2>1, LimitsStutter
<1>5. CASE TeamNext
    BY <1>5, TeamLimits
<1>6. CASE UNCHANGED registryVars
  <2>1. UNCHANGED limitsVars
      BY <1>6 DEF registryVars, limitsVars
  <2>2. QED
      BY <2>1, LimitsStutter
<1>7. QED
    BY <1>1, <1>2, <1>3, <1>4, <1>5, <1>6 DEF RegistryNext

LEMMA NobodyIsOver == LimitsInv => LimitsKept
<1> SUFFICES ASSUME LimitsInv, NEW p \in Unexcused
             PROVE  Cardinality(Owned(p)) <= limit[p]
    BY DEF LimitsKept, Unexcused
<1>1. p # None
    BY NoneIsNobody DEF Unexcused
<1>2. Owned(p) \subseteq Due(p)
    BY <1>1 DEF Owned, Due, OwnersOf
<1>3. /\ Cardinality(Owned(p)) \in Nat /\ Cardinality(Due(p)) \in Nat
      /\ Cardinality(Owned(p)) <= Cardinality(Due(p))
    BY <1>2, FewerDue, ComingNamed DEF LimitsInv
<1>4. Cardinality(Due(p)) <= limit[p] /\ limit[p] \in Nat
    BY DEF LimitsInv, DueIsAllowed, LimitsTyped, Unexcused
<1>5. QED
    BY <1>3, <1>4

THEOREM NobodyOverLimit == RegistrySpec => []LimitsKept
BY LimitsAtFirst, LimitsKeepOn, NobodyIsOver, PTL DEF RegistrySpec

-----------------------------------------------------------------------------
(* Numbers. *)

\* A row, whatever its number.
SomeRow == [seq : Nat, group : Groups \cup {None}, deleted : BOOLEAN]

RowsTyped ==
    /\ row \in [Agents -> SomeRow]
    /\ nextSeq \in Nat \ {0}
    /\ writer \in [RowWriters -> [name : Agents \cup {None}, read : SomeRow]]

OthersTyped ==
    /\ groups \subseteq Groups
    /\ limit \in [Owners \cup Teams -> Limits]
    /\ excused \subseteq Owners \cup Teams

\* The numbers given so far are below the next, one for each row.
NumbersDiffer ==
    /\ \A a \in Agents : row[a].seq < nextSeq
    /\ \A a, b \in Agents : HasRow(a) /\ a # b => row[a].seq # row[b].seq
    /\ nextSeq = 1 + Cardinality({a \in Agents : HasRow(a)})

\* A row read earlier, to be written back, has the number the name has.
ReadsAgree ==
    \A w \in RowWriters :
        \/ writer[w] = NoWriter
        \/ /\ writer[w].name \in Agents
           /\ writer[w].read.seq # 0 => writer[w].read.seq = row[writer[w].name].seq

NumbersInv == RowsTyped /\ NumbersDiffer /\ ReadsAgree

Unnumbered(names) == {n \in names : ~HasRow(n)}

\* Numberings for the fresh ones of some names: different ones, from the next number on.
Numberings(names) ==
    {f \in [Unnumbered(names) -> Nat] :
        /\ \A a \in Unnumbered(names) : nextSeq <= f[a] /\ f[a] < nextSeq + Cardinality(Unnumbered(names))
        /\ \A a, b \in Unnumbered(names) : f[a] = f[b] => a = b}

\* What a step does to the numbers: the fresh ones of some names get theirs.
NumbersGiven(names) ==
    /\ nextSeq' = nextSeq + Cardinality(Unnumbered(names))
    /\ \E f \in Numberings(names) : \A n \in Agents :
          row'[n].seq = IF n \in Unnumbered(names) THEN f[n] ELSE row[n].seq

SomeNumbersGiven ==
    /\ row' \in [Agents -> SomeRow]
    /\ \E names \in SUBSET Agents : NumbersGiven(names)

NumbersHold == \A a, b \in Agents :
    /\ HasRow(a) => row'[a].seq = row[a].seq
    /\ row'[a].seq # 0 /\ a # b => row'[a].seq # row'[b].seq

LEMMA FreshCounted ==
    ASSUME NEW names \in SUBSET Agents
    PROVE  /\ IsFiniteSet(Unnumbered(names)) /\ Cardinality(Unnumbered(names)) \in Nat
           /\ ExistsBijection(1 .. Cardinality(Unnumbered(names)), Unnumbered(names))
<1>1. IsFiniteSet(Unnumbered(names))
    BY FS_Subset, AgentsAreFinite DEF Unnumbered
<1>2. QED
    BY <1>1, FS_CardinalityType

\* The choice that Numbered makes can be made, whichever names are fresh.
LEMMA NumberedAsGiven ==
    ASSUME NEW names \in SUBSET Agents, nextSeq \in Nat, row \in [Agents -> SomeRow]
    PROVE  \E f \in Numberings(names) :
              Numbered(row, names) =
                 [n \in Agents |-> IF n \in Unnumbered(names) THEN [row[n] EXCEPT !.seq = f[n]] ELSE row[n]]
<1> DEFINE k == Cardinality(Unnumbered(names))
<1> DEFINE order == CHOOSE f \in [Unnumbered(names) -> nextSeq .. nextSeq + k - 1] :
                        \A a, b \in Unnumbered(names) : f[a] = f[b] => a = b
<1>1. k \in Nat
    BY FreshCounted
<1>2. PICK g \in [1 .. k -> Unnumbered(names)] : \A n \in Unnumbered(names) : \E i \in 1 .. k : g[i] = n
    BY FreshCounted DEF ExistsBijection, Bijection, Surjection
<1>3. \E f \in [Unnumbered(names) -> nextSeq .. nextSeq + k - 1] :
          \A a, b \in Unnumbered(names) : f[a] = f[b] => a = b
  <2> DEFINE at == [n \in Unnumbered(names) |-> CHOOSE i \in 1 .. k : g[i] = n]
  <2> DEFINE f == [n \in Unnumbered(names) |-> nextSeq + at[n] - 1]
  <2>1. \A n \in Unnumbered(names) : at[n] \in 1 .. k /\ g[at[n]] = n
      BY <1>2
  <2>2. ASSUME NEW n \in Unnumbered(names) PROVE f[n] \in nextSeq .. nextSeq + k - 1
    <3>1. at[n] \in Nat /\ 1 <= at[n] /\ at[n] <= k
        BY <1>1, <2>1
    <3>2. f[n] = nextSeq + at[n] - 1
        OBVIOUS
    <3> HIDE DEF at, f, k
    <3>3. QED
        BY <1>1, <3>1, <3>2
  <2>3. ASSUME NEW a \in Unnumbered(names), NEW b \in Unnumbered(names), f[a] = f[b] PROVE a = b
    <3>1. at[a] \in Nat /\ at[b] \in Nat
        BY <1>1, <2>1
    <3>2. nextSeq + at[a] - 1 = nextSeq + at[b] - 1
        BY <2>3
    <3> HIDE DEF at
    <3>3. at[a] = at[b]
        BY <3>1, <3>2
    <3>4. QED
        BY <2>1, <3>3
  <2>4. f \in [Unnumbered(names) -> nextSeq .. nextSeq + k - 1]
      BY <2>2
  <2> HIDE DEF f
  <2>5. QED
      BY <2>3, <2>4
<1>4. /\ order \in [Unnumbered(names) -> nextSeq .. nextSeq + k - 1]
      /\ \A a, b \in Unnumbered(names) : order[a] = order[b] => a = b
    BY <1>3
<1>5. Numbered(row, names) =
         [n \in Agents |-> IF n \in Unnumbered(names) THEN [row[n] EXCEPT !.seq = order[n]] ELSE row[n]]
    BY DEF Numbered, Unnumbered
<1> HIDE DEF order
<1>6. \A a \in Unnumbered(names) : order[a] \in Nat /\ nextSeq <= order[a] /\ order[a] < nextSeq + k
    BY <1>1, <1>4
<1>7. order \in Numberings(names)
    BY <1>4, <1>6 DEF Numberings
<1>8. QED
    BY <1>5, <1>7

\* Rows that are numbered, and changed otherwise only in group and deletion mark.
LEMMA NumberedGives ==
    ASSUME NEW names \in SUBSET Agents, nextSeq \in Nat, row \in [Agents -> SomeRow],
           \A n \in Agents : row'[n].seq = Numbered(row, names)[n].seq,
           nextSeq' = NextSeqAfter(names)
    PROVE  NumbersGiven(names)
<1>1. PICK f \in Numberings(names) : Numbered(row, names) =
         [n \in Agents |-> IF n \in Unnumbered(names) THEN [row[n] EXCEPT !.seq = f[n]] ELSE row[n]]
    BY NumberedAsGiven
<1>2. \A n \in Agents : Numbered(row, names)[n].seq = IF n \in Unnumbered(names) THEN f[n] ELSE row[n].seq
    BY <1>1 DEF SomeRow
<1>3. nextSeq' = nextSeq + Cardinality(Unnumbered(names))
    BY DEF NextSeqAfter, Unnumbered
<1>4. QED
    BY <1>2, <1>3 DEF NumbersGiven

LEMMA NumberedTyped ==
    ASSUME NEW names \in SUBSET Agents, nextSeq \in Nat, row \in [Agents -> SomeRow]
    PROVE  Numbered(row, names) \in [Agents -> SomeRow]
<1>1. PICK f \in Numberings(names) : Numbered(row, names) =
         [n \in Agents |-> IF n \in Unnumbered(names) THEN [row[n] EXCEPT !.seq = f[n]] ELSE row[n]]
    BY NumberedAsGiven
<1>2. \A n \in Unnumbered(names) : f[n] \in Nat
    BY DEF Numberings
<1>3. QED
    BY <1>1, <1>2 DEF SomeRow

\* Steps that number nothing.
LEMMA NothingGiven ==
    ASSUME nextSeq \in Nat, nextSeq' = nextSeq, \A n \in Agents : row'[n].seq = row[n].seq
    PROVE  NumbersGiven({})
<1>1. Unnumbered({}) = {}
    BY DEF Unnumbered
<1>2. Cardinality(Unnumbered({})) = 0
    BY <1>1, FS_EmptySet
<1>3. [n \in {} |-> 0] \in Numberings({})
    BY <1>1 DEF Numberings
<1>4. QED
    BY <1>1, <1>2, <1>3 DEF NumbersGiven

\* A step that gives numbers so keeps the old ones and gives none twice.
LEMMA GivenHold ==
    ASSUME NumbersInv, SomeNumbersGiven
    PROVE  NumbersHold /\ NumbersDiffer' /\ nextSeq' \in Nat \ {0}
<1>1. PICK names \in SUBSET Agents : NumbersGiven(names)
    BY DEF SomeNumbersGiven
<1> DEFINE k == Cardinality(Unnumbered(names))
<1>2. PICK f \in Numberings(names) : \A n \in Agents :
          row'[n].seq = IF n \in Unnumbered(names) THEN f[n] ELSE row[n].seq
    BY <1>1 DEF NumbersGiven
<1>3. /\ k \in Nat /\ IsFiniteSet(Unnumbered(names)) /\ nextSeq' = nextSeq + k
      /\ nextSeq \in Nat /\ nextSeq # 0
    BY <1>1, FreshCounted DEF NumbersGiven, NumbersInv, RowsTyped
<1>4. nextSeq' \in Nat \ {0}
    BY <1>3
<1>5. \A n \in Agents : row[n].seq \in Nat /\ row[n].seq < nextSeq
    BY DEF NumbersInv, RowsTyped, NumbersDiffer, SomeRow
<1>6. \A n \in Unnumbered(names) : f[n] \in Nat /\ nextSeq <= f[n] /\ f[n] < nextSeq + k
    BY DEF Numberings
<1>7. \A a, b \in Unnumbered(names) : f[a] = f[b] => a = b
    BY DEF Numberings
<1>8. \A n \in Unnumbered(names) : n \in Agents /\ row[n].seq = 0
    BY DEF Unnumbered, HasRow
<1> HIDE DEF k
<1>9. \A n \in Agents : row'[n].seq < nextSeq'
    BY <1>2, <1>3, <1>5, <1>6
<1>10. \A a \in Agents : HasRow(a) => row'[a].seq = row[a].seq
    BY <1>2, <1>8 DEF HasRow
<1>11. ASSUME NEW a \in Agents, NEW b \in Agents, a # b, row'[a].seq # 0
       PROVE  row'[a].seq # row'[b].seq
  <2>1. CASE a \in Unnumbered(names) /\ b \in Unnumbered(names)
      BY <1>2, <1>7, <1>11, <2>1
  <2>2. CASE a \in Unnumbered(names) /\ b \notin Unnumbered(names)
      BY <1>2, <1>3, <1>5, <1>6, <2>2
  <2>3. CASE a \notin Unnumbered(names) /\ b \in Unnumbered(names)
      BY <1>2, <1>3, <1>5, <1>6, <2>3
  <2>4. CASE a \notin Unnumbered(names) /\ b \notin Unnumbered(names)
      BY <1>2, <1>11, <2>4 DEF NumbersInv, NumbersDiffer, HasRow
  <2>5. QED
      BY <2>1, <2>2, <2>3, <2>4
<1>12. nextSeq' = 1 + Cardinality({a \in Agents : HasRow(a)}')
  <2> DEFINE old == {a \in Agents : HasRow(a)}
  <2>1. {a \in Agents : HasRow(a)}' = old \cup Unnumbered(names)
      BY <1>2, <1>3, <1>6, <1>8 DEF HasRow
  <2>2. old \cap Unnumbered(names) = {} /\ IsFiniteSet(old) /\ Cardinality(old) \in Nat
      BY FS_Subset, FS_CardinalityType, AgentsAreFinite DEF Unnumbered
  <2>3. Cardinality(old \cup Unnumbered(names)) = Cardinality(old) + k
    <3>1. Cardinality(old \cup Unnumbered(names)) =
             Cardinality(old) + Cardinality(Unnumbered(names)) - Cardinality(old \cap Unnumbered(names))
        BY <1>3, <2>2, FS_Union
    <3>2. Cardinality(old \cap Unnumbered(names)) = 0
        BY <2>2, FS_EmptySet, Zenon
    <3>3. Cardinality(Unnumbered(names)) = k
        BY DEF k
    <3> HIDE DEF old
    <3>4. QED
        BY <1>3, <2>2, <3>1, <3>2, <3>3
  <2>4. nextSeq = 1 + Cardinality(old)
      BY DEF NumbersInv, NumbersDiffer
  <2> HIDE DEF old
  <2>5. QED
      BY <1>3, <2>1, <2>2, <2>3, <2>4
<1>13. QED
    BY <1>4, <1>9, <1>10, <1>11, <1>12 DEF NumbersHold, NumbersDiffer, HasRow

\* Writers that stay, or are done.
LEMMA NumbersStep ==
    ASSUME NumbersInv, SomeNumbersGiven,
           writer' \in [RowWriters -> [name : Agents \cup {None}, read : SomeRow]],
           \A w \in RowWriters : writer'[w] \in {writer[w], NoWriter}
    PROVE  NumbersInv' /\ NumbersHold
<1>1. NumbersHold /\ NumbersDiffer' /\ nextSeq' \in Nat \ {0}
    BY GivenHold
<1>2. RowsTyped'
    BY <1>1 DEF RowsTyped, SomeNumbersGiven
<1>3. ASSUME NEW w \in RowWriters, writer'[w] # NoWriter
      PROVE  /\ writer'[w].name \in Agents
             /\ writer'[w].read.seq # 0 => writer'[w].read.seq = row'[writer'[w].name].seq
  <2>1. /\ writer'[w] = writer[w] /\ writer[w].name \in Agents
        /\ writer[w].read.seq # 0 => writer[w].read.seq = row[writer[w].name].seq
      BY <1>3 DEF NumbersInv, ReadsAgree
  <2>2. writer[w].read.seq # 0 => HasRow(writer[w].name)
      BY <2>1 DEF HasRow
  <2>3. QED
      BY <1>1, <2>1, <2>2 DEF NumbersHold
<1>4. ReadsAgree'
    BY <1>3 DEF ReadsAgree
<1>5. QED
    BY <1>1, <1>2, <1>4 DEF NumbersInv

\* Steps that leave the numbers and the writers alone.
LEMMA SameNumbers ==
    ASSUME NumbersInv, UNCHANGED <<nextSeq, writer>>, row' \in [Agents -> SomeRow],
           \A n \in Agents : row'[n].seq = row[n].seq
    PROVE  NumbersInv' /\ NumbersHold
<1>1. nextSeq \in Nat
    BY DEF NumbersInv, RowsTyped
<1>2. NumbersGiven({})
    BY <1>1, NothingGiven
<1>3. SomeNumbersGiven
    BY <1>2 DEF SomeNumbersGiven
<1>4. QED
    BY <1>3, NumbersStep DEF NumbersInv, RowsTyped

LEMMA NumbersAtFirst == RegistryInit => NumbersInv
<1> SUFFICES ASSUME RegistryInit PROVE NumbersInv
    OBVIOUS
<1>1. NoRow \in SomeRow /\ NoRow.seq = 0
    BY DEF NoRow, SomeRow
<1>2. NoWriter \in [name : Agents \cup {None}, read : SomeRow]
    BY <1>1 DEF NoWriter
<1>3. RowsTyped
    BY <1>1, <1>2 DEF RegistryInit, RowsTyped
<1>4. {a \in Agents : HasRow(a)} = {}
    BY <1>1 DEF RegistryInit, HasRow
<1>5. Cardinality({a \in Agents : HasRow(a)}) = 0
    BY <1>4, FS_EmptySet, Zenon
<1>6. \A a \in Agents : row[a].seq = 0 /\ nextSeq = 1
    BY <1>1 DEF RegistryInit
<1>7. nextSeq = 1 + Cardinality({a \in Agents : HasRow(a)})
    BY <1>5 DEF RegistryInit
<1>8. NumbersDiffer
    BY <1>6, <1>7 DEF NumbersDiffer, HasRow
<1>9. QED
    BY <1>3, <1>8 DEF NumbersInv, ReadsAgree, RegistryInit

LEMMA AcceptNumbers ==
    ASSUME LimitsInv, NumbersInv, NEW r \in Requests, Accept(r)
    PROVE  NumbersInv' /\ NumbersHold
<1> DEFINE q == request[r]
<1>1. /\ row' = [n \in Agents |-> IF n \in q.names THEN [Numbered(row, q.names)[n] EXCEPT !.group = q.group]
                                 ELSE row[n]]
      /\ nextSeq' = NextSeqAfter(q.names) /\ writer' = writer
    BY DEF Accept
<1>2. q.names \in SUBSET Agents /\ q.group \in Groups \cup {None}
    BY DEF LimitsInv, LimitsTyped, DeployRequest
<1>3. /\ nextSeq \in Nat /\ row \in [Agents -> SomeRow]
      /\ writer \in [RowWriters -> [name : Agents \cup {None}, read : SomeRow]]
    BY DEF NumbersInv, RowsTyped
<1> HIDE DEF q
<1>4. Numbered(row, q.names) \in [Agents -> SomeRow]
    BY <1>2, <1>3, NumberedTyped
<1>5. row' \in [Agents -> SomeRow]
    BY <1>1, <1>2, <1>3, <1>4 DEF SomeRow
<1>6. \A n \in Agents : n \notin q.names => Numbered(row, q.names)[n] = row[n]
    BY DEF Numbered
<1>7. \A n \in Agents : row'[n].seq = Numbered(row, q.names)[n].seq
    BY <1>1, <1>2, <1>4, <1>6 DEF SomeRow
<1>8. SomeNumbersGiven
    BY <1>1, <1>2, <1>3, <1>5, <1>7, NumberedGives DEF SomeNumbersGiven
<1>9. QED
    BY <1>1, <1>3, <1>8, NumbersStep

LEMMA WriteNumbers ==
    ASSUME NumbersInv, NEW w \in RowWriters, WriteRow(w)
    PROVE  NumbersInv' /\ NumbersHold
<1> DEFINE n == writer[w].name
<1> DEFINE read == writer[w].read
<1>1. /\ writer[w] # NoWriter /\ writer' = [writer EXCEPT ![w] = NoWriter]
      /\ row' = IF read.seq = 0 THEN Numbered(row, {n}) ELSE [row EXCEPT ![n] = read]
      /\ nextSeq' = NextSeqAfter({n})
    BY DEF WriteRow
<1>2. /\ nextSeq \in Nat /\ row \in [Agents -> SomeRow]
      /\ writer \in [RowWriters -> [name : Agents \cup {None}, read : SomeRow]]
    BY DEF NumbersInv, RowsTyped
<1>3. n \in Agents /\ read \in SomeRow /\ (read.seq # 0 => read.seq = row[n].seq)
    BY <1>1, <1>2 DEF NumbersInv, ReadsAgree
<1>4. NoWriter \in [name : Agents \cup {None}, read : SomeRow]
    BY DEF NoWriter, NoRow, SomeRow
<1>5. writer' \in [RowWriters -> [name : Agents \cup {None}, read : SomeRow]]
    BY <1>1, <1>2, <1>4
<1>6. \A v \in RowWriters : writer'[v] \in {writer[v], NoWriter}
    BY <1>1, <1>2
<1> HIDE DEF n, read
<1>7. CASE read.seq = 0
  <2>1. {n} \in SUBSET Agents
      BY <1>3
  <2>2. row' \in [Agents -> SomeRow]
      BY <1>1, <1>2, <1>7, <2>1, NumberedTyped
  <2>3. NumbersGiven({n})
      BY <1>1, <1>2, <1>7, <2>1, NumberedGives
  <2>4. SomeNumbersGiven
      BY <2>1, <2>2, <2>3 DEF SomeNumbersGiven
  <2>5. QED
      BY <1>5, <1>6, <2>4, NumbersStep
<1>8. CASE read.seq # 0
  <2>1. HasRow(n)
      BY <1>3, <1>8 DEF HasRow
  <2>2. {m \in {n} : ~HasRow(m)} = {}
      BY <2>1
  <2>3. nextSeq' = nextSeq
    <3>1. Cardinality({m \in {n} : ~HasRow(m)}) = 0
        BY <2>2, FS_EmptySet, Zenon
    <3>2. nextSeq' = nextSeq + Cardinality({m \in {n} : ~HasRow(m)})
        BY <1>1 DEF NextSeqAfter
    <3>3. QED
        BY <1>2, <3>1, <3>2
  <2>4. row' \in [Agents -> SomeRow] /\ \A m \in Agents : row'[m].seq = row[m].seq
      BY <1>1, <1>2, <1>3, <1>8
  <2>5. NumbersGiven({})
      BY <1>2, <2>3, <2>4, NothingGiven
  <2>6. SomeNumbersGiven
      BY <2>4, <2>5 DEF SomeNumbersGiven
  <2>7. QED
      BY <1>5, <1>6, <2>6, NumbersStep
<1>9. QED
    BY <1>7, <1>8

LEMMA ReadNumbers ==
    ASSUME NumbersInv, NEW w \in RowWriters, NEW n \in Agents, ReadRow(w, n)
    PROVE  NumbersInv' /\ NumbersHold
<1>1. /\ UNCHANGED <<row, nextSeq>> /\ writer' = [writer EXCEPT ![w] = [name |-> n, read |-> row[n]]]
      /\ row \in [Agents -> SomeRow]
      /\ writer \in [RowWriters -> [name : Agents \cup {None}, read : SomeRow]]
    BY DEF ReadRow, tables, NumbersInv, RowsTyped
<1>2. RowsTyped' /\ NumbersDiffer'
    BY <1>1 DEF NumbersInv, RowsTyped, NumbersDiffer, HasRow
<1>3. ReadsAgree'
  <2> SUFFICES ASSUME NEW v \in RowWriters
               PROVE  \/ writer'[v] = NoWriter
                      \/ /\ writer'[v].name \in Agents
                         /\ writer'[v].read.seq # 0 => writer'[v].read.seq = row'[writer'[v].name].seq
      BY DEF ReadsAgree
  <2>1. CASE v = w
      BY <1>1, <2>1
  <2>2. CASE v # w
      BY <1>1, <2>2 DEF NumbersInv, ReadsAgree
  <2>3. QED
      BY <2>1, <2>2
<1>4. NumbersHold
    BY <1>1 DEF NumbersHold, NumbersInv, NumbersDiffer, HasRow
<1>5. QED
    BY <1>2, <1>3, <1>4 DEF NumbersInv

LEMMA FailNumbers ==
    ASSUME NumbersInv, NEW w \in RowWriters, WriteFails(w)
    PROVE  NumbersInv' /\ NumbersHold
<1>1. /\ UNCHANGED <<row, nextSeq>> /\ writer' = [writer EXCEPT ![w] = NoWriter]
      /\ row \in [Agents -> SomeRow] /\ nextSeq \in Nat
      /\ writer \in [RowWriters -> [name : Agents \cup {None}, read : SomeRow]]
    BY DEF WriteFails, tables, NumbersInv, RowsTyped
<1>2. NoWriter \in [name : Agents \cup {None}, read : SomeRow]
    BY DEF NoWriter, NoRow, SomeRow
<1>3. /\ writer' \in [RowWriters -> [name : Agents \cup {None}, read : SomeRow]]
      /\ \A v \in RowWriters : writer'[v] \in {writer[v], NoWriter}
    BY <1>1, <1>2
<1>4. SomeNumbersGiven
    BY <1>1, NothingGiven DEF SomeNumbersGiven
<1>5. QED
    BY <1>3, <1>4, NumbersStep

LEMMA GroupNumbers ==
    ASSUME NumbersInv, GroupNext
    PROVE  NumbersInv' /\ NumbersHold
<1>1. nextSeq \in Nat /\ row \in [Agents -> SomeRow]
    BY DEF NumbersInv, RowsTyped
<1>2. ASSUME NEW names, NEW g \in Groups \cup {None}, SetGroup(names, g)
      PROVE  row' \in [Agents -> SomeRow] /\ \A n \in Agents : row'[n].seq = row[n].seq
    BY <1>1, <1>2 DEF SetGroup, SomeRow
<1>3. ASSUME NEW u, NEW n \in Agents, RemoveFromGroup(u, n)
      PROVE  NumbersInv' /\ NumbersHold
  <2>1. UNCHANGED <<nextSeq, writer>> /\ SetGroup({n}, None)
      BY <1>3 DEF RemoveFromGroup, TakeOut
  <2>2. QED
      BY <1>2, <2>1, SameNumbers
<1>4. ASSUME NEW u, NEW g \in Groups, NEW n \in Agents, AssignGroup(u, g, n)
      PROVE  NumbersInv' /\ NumbersHold
  <2>1. /\ row' = [Numbered(row, {n}) EXCEPT ![n].group = IF row[n].deleted THEN @ ELSE g]
        /\ nextSeq' = NextSeqAfter({n}) /\ writer' = writer /\ {n} \in SUBSET Agents
        /\ writer \in [RowWriters -> [name : Agents \cup {None}, read : SomeRow]]
      BY <1>4 DEF AssignGroup, NumbersInv, RowsTyped
  <2>2. Numbered(row, {n}) \in [Agents -> SomeRow]
      BY <1>1, <2>1, NumberedTyped
  <2>3. row' \in [Agents -> SomeRow] /\ \A m \in Agents : row'[m].seq = Numbered(row, {n})[m].seq
      BY <2>1, <2>2 DEF SomeRow
  <2>4. SomeNumbersGiven
      BY <1>1, <2>1, <2>3, NumberedGives DEF SomeNumbersGiven
  <2>5. QED
      BY <2>1, <2>4, NumbersStep
<1>5. ASSUME NEW g \in Groups, CreateGroup(g)
      PROVE  NumbersInv' /\ NumbersHold
    BY <1>1, <1>5, SameNumbers DEF CreateGroup
<1>6. ASSUME NEW g \in Groups, DeleteGroup(g)
      PROVE  NumbersInv' /\ NumbersHold
  <2>1. UNCHANGED <<nextSeq, writer>> /\ SetGroup(Members(g), None)
      BY <1>6 DEF DeleteGroup, TakeOut
  <2>2. QED
      BY <1>2, <2>1, SameNumbers
<1>7. ASSUME NEW g \in Groups, NEW h \in Groups, RenameGroup(g, h)
      PROVE  NumbersInv' /\ NumbersHold
  <2>1. UNCHANGED <<nextSeq, writer>> /\ SetGroup(Members(g), h)
      BY <1>7 DEF RenameGroup
  <2>2. QED
      BY <1>2, <2>1, SameNumbers
<1>8. QED
    BY <1>3, <1>4, <1>5, <1>6, <1>7 DEF GroupNext

LEMMA NumbersKeepOn == LimitsInv /\ NumbersInv /\ [RegistryNext]_registryVars => NumbersInv' /\ NumbersHold
<1> SUFFICES ASSUME LimitsInv, NumbersInv, [RegistryNext]_registryVars
             PROVE  NumbersInv' /\ NumbersHold
    OBVIOUS
<1>1. row \in [Agents -> SomeRow] /\ exists \subseteq Agents
    BY DEF NumbersInv, RowsTyped, LimitsInv, LimitsTyped
<1>2. UNCHANGED <<row, nextSeq, writer>> => NumbersInv' /\ NumbersHold
    BY <1>1, SameNumbers
<1>3. ASSUME NEW r \in Requests, DeployStep(r)
      PROVE  NumbersInv' /\ NumbersHold
  <2>1. Accept(r) \/ UNCHANGED <<row, nextSeq, writer>>
      BY <1>3 DEF DeployStep, Ask, ListExisting, Refuse, WorkerDone, tables
  <2>2. QED
      BY <1>2, <2>1, AcceptNumbers
<1>4. CASE WriterNext
    BY <1>1, <1>4, ReadNumbers, WriteNumbers, FailNumbers DEF WriterNext
<1>5. ASSUME NEW u, NEW n \in Agents, DeleteAgent(u, n)
      PROVE  NumbersInv' /\ NumbersHold
  <2>1. UNCHANGED <<nextSeq, writer>> /\ MarkedDeleted(n)
      BY <1>5 DEF DeleteAgent
  <2>2. row' \in [Agents -> SomeRow] /\ \A m \in Agents : row'[m].seq = row[m].seq
      BY <1>1, <2>1 DEF MarkedDeleted, SomeRow
  <2>3. QED
      BY <2>1, <2>2, SameNumbers
<1>6. CASE GroupNext
    BY <1>6, GroupNumbers
<1>7. CASE TeamNext
  <2>1. UNCHANGED <<row, nextSeq, writer>>
      BY <1>7 DEF TeamNext, AssignTeam, SetUserTeam, DeleteTeam, SetLimit
  <2>2. QED
      BY <1>2, <2>1
<1>8. CASE UNCHANGED registryVars
    BY <1>2, <1>8 DEF registryVars
<1>9. QED
    BY <1>3, <1>4, <1>5, <1>6, <1>7, <1>8 DEF RegistryNext, DeleteNext

\* Those charged for a request that is listed or running are owners or teams.
LEMMA SharedNamed ==
    ASSUME LimitsInv, NEW r \in Requests, request[r].at # "none", NEW at, "none" \notin at
    PROVE  Shared(r, at) \subseteq Owners \cup Teams
<1>1. request[r].user \in Owners /\ request[r].team \in Teams \cup {None}
    BY DEF LimitsInv, LimitsTyped, DeployRequest
<1>2. Charged(r) \subseteq Owners \cup Teams
    BY <1>1 DEF Charged, LimitsInv, LimitsTyped
<1>3. QED
    BY <1>2 DEF Shared

LEMMA OthersKeepOn == LimitsInv /\ OthersTyped /\ [RegistryNext]_registryVars => OthersTyped'
<1> SUFFICES ASSUME LimitsInv, OthersTyped, [RegistryNext]_registryVars
             PROVE  OthersTyped'
    OBVIOUS
<1>1. /\ groups \subseteq Groups /\ limit \in [Owners \cup Teams -> Limits] /\ excused \subseteq Owners \cup Teams
      /\ request \in [Requests -> DeployRequest]
    BY DEF OthersTyped, LimitsInv, LimitsTyped
<1>2. UNCHANGED <<groups, limit, excused>> => OthersTyped'
    BY <1>1 DEF OthersTyped
<1>3. ASSUME NEW r \in Requests, DeployStep(r)
      PROVE  OthersTyped'
  <2>1. ASSUME NEW u \in Owners, NEW names \in SUBSET Agents, NEW g \in Groups, Ask(r, u, names, g)
        PROVE  OthersTyped'
      BY <1>1, <2>1 DEF Ask, OthersTyped
  <2>2. CASE ListExisting(r)
    <3>1. Shared(r, {"running"}) \subseteq Owners \cup Teams
        BY <2>2, SharedNamed DEF ListExisting
    <3>2. QED
        BY <1>1, <2>2, <3>1 DEF ListExisting, tables, OthersTyped
  <2>3. CASE Accept(r)
    <3>1. request[r].at = "listed" /\ UsersOf(r) \subseteq Owners \cup Teams
        BY <2>3, UsersNamed DEF Accept, LimitsInv
    <3>2. Shared(r, {"listed", "running"}) \subseteq Owners \cup Teams
        BY <3>1, SharedNamed
    <3>3. {request[r].team} \ {None} \subseteq UsersOf(r) /\ {request[r].user, request[r].team} \ {None} = UsersOf(r)
        BY DEF UsersOf
    <3>4. excused' \subseteq excused \cup Shared(r, {"listed", "running"}) \cup UsersOf(r)
        BY <2>3, <3>3 DEF Accept
    <3>5. QED
        BY <1>1, <2>3, <3>1, <3>2, <3>4 DEF Accept, OthersTyped
  <2>4. CASE Refuse(r)
      BY <1>2, <2>4 DEF Refuse, tables
  <2>5. ASSUME NEW n \in Agents, WorkerDone(r, n)
        PROVE  OthersTyped'
      BY <1>2, <2>5 DEF WorkerDone, tables
  <2>6. QED
      BY <1>3, <2>1, <2>2, <2>3, <2>4, <2>5 DEF DeployStep
<1>4. CASE WriterNext \/ DeleteNext
    BY <1>2, <1>4 DEF WriterNext, ReadRow, WriteRow, WriteFails, DeleteNext, DeleteAgent, tables
<1>5. CASE GroupNext
    BY <1>1, <1>5 DEF GroupNext, RemoveFromGroup, AssignGroup, CreateGroup, DeleteGroup, RenameGroup, OthersTyped
<1>6. CASE TeamNext
  <2>1. ASSUME NEW p \in Owners \cup Teams, NEW l \in Limits, SetLimit(p, l)
        PROVE  OthersTyped'
      BY <1>1, <2>1 DEF SetLimit, OthersTyped
  <2>2. ASSUME NEW t \in Teams \cup {None}, NEW n \in Agents, AssignTeam(n, t)
        PROVE  OthersTyped'
      BY <1>1, <2>2 DEF AssignTeam, OthersTyped
  <2>3. QED
      BY <1>2, <1>6, <2>1, <2>2 DEF TeamNext, SetUserTeam, DeleteTeam
<1>7. CASE UNCHANGED registryVars
    BY <1>2, <1>7 DEF registryVars
<1>8. QED
    BY <1>3, <1>4, <1>5, <1>6, <1>7 DEF RegistryNext

RegistryInv == LimitsInv /\ NumbersInv /\ OthersTyped

\* No number is above the number of names.
LEMMA RegistryTyped == RegistryInv => RegistryTypeOK
<1> SUFFICES ASSUME RegistryInv PROVE RegistryTypeOK
    OBVIOUS
<1>1. /\ IsFiniteSet({a \in Agents : HasRow(a)}) /\ Cardinality({a \in Agents : HasRow(a)}) \in Nat
      /\ Cardinality(Agents) \in Nat
      /\ Cardinality({a \in Agents : HasRow(a)}) <= Cardinality(Agents)
    BY FS_Subset, FS_CardinalityType, AgentsAreFinite
<1>2. nextSeq \in Nat /\ nextSeq # 0 /\ nextSeq = 1 + Cardinality({a \in Agents : HasRow(a)})
    BY DEF RegistryInv, NumbersInv, RowsTyped, NumbersDiffer
<1>3. nextSeq \in 1 .. Cardinality(Agents) + 1
    BY <1>1, <1>2
<1>4. ASSUME NEW n \in Agents PROVE row[n] \in AgentRow
  <2>1. row[n] \in SomeRow /\ row[n].seq < nextSeq
      BY DEF RegistryInv, NumbersInv, RowsTyped, NumbersDiffer
  <2>2. row[n].seq \in 0 .. Cardinality(Agents)
      BY <1>1, <1>2, <2>1 DEF SomeRow
  <2>3. QED
      BY <2>1, <2>2 DEF SomeRow, AgentRow
<1>5. row \in [Agents -> AgentRow]
    BY <1>4 DEF RegistryInv, NumbersInv, RowsTyped
<1>6. ASSUME NEW w \in RowWriters
      PROVE  writer[w] \in [name : Agents \cup {None}, read : AgentRow]
  <2>1. writer[w] \in [name : Agents \cup {None}, read : SomeRow] /\ writer[w].read \in SomeRow
      BY DEF RegistryInv, NumbersInv, RowsTyped
  <2>2. writer[w].read.seq \in 0 .. Cardinality(Agents)
    <3>1. CASE writer[w] = NoWriter
        BY <1>1, <3>1 DEF NoWriter, NoRow
    <3>2. CASE writer[w] # NoWriter /\ writer[w].read.seq # 0
      <4>1. writer[w].read.seq = row[writer[w].name].seq /\ writer[w].name \in Agents
          BY <3>2 DEF RegistryInv, NumbersInv, ReadsAgree
      <4>2. QED
          BY <4>1, <1>4 DEF AgentRow
    <3>3. CASE writer[w].read.seq = 0
        BY <1>1, <3>3
    <3>4. QED
        BY <3>1, <3>2, <3>3
  <2>3. writer[w].read \in AgentRow
      BY <2>1, <2>2 DEF SomeRow, AgentRow
  <2>4. QED
      BY <2>1, <2>3
<1>7. writer \in [RowWriters -> [name : Agents \cup {None}, read : AgentRow]]
    BY <1>6 DEF RegistryInv, NumbersInv, RowsTyped
<1>8. QED
    BY <1>3, <1>5, <1>7 DEF RegistryTypeOK, RegistryInv, LimitsInv, LimitsTyped, OthersTyped

LEMMA RegistryAlways == RegistrySpec => []RegistryInv
<1>1. RegistryInit => RegistryInv
    BY LimitsAtFirst, NumbersAtFirst DEF RegistryInv, OthersTyped, RegistryInit
<1>2. RegistryInv /\ [RegistryNext]_registryVars => RegistryInv'
    BY LimitsKeepOn, NumbersKeepOn, OthersKeepOn DEF RegistryInv
<1>3. QED
    BY <1>1, <1>2, PTL DEF RegistrySpec

THEOREM NumbersForEver == RegistrySpec => NumbersStay
<1>1. RegistryInv /\ [RegistryNext]_registryVars => [NumbersHold]_registryVars
    BY NumbersKeepOn DEF RegistryInv
<1>2. RegistrySpec => [][NumbersHold]_registryVars
    BY <1>1, RegistryAlways, PTL DEF RegistrySpec
<1>3. QED
    BY <1>2 DEF NumbersStay, NumbersHold

-----------------------------------------------------------------------------
(* Upgrades. *)

Upgrading(p) == process[p].at \in {"up", "saved up"}

\* A process goes by the release installed, through the versions it has set itself.
KnowsWay(r, release, kept) ==
    /\ r.at # "down" => r.release = release
    /\ r.at \in {"up", "saved up"} => 1 <= r.first /\ r.first <= r.last /\ r.last = r.release
    /\ r.at \in {"down to", "saved down"} => 1 <= r.last /\ r.last < r.first
    /\ r.file <= kept

KnowsItsWay == \A p \in Processes : KnowsWay(process[p], installed, Len(copies))

\* The database and its copies are what their versions say.
AllKnown ==
    /\ db.applied = 1 .. db.version
    /\ \A i \in 1 .. Len(copies) : copies[i].applied = 1 .. copies[i].version

\* Who undoes anything works alone, and while no server serves; also who fills an empty database.
WorksAlone ==
    /\ \A p, q \in Processes : Undoing(p) /\ AtWork(q) => p = q
    /\ db.version = 0 => \A p, q \in Processes : AtWork(p) /\ AtWork(q) => p = q
    /\ process[Server].at = "serving" =>
          db.version = process[Server].release /\ \A p \in Processes : ~Undoing(p)

\* The next migration of an upgrade is the next of the database, or another process has applied it.
NextOrApplied == \A p \in Processes :
    /\ Upgrading(p) => /\ process[p].first <= db.version + 1
                       /\ process[p].first = 1 => db.version = 0
    /\ process[p].at \in {"down to", "saved down"} => process[p].first = db.version

Unmixed == AllKnown /\ WorksAlone /\ NextOrApplied

UpgradeInv == UpgradeTypeOK /\ KnowsItsWay /\ (mixed = FALSE => Unmixed)

USE KeepCopiesType

LEMMA LatestIsLast == Latest \in Nat \ {0} /\ \A r \in Releases : r \in 1 .. Latest
<1>1. Latest \in Releases /\ \A q \in Releases : q <= Latest
  BY LatestExists DEF Latest
<1> QED  BY <1>1, ReleasesType

LEMMA Versions ==
    ASSUME UpgradeTypeOK
    PROVE  /\ db.version \in Nat /\ db.version <= Latest /\ db.applied \subseteq 1 .. Latest
           /\ \A p \in Processes : process[p] \in Process /\ process[p].first \in Nat /\ process[p].last \in 0 .. Latest
<1>1. Latest \in Nat
  BY LatestIsLast
<1>2. db \in Database /\ \A p \in Processes : process[p] \in Process
  BY DEF UpgradeTypeOK
<1>3. db.version \in Nat /\ db.version <= Latest /\ db.applied \subseteq 1 .. Latest
  BY <1>1, <1>2 DEF Database
<1>4. ASSUME NEW r \in Process PROVE r.first \in Nat /\ r.last \in 0 .. Latest
  <2>1. r.first \in 0 .. Latest /\ r.last \in 0 .. Latest
    BY <1>4 DEF Process
  <2> QED  BY <1>1, <2>1
<1> QED  BY <1>2, <1>3, <1>4

LEMMA DownType == Down \in Process /\ Down.at = "down" /\ Down.file = 0
BY LatestIsLast DEF Down, Process, Gone

\* A copy is put before the others, and the oldest may go.
LEMMA CopyFacts ==
    ASSUME UpgradeTypeOK, NEW processes \in [Processes -> Process], Copy(processes),
           \A p \in Processes : processes[p].file <= Len(copies)
    PROVE  /\ copies' \in Seq(Database) /\ Len(copies') <= KeepCopies
           /\ \A i \in 1 .. Len(copies') : copies'[i] = db \/ \E j \in 1 .. Len(copies) : copies'[i] = copies[j]
           /\ process' \in [Processes -> Process]
           /\ \A p \in Processes :
                 /\ process'[p].at = processes[p].at /\ process'[p].release = processes[p].release
                 /\ process'[p].first = processes[p].first /\ process'[p].last = processes[p].last
                 /\ process'[p].file <= Len(copies')
<1> DEFINE all == <<db>> \o copies
           n == IF Len(all) < KeepCopies THEN Len(all) ELSE KeepCopies
<1>1. all \in Seq(Database) /\ Len(all) = Len(copies) + 1
  BY DEF UpgradeTypeOK
<1>2. \A i \in 1 .. Len(all) : all[i] = IF i = 1 THEN db ELSE copies[i - 1]
  BY DEF UpgradeTypeOK
<1>3. n \in 1 .. Len(all) /\ n <= KeepCopies
  BY <1>1
<1>4. copies' = SubSeq(all, 1, n)
  BY DEF Copy
<1>5. copies' \in Seq(Database) /\ Len(copies') = n /\ \A i \in 1 .. n : copies'[i] = all[i]
  <2> HIDE DEF all, n
  <2> QED  BY <1>1, <1>3, <1>4
<1>6. \A i \in 1 .. Len(copies') : copies'[i] = db \/ \E j \in 1 .. Len(copies) : copies'[i] = copies[j]
  <2> SUFFICES ASSUME NEW i \in 1 .. n, i # 1 PROVE copies'[i] = copies[i - 1] /\ i - 1 \in 1 .. Len(copies)
    BY <1>2, <1>3, <1>5
  <2> HIDE DEF n
  <2> QED  BY <1>1, <1>2, <1>3, <1>5
<1>7. ASSUME NEW p \in Processes
      PROVE  /\ process'[p] \in Process
             /\ process'[p].at = processes[p].at /\ process'[p].release = processes[p].release
             /\ process'[p].first = processes[p].first /\ process'[p].last = processes[p].last
             /\ process'[p].file <= Len(copies')
  <2>1. process'[p] = [processes[p] EXCEPT !.file = IF Kept(@) THEN @ + 1 ELSE Gone]
    BY DEF Copy
  <2>2. processes[p] \in Process
    OBVIOUS
  <2>3. processes[p].file \in 0 .. KeepCopies /\ processes[p].file <= Len(copies)
    BY <2>2 DEF Process
  <2> DEFINE file == IF Kept(processes[p].file) THEN processes[p].file + 1 ELSE Gone
  <2>4. file \in 0 .. KeepCopies /\ file <= n
    BY <1>1, <2>3 DEF Kept, Gone, UpgradeTypeOK
  <2> HIDE DEF n, file
  <2>5. [processes[p] EXCEPT !.file = file] \in Process
    BY <2>2, <2>4 DEF Process
  <2> QED  BY <1>5, <2>1, <2>2, <2>4, <2>5 DEF file, Process
<1>8. process' \in [Processes -> Process]
  BY <1>7 DEF Copy
<1> QED  BY <1>3, <1>5, <1>6, <1>7, <1>8

\* A process that goes on without working yet, or ends
LEMMA IdleKeeps ==
    ASSUME UpgradeInv, NEW p \in Processes, NEW r \in Process, KnowsWay(r, installed, Len(copies)),
           process' = [process EXCEPT ![p] = r], UNCHANGED <<db, copies, installed, mixed>>,
           r.at \in {"down", "begun"}
    PROVE  UpgradeInv'
<1> USE DEF UpgradeInv
<1>1. UpgradeTypeOK' /\ \A q \in Processes : process'[q] = IF q = p THEN r ELSE process[q]
  BY DEF UpgradeTypeOK
<1>2. KnowsItsWay'
  BY <1>1 DEF KnowsItsWay
<1>3. ASSUME Unmixed PROVE Unmixed'
  <2>1. AllKnown' /\ NextOrApplied'
    BY <1>1, <1>3 DEF Unmixed, AllKnown, NextOrApplied, Upgrading
  <2>2. \A q \in Processes : AtWork(q)' => AtWork(q) /\ process'[q] = process[q]
    BY <1>1 DEF AtWork
  <2>3. \A q \in Processes : Undoing(q)' => Undoing(q)
    BY <1>1 DEF Undoing
  <2>4. process'[Server].at = "serving" => process'[Server] = process[Server]
    BY <1>1 DEF Processes
  <2> QED  BY <1>3, <2>1, <2>2, <2>3, <2>4 DEF Unmixed, WorksAlone
<1> QED  BY <1>1, <1>2, <1>3

\* What is so when p has come and nothing is mixed yet: nobody else is at work, or only
\* upgrades of a database that is not empty, and p is one of those or is to serve.
LEMMA MixesTells ==
    ASSUME UpgradeTypeOK, NEW p \in Processes, Mixes(p, FALSE) \/ Mixes(p, TRUE)
    PROVE  /\ mixed' \in BOOLEAN
           /\ mixed' = FALSE => mixed = FALSE
           /\ mixed' = FALSE => \A q \in Others(p) : AtWork(q) => ~Undoing(q) /\ db.version # 0
           /\ mixed' = FALSE /\ Mixes(p, TRUE) => \A q \in Others(p) : ~AtWork(q)
<1>1. mixed \in BOOLEAN
  BY DEF UpgradeTypeOK
<1>2. CASE Mixes(p, FALSE) /\ ~Mixes(p, TRUE)
  BY <1>1, <1>2, Zenon DEF Mixes
<1>3. CASE Mixes(p, TRUE)
  BY <1>1, <1>3, Zenon DEF Mixes
<1> QED  BY <1>2, <1>3

LEMMA TypedNext == UpgradeTypeOK' => \A q \in Processes : process'[q].first \in Nat
<1>1. \A r \in Process : r.first \in 0 .. Latest
  BY DEF Process
<1> QED  BY <1>1, LatestIsLast DEF UpgradeTypeOK

LEMMA NextNumber == \A m, v \in Nat : m = v + 1 => m <= v + 1 /\ (m = 1 => v = 0)
OBVIOUS

LEMMA NextIsNext ==
    ASSUME NextOrApplied, NEW p \in Processes, NEW r, db.version \in Nat, db' = db,
           \A q \in Processes : process'[q].first \in Nat,
           \A q \in Processes : process'[q] = IF q = p THEN r ELSE process[q],
           r.at \in {"up", "saved up"} => r.first = db.version + 1,
           r.at \in {"down to", "saved down"} => r.first = db.version
    PROVE  NextOrApplied'
<1>0. \A q \in Processes : process'[q].at \in {"down to", "saved down"} => process'[q].first = db.version
  BY DEF NextOrApplied
<1> SUFFICES ASSUME NEW q \in Processes, process'[q].at \in {"up", "saved up"}
             PROVE  process'[q].first <= db.version + 1 /\ (process'[q].first = 1 => db.version = 0)
  BY <1>0 DEF NextOrApplied, Upgrading
<1>1. CASE q = p
  <2>1. process'[q].first = db.version + 1
    BY <1>1
  <2> QED  BY <2>1, NextNumber, Zenon
<1>2. CASE q # p
  BY <1>2 DEF NextOrApplied, Upgrading
<1> QED  BY <1>1, <1>2

\* A process comes to work, or to serve.
LEMMA WorkBegins ==
    ASSUME UpgradeInv, NEW p \in Processes, NEW r \in Process, KnowsWay(r, installed, Len(copies)), ~AtWork(p),
           process' = [process EXCEPT ![p] = r], UNCHANGED <<db, copies, installed>>,
           mixed' \in BOOLEAN,
           mixed' = FALSE => mixed = FALSE /\ \A q \in Others(p) : AtWork(q) => ~Undoing(q) /\ db.version # 0,
           \/ r.at = "up" /\ r.first = db.version + 1
           \/ p = Server /\ r.at = "serving" /\ db.version = r.release
           \/ /\ r.at = "restore" \/ (r.at = "down to" /\ r.first = db.version)
              /\ LockIsFree /\ p # Server
              /\ mixed' = FALSE => \A q \in Others(p) : ~AtWork(q)
    PROVE  UpgradeInv'
<1> USE DEF UpgradeInv
<1>1. \A q \in Processes : process'[q] = IF q = p THEN r ELSE process[q]
  BY DEF UpgradeTypeOK
<1>3. UpgradeTypeOK'
  BY DEF UpgradeTypeOK
<1>4. KnowsItsWay'
  BY <1>1 DEF KnowsItsWay
<1>5. ASSUME mixed' = FALSE PROVE Unmixed'
  <2>1. /\ Unmixed
        /\ \A q \in Processes : AtWork(q) => q # p /\ ~Undoing(q) /\ db.version # 0
        /\ r.at \in {"down to", "restore"} => \A q \in Processes : ~AtWork(q)
    BY <1>5 DEF Others
  <2>2. AllKnown'
    BY <2>1 DEF Unmixed, AllKnown
  <2>3. NextOrApplied'
    <3>1. /\ r.at \in {"up", "saved up"} => r.first = db.version + 1
          /\ r.at \in {"down to", "saved down"} => r.first = db.version
      OBVIOUS
    <3>2. db.version \in Nat
      BY Versions
    <3>3. \A q \in Processes : process'[q].first \in Nat
      BY <1>3, TypedNext
    <3> QED  BY <1>1, <2>1, <3>1, <3>2, <3>3, NextIsNext DEF Unmixed
  <2>4. \A q \in Processes : AtWork(q)' => q = p \/ AtWork(q)
    BY <1>1 DEF AtWork
  <2>5. \A q \in Processes : Undoing(q)' => q = p /\ r.at \in {"down to", "restore"}
    BY <1>1, <2>1 DEF Undoing, AtWork
  <2>6. ASSUME process'[Server].at = "serving"
        PROVE  db.version = process'[Server].release /\ \A q \in Processes : ~Undoing(q)'
    <3>1. CASE LockIsFree /\ p # Server
      <4>1. process'[Server] = process[Server] /\ process[Server].at = "down"
        BY <1>1, <3>1 DEF LockIsFree, Processes
      <4> QED  BY <2>6, <4>1
    <3>2. CASE p = Server /\ r.at = "serving" /\ db.version = r.release
      BY <1>1, <2>1, <2>5, <3>2 DEF Undoing
    <3>3. CASE r.at = "up"
      BY <1>1, <2>1, <2>5, <2>6, <3>3 DEF Unmixed, WorksAlone, Processes, Undoing
    <3> QED  BY <3>1, <3>2, <3>3
  <2>7. \A q, x \in Processes : (Undoing(q) /\ AtWork(x))' => q = x
    BY <2>1, <2>4, <2>5
  <2>8. db.version = 0 => \A q, x \in Processes : (AtWork(q) /\ AtWork(x))' => q = x
    BY <2>1, <2>4
  <2>9. WorksAlone'
    BY <2>6, <2>7, <2>8 DEF WorksAlone
  <2> QED  BY <2>2, <2>3, <2>9 DEF Unmixed
<1> QED  BY <1>3, <1>4, <1>5

LEMMA ReadVersionKeeps == ASSUME UpgradeInv, NEW p \in Processes, ReadVersion(p) PROVE UpgradeInv'
<1> DEFINE me == process[p]
<1>1. me \in Process /\ me.at = "begun" /\ me.release = installed /\ KnowsWay(me, installed, Len(copies)) /\ ~AtWork(p)
  BY DEF UpgradeInv, UpgradeTypeOK, KnowsItsWay, KnowsWay, AtWork, ReadVersion
<1>2. installed \in 1 .. Latest /\ db.version \in 0 .. Latest
  BY LatestIsLast DEF UpgradeInv, UpgradeTypeOK, Database
<1>3. ASSUME db.version < me.release, process' = [process EXCEPT ![p] = [@ EXCEPT !.at = "up", !.first = db.version + 1, !.last = me.release]],
             Mixes(p, FALSE), UNCHANGED <<db, copies, installed>>
      PROVE  UpgradeInv'
  <2> DEFINE r == [me EXCEPT !.at = "up", !.first = db.version + 1, !.last = me.release]
  <2>1. process' = [process EXCEPT ![p] = r] /\ Mixes(p, FALSE) /\ UNCHANGED <<db, copies, installed>>
    BY <1>3
  <2>2. /\ r.at = "up" /\ r.first = db.version + 1 /\ r.last = me.release
        /\ r.release = me.release /\ r.file = me.file
    BY <1>1 DEF Process
  <2>3. r \in Process
    <3>1. db.version + 1 \in 0 .. Latest /\ me.release \in 0 .. Latest
      BY <1>1, <1>2, <1>3, LatestIsLast
    <3> QED  BY <1>1, <3>1, Zenon DEF Process
  <2> HIDE DEF r
  <2>4. KnowsWay(r, installed, Len(copies))
    BY <1>1, <1>2, <1>3, <2>2 DEF KnowsWay
  <2> QED  BY <1>1, <2>1, <2>2, <2>3, <2>4, WorkBegins, MixesTells DEF UpgradeInv
<1>4. ASSUME db.version = me.release, p = Server, process' = Goes(p, "serving"), Mixes(p, FALSE),
             UNCHANGED <<db, copies, installed>>
      PROVE  UpgradeInv'
  <2> DEFINE r == [me EXCEPT !.at = "serving"]
  <2>1. process' = [process EXCEPT ![p] = r] /\ Mixes(p, FALSE) /\ UNCHANGED <<db, copies, installed>>
    BY <1>4 DEF Goes
  <2>2. r \in Process /\ KnowsWay(r, installed, Len(copies)) /\ r.at = "serving" /\ db.version = r.release
    BY <1>1, <1>4 DEF Process, KnowsWay
  <2> HIDE DEF r
  <2> QED  BY <1>1, <1>4, <2>1, <2>2, WorkBegins, MixesTells DEF UpgradeInv
<1>5. CASE process' = Ends(p) /\ UNCHANGED <<mixed, db, copies, installed>>
  <2>1. KnowsWay(Down, installed, Len(copies))
    BY DownType DEF KnowsWay, UpgradeInv, UpgradeTypeOK
  <2> QED  BY <1>5, <2>1, DownType, IdleKeeps DEF Ends
<1> QED  BY <1>3, <1>4, <1>5 DEF ReadVersion

LEMMA BeginsKeep == ASSUME UpgradeInv, ServerStarts \/ \E p \in Commands : CommandBegins(p) PROVE UpgradeInv'
<1> DEFINE r == [Down EXCEPT !.at = "begun", !.release = installed]
<1>1. PICK p \in Processes : process' = [process EXCEPT ![p] = r] /\ UNCHANGED <<db, copies, installed, mixed>>
  BY DEF ServerStarts, CommandBegins, Processes
<1>2. r.at = "begun" /\ r.release = installed /\ r.file = 0
  BY DEF Down, Gone
<1>3. r \in Process
  BY DownType DEF UpgradeInv, UpgradeTypeOK, Process
<1> HIDE DEF r
<1>4. KnowsWay(r, installed, Len(copies))
  BY <1>2 DEF KnowsWay, UpgradeInv, UpgradeTypeOK
<1> QED  BY <1>1, <1>2, <1>3, <1>4, IdleKeeps

LEMMA AsksKeep ==
    ASSUME UpgradeInv, NEW p \in Commands,
           \/ \E v \in 1 .. Latest : AskDowngrade(p, v)
           \/ \E i \in 1 .. Len(copies) : AskRestore(p, i)
    PROVE  UpgradeInv'
<1> DEFINE me == process[p]
<1>1. p \in Processes /\ me \in Process /\ me.at = "begun" /\ me.release = installed /\ KnowsWay(me, installed, Len(copies)) /\ ~AtWork(p)
  BY DEF UpgradeInv, UpgradeTypeOK, KnowsItsWay, KnowsWay, AtWork, AskDowngrade, AskRestore, Processes
<1>2. db.version \in 0 .. Latest /\ Len(copies) \in 0 .. KeepCopies
  BY DEF UpgradeInv, UpgradeTypeOK, Database
<1>3. ASSUME NEW v \in 1 .. Latest, AskDowngrade(p, v) PROVE UpgradeInv'
  <2> DEFINE r == [me EXCEPT !.at = "down to", !.first = db.version, !.last = v]
  <2>1. /\ process' = [process EXCEPT ![p] = r] /\ Mixes(p, TRUE) /\ UNCHANGED <<db, copies, installed>>
        /\ LockIsFree /\ p # Server
    BY <1>3 DEF AskDowngrade
  <2>2. /\ r.at = "down to" /\ r.first = db.version /\ r.last = v
        /\ r.release = me.release /\ r.file = me.file
    BY <1>1 DEF Process
  <2>3. r \in Process
    <3>1. db.version \in 0 .. Latest /\ v \in 0 .. Latest
      BY <1>2, LatestIsLast
    <3> QED  BY <1>1, <3>1, Zenon DEF Process
  <2> HIDE DEF r
  <2>4. KnowsWay(r, installed, Len(copies))
    <3>1. v \in 1 .. db.version - 1
      BY <1>3, Zenon DEF AskDowngrade
    <3>2. 1 <= v /\ v < db.version
      BY <1>2, <3>1, LatestIsLast
    <3> QED  BY <1>1, <2>2, <3>2 DEF KnowsWay
  <2> QED  BY <1>1, <2>1, <2>2, <2>3, <2>4, WorkBegins, MixesTells DEF UpgradeInv
<1>4. ASSUME NEW i \in 1 .. Len(copies), AskRestore(p, i) PROVE UpgradeInv'
  <2> DEFINE r == [me EXCEPT !.at = "restore", !.file = i]
  <2>1. /\ process' = [process EXCEPT ![p] = r] /\ Mixes(p, TRUE) /\ UNCHANGED <<db, copies, installed>>
        /\ LockIsFree /\ p # Server
    BY <1>4 DEF AskRestore
  <2>2. r.at = "restore" /\ r.release = me.release /\ r.file = i
    BY <1>1 DEF Process
  <2>3. r \in Process
    <3>1. i \in 0 .. KeepCopies
      BY <1>2
    <3> QED  BY <1>1, <3>1, Zenon DEF Process
  <2> HIDE DEF r
  <2>4. KnowsWay(r, installed, Len(copies))
    BY <1>1, <1>2, <2>2 DEF KnowsWay
  <2> QED  BY <1>1, <2>1, <2>2, <2>3, <2>4, WorkBegins, MixesTells DEF UpgradeInv
<1> QED  BY <1>3, <1>4

\* A copy is made, and every process stays at work, or ends.
LEMMA CopyKeeps ==
    ASSUME UpgradeInv, NEW processes \in [Processes -> Process], Copy(processes),
           db' \in Database, UNCHANGED <<installed, mixed>>,
           \A p \in Processes : KnowsWay(processes[p], installed, Len(copies))
    PROVE  /\ UpgradeTypeOK' /\ KnowsItsWay'
           /\ AllKnown /\ db'.applied = 1 .. db'.version => AllKnown'
<1>1. \A p \in Processes : processes[p].file <= Len(copies)
  BY DEF KnowsWay
<1>2. /\ copies' \in Seq(Database) /\ Len(copies') <= KeepCopies
      /\ \A i \in 1 .. Len(copies') : copies'[i] = db \/ \E j \in 1 .. Len(copies) : copies'[i] = copies[j]
      /\ process' \in [Processes -> Process]
      /\ \A p \in Processes :
            /\ process'[p].at = processes[p].at /\ process'[p].release = processes[p].release
            /\ process'[p].first = processes[p].first /\ process'[p].last = processes[p].last
            /\ process'[p].file <= Len(copies')
  BY <1>1, CopyFacts DEF UpgradeInv
<1>3. UpgradeTypeOK'
  BY <1>2 DEF UpgradeInv, UpgradeTypeOK
<1>4. KnowsItsWay'
  BY <1>2 DEF KnowsItsWay, KnowsWay
<1>5. AllKnown /\ db'.applied = 1 .. db'.version => AllKnown'
  BY <1>2 DEF AllKnown
<1> QED  BY <1>3, <1>4, <1>5

LEMMA SaveFirstKeeps == ASSUME UpgradeInv, NEW p \in Processes, SaveFirst(p) PROVE UpgradeInv'
<1> DEFINE me == process[p]
           r == [me EXCEPT !.at = IF me.at = "up" THEN "saved up" ELSE "saved down"]
           saved == Goes(p, IF process[p].at = "up" THEN "saved up" ELSE "saved down")
<1> USE DEF UpgradeInv
<1>1. me \in Process /\ me.at \in {"up", "down to"} /\ UNCHANGED <<db, installed, mixed>>
      /\ (Copy(saved) \/ (process' = saved /\ UNCHANGED copies))
  <2>1. me \in Process
    BY DEF UpgradeTypeOK
  <2>2. me.at \in {"up", "down to"} /\ UNCHANGED <<db, installed, mixed>>
    BY DEF SaveFirst
  <2>3. Copy(saved) \/ (process' = saved /\ UNCHANGED copies)
    BY Zenon DEF SaveFirst
  <2> QED  BY <2>1, <2>2, <2>3
<1>2. /\ r.at = (IF me.at = "up" THEN "saved up" ELSE "saved down") /\ r.release = me.release
      /\ r.first = me.first /\ r.last = me.last /\ r.file = me.file
      /\ r \in Process
  BY <1>1 DEF Process
<1> HIDE DEF r
<1>3. saved = [process EXCEPT ![p] = r]
  BY DEF Goes, r
<1> HIDE DEF saved
<1>4. saved \in [Processes -> Process] /\ \A q \in Processes : saved[q] = IF q = p THEN r ELSE process[q]
  BY <1>2, <1>3 DEF UpgradeTypeOK
<1>5. KnowsWay(r, installed, Len(copies))
  BY <1>1, <1>2 DEF KnowsItsWay, KnowsWay
<1>6. \A q \in Processes : KnowsWay(saved[q], installed, Len(copies))
  BY <1>4, <1>5 DEF KnowsItsWay
<1>7. /\ UpgradeTypeOK' /\ KnowsItsWay'
      /\ AllKnown => AllKnown'
      /\ \A q \in Processes : process'[q].at = saved[q].at /\ process'[q].first = saved[q].first
                              /\ process'[q].release = saved[q].release
  <2>1. CASE Copy(saved)
    <3>1. \A q \in Processes : saved[q].file <= Len(copies)
      BY <1>6 DEF KnowsWay
    <3>2. AllKnown => db'.applied = 1 .. db'.version
      BY <1>1 DEF AllKnown
    <3> QED  BY <1>1, <1>4, <1>6, <2>1, <3>1, <3>2, CopyKeeps, CopyFacts DEF UpgradeTypeOK
  <2>2. CASE process' = saved /\ UNCHANGED copies
    BY <1>1, <1>4, <1>6, <2>2 DEF UpgradeTypeOK, KnowsItsWay, AllKnown
  <2> QED  BY <1>1, <2>1, <2>2
<1>8. ASSUME Unmixed PROVE Unmixed'
  <2>1. \A q \in Processes : /\ Upgrading(q)' <=> Upgrading(q)
                             /\ Undoing(q)' <=> Undoing(q)
                             /\ AtWork(q)' <=> AtWork(q)
                             /\ process'[q].at = "serving" <=> process[q].at = "serving"
                             /\ process'[q].first = process[q].first /\ process'[q].release = process[q].release
                             /\ process'[q].at \in {"down to", "saved down"} => process[q].at \in {"down to", "saved down"}
    <3> SUFFICES ASSUME NEW q \in Processes
                 PROVE  /\ Upgrading(q)' <=> Upgrading(q)
                        /\ Undoing(q)' <=> Undoing(q)
                        /\ AtWork(q)' <=> AtWork(q)
                        /\ process'[q].at = "serving" <=> process[q].at = "serving"
                        /\ process'[q].first = process[q].first /\ process'[q].release = process[q].release
                        /\ process'[q].at \in {"down to", "saved down"} => process[q].at \in {"down to", "saved down"}
      OBVIOUS
    <3>1. CASE q = p
      <4>1. /\ process'[q].at = r.at /\ process'[q].first = process[q].first
            /\ process'[q].release = process[q].release
        BY <1>2, <1>4, <1>7, <3>1
      <4>2. CASE me.at = "up"
        BY <1>2, <3>1, <4>1, <4>2 DEF Upgrading, Undoing, AtWork
      <4>3. CASE me.at = "down to"
        BY <1>2, <3>1, <4>1, <4>3 DEF Upgrading, Undoing, AtWork
      <4> QED  BY <1>1, <4>2, <4>3
    <3>2. CASE q # p
      BY <1>4, <1>7, <3>2 DEF Upgrading, Undoing, AtWork
    <3> QED  BY <3>1, <3>2
  <2>2. Server \in Processes
    BY DEF Processes
  <2>3. WorksAlone'
    BY <1>1, <1>8, <2>1, <2>2 DEF Unmixed, WorksAlone
  <2>4. NextOrApplied'
    BY <1>1, <1>8, <2>1 DEF Unmixed, NextOrApplied
  <2> QED  BY <1>7, <1>8, <2>3, <2>4 DEF Unmixed
<1> QED  BY <1>1, <1>7, <1>8

\* An upgrade's next migration is the database's next one.
LEMMA StepUpKeeps == ASSUME UpgradeInv, NEW p \in Processes, StepUp(p) PROVE UpgradeInv'
<1> DEFINE me == process[p]
           m == me.first
           r == IF m < me.last THEN [me EXCEPT !.first = m + 1]
                ELSE IF p = Server THEN [me EXCEPT !.at = "serving"] ELSE Down
<1> USE DEF UpgradeInv
<1>1. /\ me \in Process /\ me.at = "saved up" /\ UNCHANGED <<copies, installed, mixed>>
      /\ (m \in db.applied => m \in Repeatable)
      /\ db' = Migrated(m) /\ process' = [process EXCEPT ![p] = r]
  BY DEF StepUp, UpgradeTypeOK
<1>2. /\ m \in 1 .. me.last /\ me.last = installed /\ me.release = installed /\ me.last \in 0 .. Latest
      /\ me.file <= Len(copies)
  <2>1. /\ 1 <= m /\ m <= me.last /\ me.last = me.release /\ me.release = installed
        /\ me.file <= Len(copies)
    BY <1>1 DEF KnowsItsWay, KnowsWay
  <2>2. m \in Nat /\ me.last \in 0 .. Latest /\ Latest \in Nat
    BY Versions, LatestIsLast
  <2> QED  BY <2>1, <2>2
<1>3. db' = [version |-> m, applied |-> db.applied \cup {m}] /\ db' \in Database
  <2>1. m \in 0 .. Latest /\ db.applied \cup {m} \in SUBSET (1 .. Latest)
    BY <1>2, Versions, LatestIsLast
  <2> QED  BY <1>1, <2>1 DEF Migrated, Database
<1>4. /\ r \in Process
      /\ \/ /\ r.at = "saved up" /\ m < me.last /\ r.first = m + 1 /\ r.last = me.last
            /\ r.release = me.release /\ r.file = me.file
         \/ /\ r.at = "serving" /\ p = Server /\ m = me.last
            /\ r.release = me.release /\ r.file = me.file
         \/ r = Down
  <2>1. CASE m < me.last
    <3>1. m + 1 \in 0 .. Latest
      BY <1>2, <2>1, LatestIsLast
    <3>2. [me EXCEPT !.first = m + 1] \in Process
      BY <1>1, <3>1, Zenon DEF Process
    <3>3. r = [me EXCEPT !.first = m + 1]
      BY <2>1
    <3> HIDE DEF r
    <3>4. r.at = "saved up" /\ r.first = m + 1 /\ r.last = me.last /\ r.release = me.release /\ r.file = me.file
      BY <1>1, <3>3 DEF Process
    <3> QED  BY <2>1, <3>2, <3>3, <3>4
  <2>2. CASE ~(m < me.last) /\ p = Server
    <3>1. m = me.last
      BY <1>2, <2>2, LatestIsLast
    <3>2. r = [me EXCEPT !.at = "serving"]
      BY <2>2
    <3> HIDE DEF r
    <3>3. r \in Process /\ r.at = "serving" /\ r.release = me.release /\ r.file = me.file
      BY <1>1, <3>2 DEF Process
    <3> QED  BY <2>2, <3>1, <3>3
  <2>3. CASE ~(m < me.last) /\ p # Server
    BY <2>3, DownType
  <2> QED  BY <2>1, <2>2, <2>3
<1> HIDE DEF r
<1>5. \A q \in Processes : process'[q] = IF q = p THEN r ELSE process[q]
  BY <1>1 DEF UpgradeTypeOK
<1>6. UpgradeTypeOK'
  BY <1>1, <1>3, <1>4 DEF UpgradeTypeOK
<1>7. KnowsItsWay'
  <2>1. m + 1 >= 1 /\ (m < me.last => m + 1 <= me.last)
    BY <1>2, LatestIsLast
  <2>2. KnowsWay(r, installed, Len(copies))
    <3>1. CASE r = Down
      BY <3>1, DownType DEF KnowsWay, UpgradeTypeOK
    <3>2. CASE r # Down
      BY <1>2, <1>4, <2>1, <3>2 DEF KnowsWay
    <3> QED  BY <3>1, <3>2
  <2> QED  BY <1>1, <1>5, <2>2 DEF KnowsItsWay
<1>8. ASSUME Unmixed PROVE Unmixed'
  <2>1. AtWork(p) /\ Upgrading(p) /\ ~Undoing(p) /\ m <= db.version + 1 /\ (m = 1 => db.version = 0)
        /\ db.applied = 1 .. db.version
    BY <1>1, <1>8 DEF AtWork, Upgrading, Undoing, Unmixed, NextOrApplied, AllKnown
  <2>2. m = db.version + 1
    <3>1. m \notin db.applied
      <4>1. m \in db.applied => m = 1
        BY <1>1, RepeatableFirst
      <4>2. m = 1 => db.applied = 1 .. 0
        BY <2>1
      <4> QED  BY <4>1, <4>2
    <3> QED  BY <1>2, <2>1, <3>1, Versions
  <2>3. AllKnown'
    <3>1. db'.version = db.version + 1 /\ db'.applied = (1 .. db.version) \cup {db.version + 1}
      BY <1>3, <2>1, <2>2
    <3>2. (1 .. db.version) \cup {db.version + 1} = 1 .. db.version + 1
      BY Versions
    <3> QED  BY <1>1, <1>8, <3>1, <3>2 DEF Unmixed, AllKnown
  <2>4. \A q \in Processes : ~Undoing(q)
    BY <1>8, <2>1 DEF Unmixed, WorksAlone
  <2>5. \A q \in Processes : ~Undoing(q)'
    BY <1>4, <1>5, <2>4, DownType DEF Undoing
  <2>6. process'[Server].at = "serving" => db'.version = process'[Server].release
    <3>1. Server \in Processes
      BY DEF Processes
    <3>2. CASE Server = p
      BY <1>2, <1>3, <1>4, <1>5, <3>2, DownType
    <3>3. CASE Server # p /\ process[Server].at = "serving"
      <4>1. db.version = installed
        BY <1>8, <3>1, <3>3 DEF Unmixed, WorksAlone, KnowsItsWay, KnowsWay
      <4> QED  BY <1>2, <2>2, <4>1, Versions
    <3> QED  BY <1>5, <3>1, <3>2, <3>3
  <2>7. db'.version # 0
    BY <1>2, <1>3
  <2>8. WorksAlone'
    BY <2>5, <2>6, <2>7 DEF WorksAlone
  <2>9. ASSUME NEW q \in Processes, Upgrading(q)'
        PROVE  process'[q].first <= db'.version + 1 /\ process'[q].first # 1
    <3>1. CASE q = p
      <4>1. process'[q].first = m + 1
        BY <1>4, <1>5, <2>9, <3>1, DownType DEF Upgrading
      <4> QED  BY <1>2, <1>3, <4>1
    <3>2. CASE q # p
      <4>1. Upgrading(q) /\ AtWork(q) /\ process'[q] = process[q]
        BY <1>5, <2>9, <3>2 DEF Upgrading, AtWork
      <4>2. db.version # 0
        BY <1>8, <2>1, <3>2, <4>1 DEF Unmixed, WorksAlone
      <4>3. process[q].first <= db.version + 1 /\ process[q].first # 1
        BY <1>8, <4>1, <4>2 DEF Unmixed, NextOrApplied
      <4> QED  BY <1>3, <2>2, <4>1, <4>3, Versions
    <3> QED  BY <3>1, <3>2
  <2>10. NextOrApplied'
    BY <2>5, <2>9 DEF NextOrApplied, Undoing
  <2> QED  BY <2>3, <2>8, <2>10 DEF Unmixed
<1> QED  BY <1>1, <1>6, <1>7, <1>8

\* Who undoes works alone, so that nobody else is at work when it is done.
LEMMA AloneKeeps ==
    ASSUME UpgradeInv, UpgradeTypeOK', Unmixed, NEW p \in Processes, Undoing(p), AllKnown',
           process[Server].at # "serving",
           \A q \in Processes : q # p => process'[q].at = process[q].at,
           \/ process'[p].at = "down"
           \/ process'[p].at = "saved down" /\ process'[p].first = db'.version /\ db'.version # 0
    PROVE  Unmixed'
<1>1. \A q \in Processes : AtWork(q) => q = p
  BY DEF Unmixed, WorksAlone
<1>2. \A q \in Processes : AtWork(q)' => q = p
  BY <1>1 DEF AtWork
<1>3. \A q \in Processes : ~Upgrading(q)'
  BY <1>1 DEF Upgrading, AtWork
<1>4. process'[Server].at # "serving"
  BY DEF Processes
<1>5. \A q \in Processes : Undoing(q)' => AtWork(q)'
  BY DEF Undoing, AtWork
<1>6. WorksAlone'
  BY <1>2, <1>4, <1>5 DEF WorksAlone
<1>7. NextOrApplied'
  BY <1>1, <1>3 DEF NextOrApplied, AtWork
<1> QED  BY <1>6, <1>7 DEF Unmixed

LEMMA StepDownKeeps == ASSUME UpgradeInv, NEW p \in Processes, StepDown(p) PROVE UpgradeInv'
<1> DEFINE me == process[p]
           m == me.first
           r == IF m - 1 > me.last THEN [me EXCEPT !.first = m - 1] ELSE Down
<1> USE DEF UpgradeInv
<1>1. /\ me \in Process /\ me.at = "saved down" /\ UNCHANGED <<copies, installed, mixed>>
      /\ m \in db.applied
      /\ db' = [version |-> m - 1, applied |-> db.applied \ {m}] /\ process' = [process EXCEPT ![p] = r]
  BY DEF StepDown, UpgradeTypeOK
<1>2. /\ m \in 2 .. Latest /\ me.last \in 1 .. m - 1 /\ me.release = installed
      /\ me.file <= Len(copies)
  <2>1. /\ 1 <= me.last /\ me.last < m /\ me.release = installed
        /\ me.file <= Len(copies)
    BY <1>1 DEF KnowsItsWay, KnowsWay
  <2>2. m \in 1 .. Latest /\ me.last \in 0 .. Latest /\ Latest \in Nat
    BY <1>1, Versions, LatestIsLast
  <2> QED  BY <2>1, <2>2
<1>3. m - 1 \in 1 .. Latest
  BY <1>2, LatestIsLast
<1>4. db' \in Database
  <2>1. m - 1 \in 0 .. Latest /\ db.applied \ {m} \in SUBSET (1 .. Latest)
    BY <1>3, Versions
  <2> QED  BY <1>1, <2>1 DEF Database
<1>5. \/ /\ r \in Process /\ r.at = "saved down" /\ r.first = m - 1 /\ r.last = me.last
         /\ r.release = me.release /\ r.file = me.file /\ me.last < m - 1
      \/ r = Down
  <2>1. CASE m - 1 > me.last
    <3>1. r = [me EXCEPT !.first = m - 1]
      BY <2>1
    <3>2. m - 1 \in 0 .. Latest /\ me.last < m - 1
      BY <1>2, <1>3, <2>1
    <3> HIDE DEF r
    <3>3. r \in Process
      BY <1>1, <3>1, <3>2, Zenon DEF Process
    <3>4. r.at = "saved down" /\ r.first = m - 1 /\ r.last = me.last /\ r.release = me.release /\ r.file = me.file
      BY <1>1, <3>1 DEF Process
    <3> QED  BY <3>2, <3>3, <3>4
  <2> QED  BY <2>1
<1> HIDE DEF r
<1>6. \A q \in Processes : process'[q] = IF q = p THEN r ELSE process[q]
  BY <1>1 DEF UpgradeTypeOK
<1>7. UpgradeTypeOK'
  BY <1>1, <1>4, <1>5, DownType DEF UpgradeTypeOK
<1>8. KnowsItsWay'
  <2>1. KnowsWay(r, installed, Len(copies))
    <3>1. CASE r = Down
      BY <3>1, DownType DEF KnowsWay, UpgradeTypeOK
    <3>2. CASE r # Down
      <4>1. 1 <= r.last /\ r.last < r.first
        <5>1. r.last = me.last /\ r.first = m - 1 /\ me.last < m - 1
          BY <1>5, <3>2
        <5> QED  BY <1>2, <5>1
      <4> QED  BY <1>2, <1>5, <3>2, <4>1 DEF KnowsWay
    <3> QED  BY <3>1, <3>2
  <2> QED  BY <1>1, <1>6, <2>1 DEF KnowsItsWay
<1>9. ASSUME Unmixed PROVE Unmixed'
  <2>1. Undoing(p)
    BY <1>1 DEF Undoing
  <2>2. process[Server].at # "serving"
    BY <1>9, <2>1 DEF Unmixed, WorksAlone
  <2>3. db.applied = 1 .. db.version /\ m = db.version
    BY <1>1, <1>9 DEF Unmixed, AllKnown, NextOrApplied
  <2>4. db'.version = m - 1 /\ db'.applied = (1 .. m) \ {m}
    BY <1>1, <2>3
  <2>5. (1 .. m) \ {m} = 1 .. m - 1
    BY <1>2, LatestIsLast
  <2>6. AllKnown'
    BY <1>1, <1>9, <2>4, <2>5 DEF Unmixed, AllKnown
  <2>7. db'.version # 0
    BY <1>3, <2>4
  <2>8. /\ \A q \in Processes : q # p => process'[q].at = process[q].at
        /\ \/ process'[p].at = "down"
           \/ process'[p].at = "saved down" /\ process'[p].first = db'.version
    BY <1>5, <1>6, <2>4, DownType
  <2> QED  BY <1>7, <1>9, <2>1, <2>2, <2>6, <2>7, <2>8, AloneKeeps
<1> QED  BY <1>1, <1>7, <1>8, <1>9

LEMMA RestoreKeeps == ASSUME UpgradeInv, NEW p \in Processes, Restore(p) PROVE UpgradeInv'
<1> DEFINE file == process[p].file
<1> USE DEF UpgradeInv
<1>1. process[p].at = "restore" /\ Copy(Ends(p)) /\ UNCHANGED <<installed, mixed>>
      /\ db' = IF Kept(file) THEN copies[file] ELSE db
  BY DEF Restore
<1>2. Ends(p) \in [Processes -> Process] /\ \A q \in Processes : Ends(p)[q] = IF q = p THEN Down ELSE process[q]
  BY DownType DEF Ends, UpgradeTypeOK
<1>3. \A q \in Processes : KnowsWay(Ends(p)[q], installed, Len(copies))
  <2>1. KnowsWay(Down, installed, Len(copies))
    BY DownType DEF KnowsWay, UpgradeTypeOK
  <2> QED  BY <1>2, <2>1 DEF KnowsItsWay
<1>4. Kept(file) => file \in 1 .. Len(copies)
  <2>1. file <= Len(copies)
    BY DEF KnowsItsWay, KnowsWay
  <2>2. Len(copies) \in Nat
    BY DEF UpgradeTypeOK
  <2> QED  BY <2>1, <2>2 DEF Kept
<1>5. db' \in Database /\ (AllKnown => db'.applied = 1 .. db'.version)
  BY <1>1, <1>4 DEF UpgradeTypeOK, AllKnown
<1>6. UpgradeTypeOK' /\ KnowsItsWay' /\ (AllKnown => AllKnown')
  BY <1>1, <1>2, <1>3, <1>5, CopyKeeps
<1>7. \A q \in Processes : process'[q].at = IF q = p THEN "down" ELSE process[q].at
  <2>1. \A q \in Processes : Ends(p)[q].file <= Len(copies)
    BY <1>3 DEF KnowsWay
  <2> QED  BY <1>1, <1>2, <2>1, CopyFacts, DownType
<1>8. ASSUME Unmixed PROVE Unmixed'
  <2>1. Undoing(p)
    BY <1>1 DEF Undoing
  <2>2. process[Server].at # "serving"
    BY <1>8, <2>1 DEF Unmixed, WorksAlone
  <2> QED  BY <1>6, <1>7, <1>8, <2>1, <2>2, AloneKeeps DEF Unmixed
<1> QED  BY <1>1, <1>6, <1>8

LEMMA FailsKeeps == ASSUME UpgradeInv, NEW p \in Processes, Fails(p) PROVE UpgradeInv'
<1>1. KnowsWay(Down, installed, Len(copies))
  BY DownType DEF KnowsWay, UpgradeInv, UpgradeTypeOK
<1> QED  BY <1>1, DownType, IdleKeeps DEF Fails, Ends

\* The release changes only while no process runs.
LEMMA InstallKeeps == ASSUME UpgradeInv, NEW r \in Releases, Install(r) PROVE UpgradeInv'
<1> USE DEF UpgradeInv, Install
<1>1. \A p \in Processes : process[p].at = "down"
  BY DownType DEF LockIsFree, Processes
<1>2. UpgradeTypeOK'
  BY DEF UpgradeTypeOK
<1>3. KnowsItsWay'
  BY <1>1 DEF KnowsItsWay, KnowsWay
<1>4. Unmixed => Unmixed'
  BY DEF Unmixed, AllKnown, WorksAlone, NextOrApplied, Undoing, AtWork, Upgrading
<1> QED  BY <1>2, <1>3, <1>4

LEMMA UpgradeStart == UpgradeInit => UpgradeInv
<1> SUFFICES ASSUME UpgradeInit PROVE UpgradeInv
  OBVIOUS
<1>1. PICK v \in 0 .. Latest : db = Schema(v)
  BY DEF UpgradeInit
<1>2. db \in Database /\ db.applied = 1 .. db.version
  BY <1>1, LatestIsLast DEF Schema, Database
<1>3. \A p \in Processes : process[p] = Down
  BY DEF UpgradeInit
<1>4. UpgradeTypeOK
  <2>1. copies \in Seq(Database) /\ Len(copies) = 0
    BY DEF UpgradeInit
  <2>2. process \in [Processes -> Process]
    BY DownType DEF UpgradeInit
  <2>3. Len(copies) <= KeepCopies
    BY <2>1
  <2>4. installed \in Releases /\ mixed \in BOOLEAN
    BY DEF UpgradeInit
  <2> QED  BY <1>2, <2>1, <2>2, <2>3, <2>4, Zenon DEF UpgradeTypeOK
<1>5. KnowsItsWay
  <2>1. 0 <= Len(copies)
    BY <1>4 DEF UpgradeTypeOK
  <2> QED  BY <1>3, <2>1, DownType DEF KnowsItsWay, KnowsWay
<1>6. Unmixed
  <2>1. AllKnown
    BY <1>2 DEF UpgradeInit, AllKnown
  <2>2. WorksAlone /\ NextOrApplied
    BY <1>3, DownType DEF WorksAlone, NextOrApplied, Undoing, AtWork, Upgrading, Processes
  <2> QED  BY <2>1, <2>2 DEF Unmixed
<1> QED  BY <1>4, <1>5, <1>6 DEF UpgradeInv

LEMMA UpgradeStep == UpgradeInv /\ [UpgradeNext]_upgradeVars => UpgradeInv'
<1> SUFFICES ASSUME UpgradeInv, [UpgradeNext]_upgradeVars PROVE UpgradeInv'
  OBVIOUS
<1>1. CASE ServerStarts \/ \E p \in Commands : CommandBegins(p)
  BY <1>1, BeginsKeep
<1>2. CASE \E p \in Commands : \/ \E v \in 1 .. Latest : AskDowngrade(p, v)
                               \/ \E i \in 1 .. Len(copies) : AskRestore(p, i)
  BY <1>2, AsksKeep
<1>3. ASSUME NEW p \in Processes,
             ReadVersion(p) \/ SaveFirst(p) \/ StepUp(p) \/ StepDown(p) \/ Restore(p) \/ Fails(p)
      PROVE  UpgradeInv'
  BY <1>3, ReadVersionKeeps, SaveFirstKeeps, StepUpKeeps, StepDownKeeps, RestoreKeeps, FailsKeeps
<1>4. CASE \E r \in Releases : Install(r)
  BY <1>4, InstallKeeps
<1>5. CASE UNCHANGED upgradeVars
  BY <1>5 DEF upgradeVars, UpgradeInv, UpgradeTypeOK, KnowsItsWay, KnowsWay, Unmixed, AllKnown, WorksAlone,
              NextOrApplied, Undoing, AtWork, Upgrading
<1> QED  BY <1>1, <1>2, <1>3, <1>4, <1>5 DEF UpgradeNext

\* The version says what the tables are, and a server serves only the schema it knows,
\* however upgrades, downgrades, restores, failures and releases are interleaved (migrate,
\* downgrade, restore of migrations/__init__.py), except where they mix.
THEOREM SchemaKnown == UpgradeSpec => []SchemaIsKnown
<1>1. UpgradeInv => SchemaIsKnown
  <2> SUFFICES ASSUME UpgradeInv, ~mixed
               PROVE  /\ db.applied = 1 .. db.version
                      /\ process[Server].at = "serving" => db.version = process[Server].release
    BY DEF SchemaIsKnown
  <2>1. mixed = FALSE
    BY Zenon DEF UpgradeInv, UpgradeTypeOK
  <2>2. Unmixed
    BY <2>1 DEF UpgradeInv
  <2> QED  BY <2>2 DEF Unmixed, AllKnown, WorksAlone
<1> QED  BY <1>1, UpgradeStart, UpgradeStep, PTL DEF UpgradeSpec

=============================================================================
