------------------------------ MODULE Registry ------------------------------
(***************************************************************************)
(* What the database says of containers: sequence numbers, groups, deletion *)
(* marks, owners and teams, and the limits a deployment is checked against. *)
(*                                                                         *)
(* Deployment models what becomes of the containers of a deployment; here   *)
(* a worker makes its container or does not. The names that exist are       *)
(* listed in a thread before the loop checks the limits. Listings, reports  *)
(* and workers write back a whole row that they read before                 *)
(* (write_agent_metadata).                                                  *)
(***************************************************************************)
EXTENDS Integers, FiniteSets

CONSTANTS
    Agents,         \* names of containers
    Owners,         \* users who deploy
    Teams,
    Groups,
    Requests,       \* deployment requests open at once
    RowWriters,     \* threads and processes that write rows back
    Limits          \* values of max_containers

ASSUME LimitsAreNumbers == Limits \subseteq Nat
ASSUME AgentsAreFinite == IsFiniteSet(Agents)

VARIABLES
    exists,         \* the containers on the host
    row,            \* the agents table
    nextSeq,        \* meta: next_agent_seq_id
    groups,         \* the groups table
    owner,          \* the container_owners table
    team,           \* users.team_id
    limit,          \* max_containers of users and teams
    request,        \* deploy_agents, one for each request
    writer,         \* the row read, to be written back
    excused         \* whose limit an admin or two requests at once have passed by (history)

registryVars == <<exists, row, nextSeq, groups, owner, team, limit, request, writer, excused>>
tables == <<row, nextSeq, groups, owner, team, limit>>

None == "none"
NoRow == [seq |-> 0, group |-> None, deleted |-> FALSE]
Unowned == [user |-> None, team |-> None]
NoRequest == [at |-> "none", user |-> None, team |-> None, names |-> {}, group |-> None, seen |-> {}]
NoWriter == [name |-> None, read |-> NoRow]

\* The database's NULL names nobody.
ASSUME NoneIsNobody == None \notin Owners \cup Teams

OwnerRecord == [user : Owners \cup {None}, team : Teams \cup {None}]
DeployRequest == [at : {"none", "asked", "listed", "running"}, user : Owners \cup {None},
                  team : Teams \cup {None}, names : SUBSET Agents, group : Groups \cup {None},
                  seen : SUBSET Agents]
AgentRow == [seq : 0 .. Cardinality(Agents), group : Groups \cup {None}, deleted : BOOLEAN]

RegistryTypeOK ==
    /\ exists \subseteq Agents
    /\ row \in [Agents -> AgentRow]
    /\ nextSeq \in 1 .. Cardinality(Agents) + 1
    /\ groups \subseteq Groups
    /\ owner \in [Agents -> OwnerRecord]
    /\ team \in [Owners -> Teams \cup {None}]
    /\ limit \in [Owners \cup Teams -> Limits]
    /\ request \in [Requests -> DeployRequest]
    /\ writer \in [RowWriters -> [name : Agents \cup {None}, read : AgentRow]]
    /\ excused \subseteq Owners \cup Teams

HasRow(n) == row[n].seq # 0
Members(g) == {n \in Agents : row[n].group = g /\ ~row[n].deleted}
Owned(p) == {n \in exists : p \in {owner[n].user, owner[n].team}}
Payers(u) == {u, team[u]} \ {None}

\* visible: everything for admins, else what belongs to one's team
CanSee(u, n) == u # None => owner[n].team = team[u]

\* Mutant of Numbered: the counter is read, not raised.
NumberedAlike(r, names) ==
    [n \in Agents |-> IF n \in names /\ ~HasRow(n) THEN [r[n] EXCEPT !.seq = nextSeq] ELSE r[n]]

\* get_or_create_agent_seq_id, for each of the names in some order
Numbered(r, names) ==
    LET fresh == {n \in names : ~HasRow(n)}
        order == CHOOSE f \in [fresh -> nextSeq .. nextSeq + Cardinality(fresh) - 1] :
                    \A a, b \in fresh : f[a] = f[b] => a = b
    IN [n \in Agents |-> IF n \in fresh THEN [r[n] EXCEPT !.seq = order[n]] ELSE r[n]]

NextSeqAfter(names) == nextSeq + Cardinality({n \in names : ~HasRow(n)})

-----------------------------------------------------------------------------
(* Deployments. *)

\* deploy_agents, up to its first await; a group that is missing is made or the request refused.
Ask(r, u, names, g) ==
    /\ request[r] = NoRequest /\ names # {}
    /\ groups' = groups \cup {g}
    /\ request' = [request EXCEPT ![r] = [at |-> "asked", user |-> u, team |-> team[u], names |-> names,
                                          group |-> g, seen |-> {}]]
    /\ UNCHANGED <<exists, row, nextSeq, owner, team, limit, writer, excused>>

\* Whose limit a request counts against, and who shares one with another request.
Charged(r) == {request[r].user, request[r].team, team[request[r].user]} \ {None}
Shared(r, at) == Charged(r) \cap UNION {Charged(q) : q \in {q \in Requests \ {r} : request[q].at \in at}}

\* Another request is to make a container that this one records as its user's.
Contended(r) == \E q \in Requests \ {r} :
    /\ request[q].at \in {"listed", "running"}
    /\ request[q].names \cap (request[r].names \ request[r].seen) # {}

\* lxc.list_containers, in a thread
ListExisting(r) ==
    /\ request[r].at = "asked"
    /\ request' = [request EXCEPT ![r].at = "listed", ![r].seen = exists]
    /\ excused' = excused \cup Shared(r, {"running"})
    /\ UNCHANGED <<exists, tables, writer>>

\* Mutant of WithinLimits: what is added does not count.
WithinLimitsSoFar(u, seen, adding) ==
    adding > 0 => \A p \in Payers(u) : Cardinality({n \in seen : p \in {owner[n].user, owner[n].team}}) < limit[p]

\* check_quota, with the names that existed when they were listed
WithinLimits(u, seen, adding) ==
    adding > 0 => \A p \in Payers(u) :
        Cardinality({n \in seen : p \in {owner[n].user, owner[n].team}}) + adding <= limit[p]

Recorded(names, u, t) == owner' = [n \in Agents |-> IF n \in names THEN [user |-> u, team |-> t] ELSE owner[n]]

Accept(r) ==
    LET q == request[r]
        new == q.names \ q.seen
    IN
    /\ q.at = "listed"
    /\ WithinLimits(q.user, q.seen, Cardinality(new))
    /\ Recorded(new, q.user, q.team)
    /\ row' = [n \in Agents |-> IF n \in q.names THEN [Numbered(row, q.names)[n] EXCEPT !.group = q.group] ELSE row[n]]
    /\ nextSeq' = NextSeqAfter(q.names)
    /\ request' = [request EXCEPT ![r] = [@ EXCEPT !.at = "running", !.seen = {}, !.group = None]]
    /\ excused' = excused \cup Shared(r, {"listed", "running"})
                           \cup (IF team[q.user] # q.team THEN {q.team} \ {None} ELSE {})
                           \cup (IF Contended(r) THEN {q.user, q.team} \ {None} ELSE {})
    /\ UNCHANGED <<exists, groups, team, limit, writer>>

Refuse(r) ==
    /\ request[r].at = "listed"
    /\ ~WithinLimits(request[r].user, request[r].seen, Cardinality(request[r].names \ request[r].seen))
    /\ request' = [request EXCEPT ![r] = NoRequest]
    /\ UNCHANGED <<exists, tables, writer, excused>>

\* A worker is done with a container: made it, or found it there or failed.
WorkerDone(r, n) ==
    LET left == request[r].names \ {n} IN
    /\ request[r].at = "running" /\ n \in request[r].names
    /\ exists' \in {exists, exists \cup {n}}
    /\ request' = [request EXCEPT ![r] = IF left = {} THEN NoRequest ELSE [request[r] EXCEPT !.names = left]]
    /\ UNCHANGED <<tables, writer, excused>>

DeployStep(r) ==
    \/ \E u \in Owners, names \in SUBSET Agents, g \in Groups : Ask(r, u, names, g)
    \/ ListExisting(r) \/ Accept(r) \/ Refuse(r)
    \/ \E n \in Agents : WorkerDone(r, n)

-----------------------------------------------------------------------------
(* write_agent_metadata, by a listing, a report or a worker. *)

ReadRow(w, n) ==
    /\ writer[w] = NoWriter
    /\ writer' = [writer EXCEPT ![w] = [name |-> n, read |-> row[n]]]
    /\ UNCHANGED <<exists, tables, request, excused>>

\* A row that was missing gets a number; of a row that was read, every column is written.
WriteRow(w) ==
    LET n == writer[w].name
        r == writer[w].read
    IN
    /\ writer[w] # NoWriter
    /\ row' = IF r.seq = 0 THEN Numbered(row, {n}) ELSE [row EXCEPT ![n] = r]
    /\ nextSeq' = NextSeqAfter({n})
    /\ writer' = [writer EXCEPT ![w] = NoWriter]
    /\ UNCHANGED <<exists, groups, owner, team, limit, request, excused>>

WriteFails(w) ==
    /\ writer[w] # NoWriter
    /\ writer' = [writer EXCEPT ![w] = NoWriter]
    /\ UNCHANGED <<exists, tables, request, excused>>

WriterNext == \E w \in RowWriters : (\E n \in exists : ReadRow(w, n)) \/ WriteRow(w) \/ WriteFails(w)

-----------------------------------------------------------------------------
(* Users and administrators. *)

MarkedDeleted(n) == row' = IF HasRow(n) THEN [row EXCEPT ![n].deleted = TRUE] ELSE row

\* delete_agent, or one container of a bulk deletion
DeleteAgent(u, n) ==
    /\ n \in exists /\ CanSee(u, n)
    /\ exists' = exists \ {n}
    /\ MarkedDeleted(n)
    /\ owner' = [owner EXCEPT ![n] = Unowned]
    /\ UNCHANGED <<nextSeq, groups, team, limit, request, writer, excused>>

SetGroup(names, g) == row' = [n \in Agents |-> IF n \in names /\ ~row[n].deleted THEN [row[n] EXCEPT !.group = g] ELSE row[n]]
TakeOut(names) == SetGroup(names, None)

CreateGroup(g) ==
    /\ groups' = groups \cup {g}
    /\ UNCHANGED <<exists, row, nextSeq, owner, team, limit, request, writer, excused>>

RenameGroup(g, h) ==
    /\ g \in groups /\ h \notin groups
    /\ groups' = (groups \ {g}) \cup {h}
    /\ SetGroup(Members(g), h)
    /\ UNCHANGED <<exists, nextSeq, owner, team, limit, request, writer, excused>>

DeleteGroup(g) ==
    /\ g \in groups
    /\ groups' = groups \ {g}
    /\ TakeOut(Members(g))
    /\ UNCHANGED <<exists, nextSeq, owner, team, limit, request, writer, excused>>

AssignGroup(u, g, n) ==
    /\ g \in groups /\ n \in exists /\ CanSee(u, n)
    /\ row' = [Numbered(row, {n}) EXCEPT ![n].group = IF row[n].deleted THEN @ ELSE g]
    /\ nextSeq' = NextSeqAfter({n})
    /\ UNCHANGED <<exists, groups, owner, team, limit, request, writer, excused>>

RemoveFromGroup(u, n) ==
    /\ CanSee(u, n) /\ TakeOut({n})
    /\ UNCHANGED <<exists, nextSeq, groups, owner, team, limit, request, writer, excused>>

\* An admin's decision is not held against the limit.
AssignTeam(n, t) ==
    /\ n \in exists
    /\ owner' = [owner EXCEPT ![n].team = t]
    /\ excused' = excused \cup ({t} \ {None})
    /\ UNCHANGED <<exists, row, nextSeq, groups, team, limit, request, writer>>

SetUserTeam(u, t) ==
    /\ team' = [team EXCEPT ![u] = t]
    /\ UNCHANGED <<exists, row, nextSeq, groups, owner, limit, request, writer, excused>>

\* update_team, set_user_team: what there is when a limit is lowered may stay.
SetLimit(p, l) ==
    /\ limit' = [limit EXCEPT ![p] = l]
    /\ excused' = IF l < limit[p] THEN excused \cup {p} ELSE excused
    /\ UNCHANGED <<exists, row, nextSeq, groups, owner, team, request, writer>>

\* ON DELETE SET NULL
DeleteTeam(t) ==
    /\ team' = [u \in Owners |-> IF team[u] = t THEN None ELSE team[u]]
    /\ owner' = [n \in Agents |-> IF owner[n].team = t THEN [owner[n] EXCEPT !.team = None] ELSE owner[n]]
    /\ UNCHANGED <<exists, row, nextSeq, groups, limit, request, writer, excused>>

DeleteNext == \E u \in Owners \cup {None}, n \in Agents : DeleteAgent(u, n)

GroupNext ==
    \/ \E u \in Owners \cup {None}, n \in Agents :
          RemoveFromGroup(u, n) \/ \E g \in Groups : AssignGroup(u, g, n)
    \/ \E g \in Groups : CreateGroup(g) \/ DeleteGroup(g) \/ \E h \in Groups : RenameGroup(g, h)

TeamNext ==
    \/ \E t \in Teams \cup {None} :
          \/ \E n \in Agents : AssignTeam(n, t)
          \/ \E u \in Owners : SetUserTeam(u, t)
    \/ \E t \in Teams : DeleteTeam(t)
    \/ \E p \in Owners \cup Teams, l \in Limits : SetLimit(p, l)

RegistryInit ==
    /\ exists = {} /\ row = [n \in Agents |-> NoRow] /\ nextSeq = 1 /\ groups = {}
    /\ owner = [n \in Agents |-> Unowned]
    /\ team \in [Owners -> Teams \cup {None}]
    /\ limit \in [Owners \cup Teams -> Limits]
    /\ request = [r \in Requests |-> NoRequest]
    /\ writer = [w \in RowWriters |-> NoWriter]
    /\ excused = {}

RegistryNext == (\E r \in Requests : DeployStep(r)) \/ WriterNext \/ DeleteNext \/ GroupNext \/ TeamNext

RegistrySpec == RegistryInit /\ [][RegistryNext]_registryVars

-----------------------------------------------------------------------------
(* Properties. *)

\* A name keeps its number for ever, over deletions, redeployments and rows written
\* back late, and no two names have the same (db.py: get_or_create_agent_seq_id).
NumbersStay == [][\A a, b \in Agents :
    /\ HasRow(a) => row'[a].seq = row[a].seq
    /\ row'[a].seq # 0 /\ a # b => row'[a].seq # row'[b].seq]_registryVars

\* Nobody has more containers than allowed, unless two requests were checked at once or were
\* for the same names, the user changed teams during one, or an admin moved containers
\* (tenancy.py: check_quota).
LimitsKept == \A p \in (Owners \cup Teams) \ excused : Cardinality(Owned(p)) <= limit[p]
=============================================================================
