------------------------------- MODULE Hosts -------------------------------
(***************************************************************************)
(* The table of other Habeny servers that are managed from this one.        *)
(*                                                                         *)
(* A host's row keeps the token this console uses there and the fingerprint *)
(* of the certificate the host must present. Administrators add, edit and   *)
(* delete hosts; a request asks the host between reading the row and        *)
(* writing it.                                                             *)
(***************************************************************************)
EXTENDS FiniteSets

CONSTANTS
    Hosts,          \* rows of the hosts table; an id is never used again
    Secrets,        \* API tokens of this console, on the hosts
    Certificates,   \* certificates of hosts; one may be of a trusted authority and needs no fingerprint
    Editors         \* requests of administrators

VARIABLES
    host,           \* the hosts table
    former,         \* ids that were used
    remote,         \* the certificate a host shows and the tokens it takes
    editor,         \* what a request is to write
    accepted        \* what a host was seen to accept together (history)

hostVars == <<host, former, remote, editor, accepted>>

NoHost == [token |-> "none"]
NotGiven == "not given"
HostRow == [token : Secrets, fingerprint : Certificates]
Edit == [at : {"probe", "insert", "update"}, id : Hosts, row : HostRow, isNew : BOOLEAN]
NotEditing == [at |-> "idle"]

HostTypeOK ==
    /\ host \in [Hosts -> HostRow \cup {NoHost}]
    /\ former \subseteq Hosts
    /\ remote \in [Hosts -> [shows : Certificates, takes : SUBSET Secrets]]
    /\ editor \in [Editors -> Edit \cup {NotEditing}]
    /\ accepted \in [Hosts -> SUBSET (Secrets \X Certificates)]

Registered == {h \in Hosts : host[h] # NoHost}
Busy(e) == editor[e] # NotEditing
\* The id a new host will have is nobody else's.
Fresh(h) == h \notin Registered \cup former /\ \A e \in Editors : Busy(e) => editor[e].id # h

-----------------------------------------------------------------------------
(* call: the certificate is compared before the token is sent. *)

HostAccepts(h, row) == remote[h].shows = row.fingerprint /\ row.token \in remote[h].takes

\* probe, for a new host and when a token or a fingerprint is given; an error ends the request.
Probe(e) ==
    LET w == editor[e] IN
    /\ w.at = "probe"
    /\ \/ /\ HostAccepts(w.id, w.row)
          /\ accepted' = [accepted EXCEPT ![w.id] = @ \cup {<<w.row.token, w.row.fingerprint>>}]
          /\ editor' = [editor EXCEPT ![e].at = IF w.isNew THEN "insert" ELSE "update"]
       \/ editor' = [editor EXCEPT ![e] = NotEditing] /\ UNCHANGED accepted
    /\ UNCHANGED <<host, former, remote>>

-----------------------------------------------------------------------------
(* add_host, update_host and delete_host. *)

AddBegins(e, h, row) ==
    /\ ~Busy(e) /\ Fresh(h)
    /\ editor' = [editor EXCEPT ![e] = [at |-> "probe", id |-> h, row |-> row, isNew |-> TRUE]]
    /\ UNCHANGED <<host, former, remote, accepted>>

\* Mutant of MustProbe: a fingerprint the administrator confirmed needs no probe.
MustProbeToken(token, fingerprint) == token # NotGiven

MustProbe(token, fingerprint) == token # NotGiven \/ fingerprint # NotGiven

\* What is not given is as in the row read now, and will be written again.
EditBegins(e, h, token, fingerprint) ==
    LET row == [token |-> IF token = NotGiven THEN host[h].token ELSE token,
                fingerprint |-> IF fingerprint = NotGiven THEN host[h].fingerprint ELSE fingerprint]
    IN
    /\ ~Busy(e) /\ h \in Registered
    /\ editor' = [editor EXCEPT ![e] = [at |-> IF MustProbe(token, fingerprint) THEN "probe" ELSE "update",
                                        id |-> h, row |-> row, isNew |-> FALSE]]
    /\ UNCHANGED <<host, former, remote, accepted>>

\* Nothing is written when another host has the name, or this one was deleted meanwhile.
Save(e) ==
    LET w == editor[e] IN
    /\ w.at \in {"insert", "update"}
    /\ \/ /\ w.isNew \/ w.id \in Registered
          /\ host' = [host EXCEPT ![w.id] = w.row]
       \/ UNCHANGED host
    /\ editor' = [editor EXCEPT ![e] = NotEditing]
    /\ UNCHANGED <<former, remote, accepted>>

Delete(h) ==
    /\ h \in Registered
    /\ host' = [host EXCEPT ![h] = NoHost] /\ former' = former \cup {h}
    /\ UNCHANGED <<remote, editor, accepted>>

-----------------------------------------------------------------------------
\* On the host: its certificate is replaced, tokens are made and revoked.
RemoteChanges(h) ==
    /\ remote' \in {[remote EXCEPT ![h].shows = c] : c \in Certificates}
                     \cup {[remote EXCEPT ![h].takes = s] : s \in SUBSET Secrets}
    /\ UNCHANGED <<host, former, editor, accepted>>

\* Requests end with the process.
ConsoleRestarts ==
    /\ editor' = [e \in Editors |-> NotEditing]
    /\ UNCHANGED <<host, former, remote, accepted>>

HostInit ==
    /\ host = [h \in Hosts |-> NoHost] /\ former = {}
    /\ remote \in [Hosts -> {[shows |-> c, takes |-> Secrets] : c \in Certificates}]
    /\ editor = [e \in Editors |-> NotEditing]
    /\ accepted = [h \in Hosts |-> {}]

HostNext ==
    \/ \E e \in Editors, h \in Hosts :
          \/ \E row \in HostRow : AddBegins(e, h, row)
          \/ \E t \in Secrets \cup {NotGiven}, c \in Certificates \cup {NotGiven} : EditBegins(e, h, t, c)
    \/ \E e \in Editors : Probe(e) \/ Save(e)
    \/ \E h \in Hosts : Delete(h) \/ RemoteChanges(h)
    \/ ConsoleRestarts

HostSpec == HostInit /\ [][HostNext]_hostVars

-----------------------------------------------------------------------------
(* Properties. *)

\* A host's token and fingerprint that are stored together were accepted together, whatever two
\* requests wrote over each other (hosts.py: update_host writes the whole row it has read).
StoredWorked == \A h \in Registered : <<host[h].token, host[h].fingerprint>> \in accepted[h]
=============================================================================
