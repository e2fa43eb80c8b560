-------------------------------- MODULE Audit --------------------------------
(***************************************************************************)
(* The audit trail: a hash chain in the table audit_log, appended to by    *)
(* every recorded action, pruned by the maintenance thread (or `habeny     *)
(* prune`, another process) and verified on demand.                        *)
(*                                                                         *)
(* Each of them opens its own connection.  An entry and a prune are one    *)
(* immediate transaction; verify reads the anchor and the rows with two    *)
(* statements and no transaction around them.  An entry takes its          *)
(* timestamp before it waits for the write lock, so entries may be in      *)
(* another order by time than by id.                                       *)
(*                                                                         *)
(* SHA-256 is taken to have no collisions: a digest is what was hashed.    *)
(***************************************************************************)
EXTENDS Integers, Sequences, FiniteSets

CONSTANTS
    Writers,        \* threads and processes that record actions
    Contents,       \* what an entry says (action, status, user, ..., details)
    Retention,      \* HABENY_HISTORY_RETENTION_DAYS, not 0, in clock ticks
    MaxEntries,     \* bound: entries ever begun
    MaxTime         \* bound: the clock

ASSUME RetentionType == Retention \in Nat
ASSUME BoundsType == MaxEntries \in Nat /\ MaxTime \in Nat

VARIABLES
    clock,      \* utc_now()
    waiting,    \* entries with a timestamp whose transaction has not begun
    log,        \* the rows of audit_log
    anchor,     \* audit_anchor_id and audit_anchor_hash in meta
    verifying,  \* verify has read the anchor and not yet the rows
    start,      \* ... the anchor it read
    verdict,    \* what the last verify said: "none" (not asked), "ok" or "problem"
    written,    \* history: every row append has written
    altered,    \* history: somebody else changed the table
    moved       \* history: the table was pruned since verify read the anchor

vars == <<clock, waiting, log, anchor, verifying, start, verdict, written, altered, moved>>
check == <<verifying, start, verdict>>

-----------------------------------------------------------------------------
(* Entries and their digests *)

\* What the digest of an entry adds to the one before it.
Hashed == [id: Nat, ts: Nat, content: Contents]
Digest == Seq(Hashed)
GENESIS == <<>>

\* A row's digest: the previous one and the row's own content.
entry_hash(prev, id, ts, content) ==
    Append(prev, [id |-> id, ts |-> ts, content |-> content])

Row == [id: Nat \ {0}, ts: Nat, content: Contents, prev: Digest, hash: Digest]
Entry == [by: Writers, ts: Nat, content: Contents]
Anchor == [id: Nat, hash: Digest]

TypeOK ==
    /\ clock \in Nat
    /\ waiting \subseteq Entry
    /\ log \subseteq Row
    /\ anchor \in Anchor
    /\ verifying \in BOOLEAN
    /\ start \in Anchor
    /\ verdict \in {"none", "ok", "problem"}
    /\ written \subseteq Row
    /\ altered \in BOOLEAN
    /\ moved \in BOOLEAN
    \* id is the primary key
    /\ \A r, s \in log : r.id = s.id => r = s
    \* A writer records one action at a time.
    /\ \A e, f \in waiting : e.by = f.by => e = f

NoAnchor == [id |-> 0, hash |-> GENESIS]

Init ==
    /\ clock = 0
    /\ waiting = {}
    /\ log = {}
    /\ anchor = NoAnchor
    /\ verifying = FALSE
    /\ start = NoAnchor
    /\ verdict = "none"
    /\ written = {}
    /\ altered = FALSE
    /\ moved = FALSE

-----------------------------------------------------------------------------
(* Recording an action *)

\* record: the time is taken, and the write lock is waited for.
Stamp(w, content) ==
    /\ Cardinality(written) + Cardinality(waiting) < MaxEntries
    /\ \A e \in waiting : e.by # w
    /\ waiting' = waiting \union {[by |-> w, ts |-> clock, content |-> content]}
    /\ UNCHANGED <<clock, log, anchor, check, written, altered, moved>>

\* ORDER BY id DESC LIMIT 1
Newest(rows) == CHOOSE r \in rows : \A s \in rows : s.id <= r.id

\* The end of the chain: the newest row, or the anchor when there is none.
Tip == IF log = {} THEN anchor ELSE [id |-> Newest(log).id, hash |-> Newest(log).hash]

\* Mutant of NewRow: the id of the row before it.
NewRowSameId(e) ==
    [id |-> Tip.id, ts |-> e.ts, content |-> e.content, prev |-> Tip.hash,
     hash |-> entry_hash(Tip.hash, Tip.id, e.ts, e.content)]

NewRow(e) == [id |-> Tip.id + 1, ts |-> e.ts, content |-> e.content, prev |-> Tip.hash,
              hash |-> entry_hash(Tip.hash, Tip.id + 1, e.ts, e.content)]

\* append, in the immediate transaction of record.
AppendEntry(e) ==
    /\ waiting' = waiting \ {e}
    /\ log' = log \union {NewRow(e)}
    /\ written' = written \union {NewRow(e)}
    /\ UNCHANGED <<clock, anchor, check, altered, moved>>

\* An sqlite error (the lock waited for in vain, a full disk), or the process
\* ends: the entry is in the server log at most.
GiveUp(e) ==
    /\ waiting' = waiting \ {e}
    /\ UNCHANGED <<clock, log, anchor, check, written, altered, moved>>

-----------------------------------------------------------------------------
(* Pruning *)

\* Rows from before the cutoff (_cutoff of the retention).
Expired == {r \in log : r.ts < clock - Retention}

\* Mutant of PruneTo: the anchor is what the last pruned row was linked to.
PruneToPrevious(last) ==
    /\ log' = {r \in log : r.id > last.id}
    /\ anchor' = [id |-> last.id, hash |-> last.prev]

\* prune deletes up to the last expired id, and keeps its digest as the anchor.
PruneTo(last) ==
    /\ log' = {r \in log : r.id > last.id}
    /\ anchor' = [id |-> last.id, hash |-> last.hash]

Prune ==
    /\ \E last \in Expired :
        /\ \A r \in Expired : r.id <= last.id
        /\ PruneTo(last)
    /\ moved' = verifying
    /\ UNCHANGED <<clock, waiting, check, written, altered>>

-----------------------------------------------------------------------------
(* Verifying *)

\* verify reads the anchor (_anchor) ...
VerifyAnchor ==
    /\ ~verifying
    /\ verifying' = TRUE
    /\ start' = anchor
    /\ moved' = FALSE
    /\ UNCHANGED <<clock, waiting, log, anchor, verdict, written, altered>>

\* The ids run from the anchor to the row's (expected_id), and the row continues
\* the one before it, or the anchor.
Follows(r, rows, from) ==
    /\ r.id > from.id
    /\ \A i \in (from.id + 1)..r.id : \E s \in rows : s.id = i
    /\ IF r.id = from.id + 1 THEN r.prev = from.hash
       ELSE \E s \in rows : r.id = s.id + 1 /\ r.prev = s.hash

\* The row's digest is the one of its content.
Unchanged(r) == r.hash = entry_hash(r.prev, r.id, r.ts, r.content)

\* Mutant of VerifyRows: the digests stored are trusted.
VerifyLinks ==
    /\ verifying
    /\ verifying' = FALSE
    /\ verdict' = IF \A r \in log : Follows(r, log, start) THEN "ok" ELSE "problem"
    /\ UNCHANGED <<clock, waiting, log, anchor, start, written, altered, moved>>

\* ... then goes through the rows of one SELECT, in the order of their ids, up
\* to the first that does not fit.
VerifyRows ==
    /\ verifying
    /\ verifying' = FALSE
    /\ verdict' = IF \A r \in log : Follows(r, log, start) /\ Unchanged(r) THEN "ok" ELSE "problem"
    /\ UNCHANGED <<clock, waiting, log, anchor, start, written, altered, moved>>

-----------------------------------------------------------------------------
(* What is not done by the code *)

\* The rows that something outside of audit.py leaves: one is changed, one of
\* the middle is removed, or two change places.  (A chain does not show that its
\* newest rows are missing; the digests in the server log do.)
Damaged ==
    {(log \ {r}) \union {[r EXCEPT !.content = c]} : r \in log, c \in Contents}
    \union {log \ {r} : r \in {q \in log : q # Newest(log)}}
    \union {(log \ {r, s}) \union {[r EXCEPT !.id = s.id], [s EXCEPT !.id = r.id]} : r, s \in log}

\* Once is enough to be told.
Alter ==
    /\ ~altered
    /\ log' \in Damaged \ {log}
    /\ altered' = TRUE
    /\ UNCHANGED <<clock, waiting, anchor, check, written, moved>>

Tick ==
    /\ clock < MaxTime
    /\ clock' = clock + 1
    /\ UNCHANGED <<waiting, log, anchor, check, written, altered, moved>>

-----------------------------------------------------------------------------
RecordNext ==
    \/ \E w \in Writers, content \in Contents : Stamp(w, content)
    \/ \E e \in waiting : AppendEntry(e) \/ GiveUp(e)

Next ==
    \/ RecordNext
    \/ Prune
    \/ VerifyAnchor
    \/ VerifyRows
    \/ Alter
    \/ Tick

Spec == Init /\ [][Next]_vars

-----------------------------------------------------------------------------
(* Properties *)

\* An id is given once, whatever was pruned in between (append takes it from the
\* newest row, or from the anchor when none is left).
IdsGivenOnce == \A r, s \in written : r.id = s.id => r = s

\* verify finds a chain in order only if every row of it is one that append
\* wrote, and none between the first and the last is missing ("ok is False at
\* the first entry that was changed, removed or reordered").
OkIsGenuine ==
    [][verifying /\ ~verifying' /\ verdict' = "ok" =>
        /\ log \subseteq written
        /\ \A r \in log, s \in written : start.id < s.id /\ s.id < r.id => s \in log]_vars

\* Entries and prunes alone never make verify find a problem, in any order of
\* theirs, unless a prune came between its two reads.
AlarmsAreReal ==
    [][verifying /\ ~verifying' /\ verdict' = "problem" => altered \/ moved]_vars

\* A prune leaves no expired row, though rows need not be in the order of their
\* timestamps.
NoneExpiredLeft ==
    [][log' # log /\ anchor' # anchor => \A r \in log' : r.ts >= clock - Retention]_vars

\* "Pruning old entries keeps the chain verifiable" (docs/privacy.md): what
\* verify calls a problem is something somebody changed.
PruningKeepsVerifiable ==
    [][verifying /\ ~verifying' /\ verdict' = "problem" => altered]_vars

=============================================================================
