---------------------------- MODULE AuditProofs ----------------------------
(***************************************************************************)
(* Audit, for any writers, contents, retention and bounds: ids are given   *)
(* once, a chain found in order is the one that was written, and entries   *)
(* and prunes alone keep the chain verifiable from its anchor.             *)
(***************************************************************************)
EXTENDS Audit, TLAPS

\* The newest row has the largest id ever given; when none is left, the anchor.
TipIsLast ==
    /\ log # {} => \E r \in log : \A s \in log \union written : s.id <= r.id
    /\ log = {} => \A s \in written : s.id <= anchor.id
    /\ \A r \in log : r.id > anchor.id

\* Every row append wrote has its own digest.
WrittenHashed == \A r \in written : Unchanged(r)

\* A row of the table is one that append wrote, or does not have its own digest.
GenuineOrBad == \A r \in log : r \in written \/ ~Unchanged(r)

\* The rows form a chain from an anchor.
ChainFrom(rows, from) == \A r \in rows : Follows(r, rows, from) /\ Unchanged(r)

\* As long as nobody else changes the table it is a chain from its anchor, which
\* is the one verify has read unless a prune moved it.
Verifiable ==
    /\ ~altered => ChainFrom(log, anchor)
    /\ verifying /\ ~moved => start = anchor

Inv ==
    /\ TypeOK
    /\ TipIsLast
    /\ IdsGivenOnce
    /\ WrittenHashed
    /\ GenuineOrBad
    /\ Verifiable

-----------------------------------------------------------------------------
\* A digest tells the contents it was made from.
LEMMA DigestTells ==
    ASSUME NEW p \in Digest, NEW q \in Digest, NEW i \in Nat, NEW j \in Nat,
           NEW t \in Nat, NEW u \in Nat, NEW c \in Contents, NEW d \in Contents,
           entry_hash(p, i, t, c) = entry_hash(q, j, u, d)
    PROVE  i = j /\ t = u /\ c = d
<1> DEFINE e == [id |-> i, ts |-> t, content |-> c]
           f == [id |-> j, ts |-> u, content |-> d]
<1>1. e \in Hashed /\ f \in Hashed
  BY DEF Hashed
<1>2. Append(p, e) = Append(q, f)
  BY DEF entry_hash
<1>3. /\ Len(Append(p, e)) = Len(p) + 1
      /\ Append(p, e)[Len(p) + 1] = e
      /\ Len(Append(q, f)) = Len(q) + 1
      /\ Append(q, f)[Len(q) + 1] = f
      /\ Len(p) \in Nat
      /\ Len(q) \in Nat
  <2> HIDE DEF e, f
  <2> QED BY <1>1 DEF Digest
<1>4. e = f
  <2> HIDE DEF e, f
  <2> QED BY <1>2, <1>3
<1> QED BY <1>4

\* The row append adds.
LEMMA NewRowIsLast ==
    ASSUME Inv, NEW e \in waiting
    PROVE  /\ NewRow(e) \in Row
           /\ Unchanged(NewRow(e))
           /\ \A s \in log \union written : s.id < NewRow(e).id
           /\ NewRow(e).id > anchor.id
           /\ NewRow(e).id = Tip.id + 1
           /\ NewRow(e).prev = Tip.hash
           /\ log # {} => \E r \in log : r.id = Tip.id /\ r.hash = Tip.hash
           /\ log = {} => Tip = anchor
<1>1. e \in Entry /\ anchor \in Anchor /\ log \subseteq Row /\ written \subseteq Row
  BY DEF Inv, TypeOK
<1>2. Tip \in Anchor /\ Tip.id >= anchor.id /\ \A s \in log \union written : s.id <= Tip.id
  <2>1. CASE log = {}
    <3>1. Tip = anchor
      BY <2>1 DEF Tip
    <3> QED BY <1>1, <2>1, <3>1 DEF Inv, TipIsLast, Anchor, Row
  <2>2. CASE log # {}
    <3>1. PICK r \in log : \A s \in log \union written : s.id <= r.id
      BY <2>2 DEF Inv, TipIsLast
    <3>2. Newest(log) \in log /\ \A s \in log : s.id <= Newest(log).id
      BY <3>1 DEF Newest
    <3>3. Newest(log).id = r.id
      BY <1>1, <3>1, <3>2 DEF Row
    <3>4. Tip = [id |-> Newest(log).id, hash |-> Newest(log).hash]
      BY <2>2 DEF Tip
    <3>5. r.id > anchor.id
      BY <3>1 DEF Inv, TipIsLast
    <3> QED BY <1>1, <3>1, <3>2, <3>3, <3>4, <3>5 DEF Anchor, Row
  <2> QED BY <2>1, <2>2
<1>3. [id |-> Tip.id + 1, ts |-> e.ts, content |-> e.content] \in Hashed
  BY <1>1, <1>2 DEF Entry, Anchor, Hashed
<1>4. entry_hash(Tip.hash, Tip.id + 1, e.ts, e.content) \in Digest
  BY <1>2, <1>3 DEF entry_hash, Anchor, Digest
<1>5. log # {} => \E r \in log : r.id = Tip.id /\ r.hash = Tip.hash
  <2>1. SUFFICES ASSUME log # {} PROVE \E r \in log : r.id = Tip.id /\ r.hash = Tip.hash
    OBVIOUS
  <2>2. PICK r \in log : \A s \in log \union written : s.id <= r.id
    BY <2>1 DEF Inv, TipIsLast
  <2>3. Newest(log) \in log
    BY <2>2 DEF Newest
  <2> QED BY <2>1, <2>3 DEF Tip
<1>6. log = {} => Tip = anchor
  BY DEF Tip
<1>7. NewRow(e) \in Row
  BY <1>1, <1>2, <1>4 DEF NewRow, Row, Anchor, Entry
<1>8. Unchanged(NewRow(e))
  BY DEF Unchanged, NewRow
<1>9. NewRow(e).id = Tip.id + 1 /\ NewRow(e).prev = Tip.hash
  BY DEF NewRow
<1> QED BY <1>1, <1>2, <1>5, <1>6, <1>7, <1>8, <1>9 DEF Anchor, Row

-----------------------------------------------------------------------------
\* What the properties read, unchanged.
table == <<log, anchor, written, altered>>

LEMMA InvInit == Init => Inv
<1> SUFFICES ASSUME Init PROVE Inv
  OBVIOUS
<1>1. NoAnchor \in Anchor
  BY DEF NoAnchor, Anchor, GENESIS, Digest
<1>2. log = {} /\ written = {} /\ waiting = {} /\ anchor = NoAnchor /\ start = NoAnchor
  BY DEF Init
<1>3. TypeOK
  BY <1>1, <1>2 DEF Init, TypeOK
<1>4. TipIsLast /\ IdsGivenOnce /\ WrittenHashed /\ GenuineOrBad
  BY <1>2 DEF TipIsLast, IdsGivenOnce, WrittenHashed, GenuineOrBad
<1>5. Verifiable
  BY <1>2 DEF Init, Verifiable, ChainFrom
<1> QED BY <1>3, <1>4, <1>5 DEF Inv

LEMMA InvAppend ==
    ASSUME Inv, NEW e \in waiting, AppendEntry(e)
    PROVE  Inv'
<1> DEFINE row == NewRow(e)
<1>1. /\ row \in Row
      /\ Unchanged(row)
      /\ \A s \in log \union written : s.id < row.id
      /\ row.id > anchor.id
      /\ row.id = Tip.id + 1
      /\ row.prev = Tip.hash
      /\ log # {} => \E r \in log : r.id = Tip.id /\ r.hash = Tip.hash
      /\ log = {} => Tip = anchor
  BY NewRowIsLast
<1>2. /\ waiting' = waiting \ {e}
      /\ log' = log \union {row}
      /\ written' = written \union {row}
      /\ UNCHANGED <<clock, anchor, check, altered, moved>>
  BY DEF AppendEntry
<1> HIDE DEF row
<1>3. log \subseteq Row /\ written \subseteq Row /\ anchor \in Anchor
  BY DEF Inv, TypeOK
<1>4. \A s \in log \union written : s.id \in Nat /\ s.id # row.id /\ s.id <= row.id
  BY <1>1, <1>3 DEF Row
<1>5. TypeOK'
  BY <1>1, <1>2, <1>4 DEF Inv, TypeOK, check
<1>6. TipIsLast'
  <2>1. row \in log' /\ \A s \in log' \union written' : s.id <= row.id
    BY <1>1, <1>2, <1>4 DEF Row
  <2> QED BY <2>1, <1>1, <1>2 DEF Inv, TipIsLast
<1>7. IdsGivenOnce'
  BY <1>2, <1>4 DEF Inv, IdsGivenOnce
<1>8. WrittenHashed' /\ GenuineOrBad'
  BY <1>1, <1>2 DEF Inv, WrittenHashed, GenuineOrBad, Unchanged
<1>9. Verifiable'
  <2>1. ASSUME ~altered PROVE ChainFrom(log', anchor)
    <3>1. ChainFrom(log, anchor)
      BY <2>1 DEF Inv, Verifiable
    <3>2. ASSUME NEW r \in log PROVE Follows(r, log', anchor) /\ Unchanged(r)
      BY <1>2, <3>1, <3>2 DEF ChainFrom, Follows
    <3>3. Follows(row, log', anchor)
      <4>1. CASE log = {}
        BY <1>1, <1>2, <1>3, <4>1 DEF Follows, Anchor
      <4>2. CASE log # {}
        <5>1. PICK r \in log : r.id = Tip.id /\ r.hash = Tip.hash
          BY <1>1, <4>2
        <5>2. r.id \in Nat /\ r.id > anchor.id /\ anchor.id \in Nat /\ row.id = r.id + 1
          BY <1>1, <1>3, <5>1 DEF Inv, TipIsLast, Row, Anchor
        <5>3. \A i \in (anchor.id + 1)..r.id : \E s \in log : s.id = i
          BY <3>1 DEF ChainFrom, Follows
        <5>4. \A i \in (anchor.id + 1)..row.id : i = row.id \/ i \in (anchor.id + 1)..r.id
          BY <5>2
        <5>5. \A i \in (anchor.id + 1)..row.id : \E s \in log' : s.id = i
          BY <1>2, <5>3, <5>4
        <5>6. row.id # anchor.id + 1 /\ row.prev = r.hash /\ r \in log'
          BY <1>1, <1>2, <5>1, <5>2
        <5> QED BY <1>1, <5>2, <5>5, <5>6 DEF Follows
      <4> QED BY <4>1, <4>2
    <3> QED BY <1>1, <1>2, <3>2, <3>3 DEF ChainFrom
  <2>2. ~altered' => ChainFrom(log, anchor)'
    <3>1. anchor' = anchor /\ altered' = altered
      BY <1>2
    <3>2. SUFFICES ASSUME ~altered PROVE ChainFrom(log, anchor)'
      BY <3>1
    <3> QED BY <2>1, <3>1, <3>2 DEF ChainFrom, Follows, Unchanged
  <2> QED BY <1>2, <2>2 DEF Inv, Verifiable, check
<1> QED BY <1>5, <1>6, <1>7, <1>8, <1>9 DEF Inv

LEMMA InvPrune ==
    ASSUME Inv, Prune
    PROVE  Inv'
<1>1. PICK last \in Expired : /\ \A r \in Expired : r.id <= last.id
                              /\ PruneTo(last)
  BY DEF Prune
<1>2. /\ last \in log
      /\ log' = {r \in log : r.id > last.id}
      /\ anchor' = [id |-> last.id, hash |-> last.hash]
      /\ moved' = verifying
      /\ UNCHANGED <<clock, waiting, check, written, altered>>
  BY <1>1 DEF Prune, PruneTo, Expired
<1>3. log \subseteq Row /\ written \subseteq Row /\ anchor \in Anchor /\ last \in Row
  BY <1>2 DEF Inv, TypeOK
<1>4. anchor'.id = last.id /\ anchor'.hash = last.hash /\ anchor' \in Anchor /\ last.id \in Nat
  BY <1>2, <1>3 DEF Row, Anchor
<1>5. TypeOK'
  BY <1>2, <1>4 DEF Inv, TypeOK, check
<1>6. TipIsLast'
  <2>1. PICK t \in log : \A s \in log \union written : s.id <= t.id
    BY <1>2 DEF Inv, TipIsLast
  <2>2. log' # {} => t \in log'
    BY <1>2, <1>3, <2>1 DEF Row
  <2>3. log' = {} => t.id <= last.id
    BY <1>2, <1>3, <2>1 DEF Row
  <2>4. log' = {} => \A s \in written : s.id <= last.id
    BY <1>3, <2>1, <2>3 DEF Row
  <2>5. \A s \in log' \union written' : s \in log \union written
    BY <1>2
  <2> QED BY <1>2, <1>4, <2>1, <2>2, <2>4, <2>5 DEF TipIsLast
<1>7. IdsGivenOnce' /\ WrittenHashed' /\ GenuineOrBad'
  BY <1>2 DEF Inv, IdsGivenOnce, WrittenHashed, GenuineOrBad, Unchanged
<1>8. ~altered => ChainFrom(log', anchor')
  <2>1. SUFFICES ASSUME ~altered, NEW r \in log' PROVE Follows(r, log', anchor') /\ Unchanged(r)
    BY DEF ChainFrom
  <2>2. /\ r \in log /\ r.id \in Nat /\ r.id > last.id /\ last.id > anchor.id
        /\ anchor.id \in Nat
        /\ Follows(r, log, anchor) /\ Unchanged(r)
    BY <1>2, <1>3, <2>1 DEF Inv, Verifiable, ChainFrom, TipIsLast, Row, Anchor
  <2>3. ASSUME NEW i \in (last.id + 1)..r.id PROVE \E s \in log' : s.id = i
    <3>1. i \in (anchor.id + 1)..r.id /\ i > last.id
      BY <1>4, <2>2
    <3> QED BY <1>2, <2>2, <3>1 DEF Follows
  <2>4. PICK s \in log : r.id = s.id + 1 /\ r.prev = s.hash
    BY <1>4, <2>2 DEF Follows
  <2>5. s.id \in Nat
    BY <1>3 DEF Row
  <2>6. CASE r.id = last.id + 1
    <3>1. s = last
      BY <1>2, <1>4, <2>4, <2>5, <2>6 DEF Inv, TypeOK
    <3> QED BY <1>4, <2>2, <2>3, <2>4, <2>6, <3>1 DEF Follows
  <2>7. CASE r.id # last.id + 1
    <3>1. s \in log'
      BY <1>2, <1>4, <2>2, <2>4, <2>5, <2>7
    <3> QED BY <1>4, <2>2, <2>3, <2>4, <2>7, <3>1 DEF Follows
  <2> QED BY <2>6, <2>7
<1>9. Verifiable'
  <2>1. verifying' => moved'
    BY <1>2 DEF check
  <2>2. ChainFrom(log, anchor)' = ChainFrom(log', anchor')
    BY DEF ChainFrom, Follows, Unchanged
  <2> QED BY <1>2, <1>8, <2>1, <2>2 DEF Verifiable
<1> QED BY <1>5, <1>6, <1>7, <1>9 DEF Inv

LEMMA InvAlter ==
    ASSUME Inv, Alter
    PROVE  Inv'
<1>1. /\ ~altered
      /\ log' \in Damaged
      /\ log' # log
      /\ altered' = TRUE
      /\ UNCHANGED <<clock, waiting, anchor, check, written, moved>>
  BY DEF Alter
<1>2. log \subseteq Row /\ written \subseteq Row /\ anchor \in Anchor
  BY DEF Inv, TypeOK
<1>3. \A r \in log : Unchanged(r)
  BY <1>1 DEF Inv, Verifiable, ChainFrom
<1>4. \A r, s \in log : r.id = s.id => r = s
  BY DEF Inv, TypeOK
<1>5. ASSUME log' \subseteq Row,
             \A r, s \in log' : r.id = s.id => r = s,
             \A r \in log' : \E s \in log : s.id = r.id,
             \A t \in log : (\A s \in log : s.id <= t.id) => \E r \in log' : r.id = t.id,
             \A r \in log' : r \in log \/ ~Unchanged(r)
      PROVE  Inv'
  <2>1. TypeOK'
    BY <1>1, <1>5 DEF Inv, TypeOK, check
  <2>2. TipIsLast'
    <3>1. log # {}
      BY <1>1, <1>5
    <3>2. PICK t \in log : \A s \in log \union written : s.id <= t.id
      BY <3>1 DEF Inv, TipIsLast
    <3>3. PICK r \in log' : r.id = t.id
      BY <1>5, <3>2
    <3>4. \A s \in log' \union written' : s.id <= r.id
      BY <1>1, <1>5, <3>2, <3>3
    <3>5. \A s \in log' : s.id > anchor'.id
      BY <1>1, <1>5 DEF Inv, TipIsLast
    <3> QED BY <3>3, <3>4, <3>5 DEF TipIsLast
  <2>3. IdsGivenOnce' /\ WrittenHashed'
    BY <1>1 DEF Inv, IdsGivenOnce, WrittenHashed, Unchanged
  <2>4. GenuineOrBad'
    BY <1>1, <1>3, <1>5 DEF Inv, GenuineOrBad, Unchanged
  <2>5. Verifiable'
    BY <1>1 DEF Inv, Verifiable, check
  <2> QED BY <2>1, <2>2, <2>3, <2>4, <2>5 DEF Inv
<1>6. ASSUME NEW r \in log, NEW q \in Row,
             q.prev = r.prev, q.hash = r.hash, q.ts = r.ts,
             q.id # r.id \/ q.content # r.content
      PROVE  ~Unchanged(q)
  <2>1. r.hash = entry_hash(r.prev, r.id, r.ts, r.content)
    BY <1>3 DEF Unchanged
  <2>2. ASSUME Unchanged(q) PROVE FALSE
    <3>1. entry_hash(q.prev, q.id, q.ts, q.content) = entry_hash(r.prev, r.id, r.ts, r.content)
      BY <1>6, <2>1, <2>2 DEF Unchanged
    <3>2. /\ q.prev \in Digest /\ r.prev \in Digest /\ q.id \in Nat /\ r.id \in Nat
          /\ q.ts \in Nat /\ r.ts \in Nat /\ q.content \in Contents /\ r.content \in Contents
      BY <1>2 DEF Row
    <3>3. q.id = r.id /\ q.content = r.content
      BY <3>1, <3>2, DigestTells, SMTT(30)
    <3> QED BY <1>6, <3>3
  <2> QED BY <2>2
<1>7. CASE \E r \in log, c \in Contents : log' = (log \ {r}) \union {[r EXCEPT !.content = c]}
  <2>1. PICK r \in log, c \in Contents : log' = (log \ {r}) \union {[r EXCEPT !.content = c]}
    BY <1>7
  <2> DEFINE q == [r EXCEPT !.content = c]
  <2>2. /\ q \in Row /\ q.id = r.id /\ q.prev = r.prev /\ q.hash = r.hash /\ q.ts = r.ts
        /\ q.content = c
    BY <1>2 DEF Row
  <2>3. c = r.content => q = r
    BY <1>2, <2>2 DEF Row
  <2>4. c # r.content
    BY <1>1, <2>1, <2>3
  <2> HIDE DEF q
  <2>5. ~Unchanged(q)
    BY <1>6, <2>2, <2>4
  <2>6. log' = (log \ {r}) \union {q}
    BY <2>1 DEF q
  <2> QED BY <1>2, <1>4, <1>5, <2>2, <2>5, <2>6
<1>8. CASE \E r \in log : r # Newest(log) /\ log' = log \ {r}
  <2>1. PICK r \in log : r # Newest(log) /\ log' = log \ {r}
    BY <1>8
  <2>2. ASSUME NEW t \in log, \A s \in log : s.id <= t.id PROVE t \in log'
    <3>1. Newest(log) \in log /\ \A s \in log : s.id <= Newest(log).id
      BY <2>2 DEF Newest
    <3>2. t.id \in Nat /\ Newest(log).id \in Nat /\ t.id <= Newest(log).id /\ Newest(log).id <= t.id
      BY <1>2, <2>2, <3>1 DEF Row
    <3>3. t = Newest(log)
      BY <1>4, <3>1, <3>2
    <3> QED BY <2>1, <3>3
  <2> QED BY <1>2, <1>4, <1>5, <2>1, <2>2
<1>9. CASE \E r, s \in log :
             log' = (log \ {r, s}) \union {[r EXCEPT !.id = s.id], [s EXCEPT !.id = r.id]}
  <2>1. PICK r \in log, s \in log :
             log' = (log \ {r, s}) \union {[r EXCEPT !.id = s.id], [s EXCEPT !.id = r.id]}
    BY <1>9
  <2> DEFINE p == [r EXCEPT !.id = s.id]
             q == [s EXCEPT !.id = r.id]
  <2>2. /\ p \in Row /\ p.id = s.id /\ p.prev = r.prev /\ p.hash = r.hash /\ p.ts = r.ts
        /\ q \in Row /\ q.id = r.id /\ q.prev = s.prev /\ q.hash = s.hash /\ q.ts = s.ts
    BY <1>2 DEF Row
  <2>3. r = s => p = r /\ q = r
    BY <1>2 DEF Row
  <2>4. r.id # s.id
    BY <1>1, <1>4, <2>1, <2>3
  <2> HIDE DEF p, q
  <2>5. ~Unchanged(p) /\ ~Unchanged(q)
    BY <1>6, <2>2, <2>4
  <2>6. log' = (log \ {r, s}) \union {p, q}
    BY <2>1 DEF p, q
  <2> QED BY <1>2, <1>4, <1>5, <2>2, <2>4, <2>5, <2>6
<1> QED BY <1>1, <1>7, <1>8, <1>9 DEF Damaged

\* The other steps leave the table as it is.
LEMMA InvSame ==
    ASSUME Inv, UNCHANGED table,
           TypeOK',
           (verifying /\ ~moved => start = anchor)'
    PROVE  Inv'
<1>1. TipIsLast' /\ IdsGivenOnce' /\ WrittenHashed' /\ GenuineOrBad'
  BY DEF Inv, table, TipIsLast, IdsGivenOnce, WrittenHashed, GenuineOrBad, Unchanged
<1>2. (~altered => ChainFrom(log, anchor))'
  BY DEF Inv, table, Verifiable, ChainFrom, Follows, Unchanged
<1> QED BY <1>1, <1>2 DEF Inv, Verifiable

LEMMA InvStep == Inv /\ [Next]_vars => Inv'
<1> SUFFICES ASSUME Inv, [Next]_vars PROVE Inv'
  OBVIOUS
<1>1. ASSUME NEW w \in Writers, NEW content \in Contents, Stamp(w, content) PROVE Inv'
  <2>1. TypeOK'
    <3>1. [by |-> w, ts |-> clock, content |-> content] \in Entry
      BY DEF Inv, TypeOK, Entry
    <3> QED BY <1>1, <3>1 DEF Inv, TypeOK, Stamp, check
  <2> QED BY <1>1, <2>1, InvSame DEF Stamp, table, check, Inv, Verifiable
<1>2. ASSUME NEW e \in waiting, AppendEntry(e) PROVE Inv'
  BY <1>2, InvAppend
<1>3. ASSUME NEW e \in waiting, GiveUp(e) PROVE Inv'
  <2>1. TypeOK'
    BY <1>3 DEF Inv, TypeOK, GiveUp, check
  <2> QED BY <1>3, <2>1, InvSame DEF GiveUp, table, check, Inv, Verifiable
<1>4. CASE Prune
  BY <1>4, InvPrune
<1>5. CASE VerifyAnchor
  <2>1. TypeOK'
    BY <1>5 DEF Inv, TypeOK, VerifyAnchor
  <2> QED BY <1>5, <2>1, InvSame DEF VerifyAnchor, table
<1>6. CASE VerifyRows
  <2>1. TypeOK'
    BY <1>6 DEF Inv, TypeOK, VerifyRows
  <2> QED BY <1>6, <2>1, InvSame DEF VerifyRows, table
<1>7. CASE Alter
  BY <1>7, InvAlter
<1>8. CASE Tick
  <2>1. TypeOK'
    BY <1>8 DEF Inv, TypeOK, Tick, check
  <2> QED BY <1>8, <2>1, InvSame DEF Tick, table, check, Inv, Verifiable
<1>9. CASE UNCHANGED vars
  <2>1. TypeOK'
    BY <1>9 DEF Inv, TypeOK, vars, check
  <2> QED BY <1>9, <2>1, InvSame DEF vars, table, check, Inv, Verifiable
<1> QED BY <1>1, <1>2, <1>3, <1>4, <1>5, <1>6, <1>7, <1>8, <1>9 DEF Next, RecordNext

LEMMA Invariance == Spec => []Inv
BY InvInit, InvStep, PTL DEF Spec

-----------------------------------------------------------------------------
\* Every reachable state has the types of TypeOK; the table has one row per id.
THEOREM TypeCorrect == Spec => []TypeOK
<1>1. Inv => TypeOK
  BY DEF Inv
<1> QED BY <1>1, Invariance, PTL

\* append never gives an id twice, whatever prune deletes in between.
THEOREM IdsOnce == Spec => []IdsGivenOnce
<1>1. Inv => IdsGivenOnce
  BY DEF Inv
<1> QED BY <1>1, Invariance, PTL

\* A chain that verify finds in order is what append wrote, without a gap.
THEOREM Genuine == Spec => OkIsGenuine
<1> DEFINE Ok == verifying /\ ~verifying' /\ verdict' = "ok" =>
                    /\ log \subseteq written
                    /\ \A r \in log, s \in written : start.id < s.id /\ s.id < r.id => s \in log
<1>1. Inv /\ [Next]_vars => [Ok]_vars
  <2> SUFFICES ASSUME Inv, Next, verifying, ~verifying', verdict' = "ok"
               PROVE  /\ log \subseteq written
                      /\ \A r \in log, s \in written : start.id < s.id /\ s.id < r.id => s \in log
    OBVIOUS
  <2>1. VerifyRows
    BY DEF Next, RecordNext, Stamp, AppendEntry, GiveUp, Prune, VerifyAnchor, Alter, Tick, check
  <2>2. \A r \in log : Follows(r, log, start) /\ Unchanged(r)
    BY <2>1 DEF VerifyRows
  <2>3. log \subseteq written
    BY <2>2 DEF Inv, GenuineOrBad
  <2>4. ASSUME NEW r \in log, NEW s \in written, start.id < s.id, s.id < r.id PROVE s \in log
    <3>1. start.id \in Nat /\ s.id \in Nat /\ r.id \in Nat
      BY DEF Inv, TypeOK, Row, Anchor
    <3>2. PICK q \in log : q.id = s.id
      BY <2>2, <2>4, <3>1 DEF Follows
    <3> QED BY <2>3, <3>2 DEF Inv, IdsGivenOnce
  <2> QED BY <2>3, <2>4
<1> QED BY <1>1, Invariance, PTL DEF Spec, OkIsGenuine

\* Entries and prunes alone leave a chain that verifies, unless a prune came
\* between the two reads of verify.
THEOREM Real == Spec => AlarmsAreReal
<1> DEFINE Alarm == verifying /\ ~verifying' /\ verdict' = "problem" => altered \/ moved
<1>1. Inv /\ [Next]_vars => [Alarm]_vars
  <2> SUFFICES ASSUME Inv, Next, verifying, ~verifying', verdict' = "problem", ~altered, ~moved
               PROVE  FALSE
    OBVIOUS
  <2>1. VerifyRows
    BY DEF Next, RecordNext, Stamp, AppendEntry, GiveUp, Prune, VerifyAnchor, Alter, Tick, check
  <2>2. start = anchor /\ ChainFrom(log, anchor)
    BY DEF Inv, Verifiable
  <2> QED BY <2>1, <2>2 DEF VerifyRows, ChainFrom
<1> QED BY <1>1, Invariance, PTL DEF Spec, AlarmsAreReal

\* No expired row is left behind by a prune.
THEOREM Retained == Spec => NoneExpiredLeft
<1> DEFINE Left == log' # log /\ anchor' # anchor => \A r \in log' : r.ts >= clock - Retention
<1>1. Inv /\ [Next]_vars => [Left]_vars
  <2> SUFFICES ASSUME Inv, Next, log' # log, anchor' # anchor, NEW r \in log'
               PROVE  r.ts >= clock - Retention
    OBVIOUS
  <2>1. Prune
    BY DEF Next, RecordNext, Stamp, AppendEntry, GiveUp, VerifyAnchor, VerifyRows, Alter, Tick
  <2>2. PICK last \in Expired : (\A q \in Expired : q.id <= last.id) /\ PruneTo(last)
    BY <2>1 DEF Prune
  <2>3. r \in log /\ r.id > last.id /\ r.id \in Nat /\ last.id \in Nat
    BY <2>2 DEF Inv, TypeOK, PruneTo, Expired, Row
  <2>4. r \notin Expired
    BY <2>2, <2>3
  <2>5. ~(r.ts < clock - Retention)
    BY <2>3, <2>4 DEF Expired
  <2>6. r.ts \in Nat /\ clock \in Nat /\ Retention \in Nat
    BY <2>3, RetentionType DEF Inv, TypeOK, Row
  <2> QED BY <2>5, <2>6
<1> QED BY <1>1, Invariance, PTL DEF Spec, NoneExpiredLeft

=============================================================================
