-------------------------- MODULE TaskStateProofs --------------------------
(***************************************************************************)
(* Proofs about the tasks the daemon keeps, for any tasks, messages,       *)
(* clients and bounds.  First StateStore: the invariant that ties tasks in *)
(* memory, the tables and what the connection remembers of its writes,     *)
(* that clean tasks are on disk, that hydrating and releasing transcripts  *)
(* changes nothing a client is shown, and that the store implements        *)
(* TaskStore.  Then TaskSync: that no save of a client takes back what an  *)
(* active runtime has said, and the only ways in which a save takes        *)
(* history from the stored task.                                           *)
(***************************************************************************)
EXTENDS StateStore, TaskSync, FiniteSetTheorems, SequenceTheorems, TLAPS

----------------------------------------------------------------------------
(* Rows in the order of their positions                                    *)

UniqueIds(rows) == \A q, r \in rows : q.id = r.id => q = r
OnePerPosition(rows) == \A q, r \in rows : q.pos = r.pos => q = r
Earlier(rows, r) == {t \in rows : Before(t, r)}
RowAt(q, i) == [id |-> q[i].id, body |-> q[i].body, pos |-> i]

LEMMA RowNumbers == \A r \in Row : r.id \in Int /\ r.pos \in Nat \ {0}
<1>1. \A n \in Ids : n \in Nat  BY ConstantsAssumption
<1>2. \A r \in Row : r.id \in Ids /\ r.pos \in Nat \ {0}  BY DEF Row
<1> QED  BY <1>1, <1>2

\* The rows of different ids are ordered strictly, hence so are their ranks.
LEMMA RanksDiffer ==
    ASSUME NEW rows \in SUBSET Row, IsFiniteSet(rows), NEW q \in rows, NEW r \in rows, Before(q, r)
    PROVE  Cardinality(Earlier(rows, q)) < Cardinality(Earlier(rows, r))
<1> DEFINE Q == Earlier(rows, q)  R == Earlier(rows, r)
<1>0. \A t \in rows : t.id \in Int /\ t.pos \in Int  BY RowNumbers
<1>1. Q \subseteq R  BY <1>0 DEF Earlier, Before
<1>2. q \in R /\ q \notin Q  BY <1>0 DEF Earlier, Before
<1>3. R \subseteq rows  BY DEF Earlier
<1> HIDE DEF Q, R
<1>4. IsFiniteSet(R)  BY <1>3, FS_Subset
<1>5. /\ Cardinality(Q) <= Cardinality(R) /\ Cardinality(R) # Cardinality(Q)
      /\ IsFiniteSet(Q)
  BY <1>1, <1>2, <1>4, FS_Subset
<1>6. Cardinality(Q) \in Nat /\ Cardinality(R) \in Nat  BY <1>4, <1>5, FS_CardinalityType
<1> QED  BY <1>5, <1>6 DEF Q, R

\* Every rank is that of one row: ORDER BY lists each row once.
LEMMA NthRow ==
    ASSUME NEW rows \in SUBSET Row, IsFiniteSet(rows), UniqueIds(rows),
           NEW n \in 1..Cardinality(rows)
    PROVE  Nth(rows, n) \in rows /\ Cardinality(Earlier(rows, Nth(rows, n))) = n - 1
<1> DEFINE N == Cardinality(rows)
           f == [r \in rows |-> Cardinality(Earlier(rows, r)) + 1]
<1>1. N \in Nat  BY FS_CardinalityType
<1>2. ASSUME NEW r \in rows PROVE Cardinality(Earlier(rows, r)) \in 0..N - 1
  <2>0. r.id \in Int /\ r.pos \in Int  BY RowNumbers
  <2>1. Earlier(rows, r) \in SUBSET (rows \ {r})  BY <2>0 DEF Earlier, Before
  <2>2. IsFiniteSet(rows \ {r}) /\ Cardinality(rows \ {r}) = N - 1  BY FS_RemoveElement
  <2>3. IsFiniteSet(Earlier(rows, r)) /\ Cardinality(Earlier(rows, r)) <= N - 1
    BY <2>1, <2>2, FS_Subset
  <2>4. Cardinality(Earlier(rows, r)) \in Nat  BY <2>3, FS_CardinalityType
  <2> QED  BY <2>3, <2>4, <1>1
<1>3. f \in [rows -> 1..N]  BY <1>1, <1>2
<1>4. ASSUME NEW q \in rows, NEW r \in rows, f[q] = f[r] PROVE q = r
  <2>1. Cardinality(Earlier(rows, q)) = Cardinality(Earlier(rows, r))
    BY <1>1, <1>2, <1>4
  <2>2. ~Before(q, r) /\ ~Before(r, q)
    <3>1. Cardinality(Earlier(rows, q)) \in Nat /\ Cardinality(Earlier(rows, r)) \in Nat
      BY <1>2
    <3> QED  BY <2>1, <3>1, RanksDiffer
  <2>3. q.id \in Int /\ q.pos \in Int /\ r.id \in Int /\ r.pos \in Int
    BY RowNumbers
  <2>4. q.id = r.id  BY <2>2, <2>3 DEF Before
  <2> QED  BY <2>4 DEF UniqueIds
<1> HIDE DEF f
<1>5. f \in Injection(rows, 1..N)  BY <1>3, <1>4 DEF Injection, IsInjective
<1>6. IsFiniteSet(1..N) /\ Cardinality(1..N) = N  BY <1>1, FS_Interval
<1>7. f \in Surjection(rows, 1..N)  BY <1>5, <1>6, FS_Injection
<1>8. PICK r \in rows : f[r] = n  BY <1>7 DEF Surjection
<1>9. Cardinality(Earlier(rows, r)) = n - 1
  <2>1. Cardinality(Earlier(rows, r)) + 1 = n  BY <1>8 DEF f
  <2> QED  BY <2>1, <1>2
<1> QED  BY <1>9 DEF Nth, Earlier

LEMMA InOrderIsTranscript ==
    ASSUME NEW rows \in SUBSET Row, IsFiniteSet(rows), UniqueIds(rows)
    PROVE  InOrder(rows) \in Transcript /\ Len(InOrder(rows)) = Cardinality(rows)
<1> DEFINE N == Cardinality(rows)  q == InOrder(rows)
<1>1. N \in Nat  BY FS_CardinalityType
<1>2. \A n \in 1..N : Nth(rows, n) \in rows /\ Cardinality(Earlier(rows, Nth(rows, n))) = n - 1
  BY NthRow
<1>3. q = [n \in 1..N |-> [id |-> Nth(rows, n).id, body |-> Nth(rows, n).body]]  BY DEF InOrder
<1> HIDE DEF q, N
<1>4. q \in [1..N -> Message]  BY <1>2, <1>3 DEF Row, Message
<1>5. q \in Seq(Message) /\ Len(q) = N /\ DOMAIN q = 1..N  BY <1>1, <1>4
<1>6. ASSUME NEW i \in DOMAIN q, NEW j \in DOMAIN q, q[i].id = q[j].id PROVE i = j
  <2>1. Nth(rows, i).id = Nth(rows, j).id  BY <1>3, <1>5, <1>6
  <2>2. Nth(rows, i) = Nth(rows, j)  BY <2>1, <1>2, <1>5 DEF UniqueIds
  <2>3. i - 1 = j - 1  BY <2>2, <1>2, <1>5
  <2> QED  BY <2>3, <1>5
<1> QED  BY <1>5, <1>6 DEF Transcript, q, N

\* The first k rows of a transcript.
LEMMA PrefixRows ==
    ASSUME NEW q \in Transcript, NEW k \in 0..Len(q)
    PROVE  LET P == {RowAt(q, i) : i \in 1..k}
           IN IsFiniteSet(P) /\ Cardinality(P) = k
<1> DEFINE P == {RowAt(q, i) : i \in 1..k}
           f == [i \in 1..k |-> RowAt(q, i)]
<1>1. k \in Nat  BY LenProperties DEF Transcript
<1>2. f \in Bijection(1..k, P)
  <2>1. f \in [1..k -> P] /\ \A r \in P : \E i \in 1..k : f[i] = r  OBVIOUS
  <2>2. \A i, j \in 1..k : f[i] = f[j] => i = j  BY DEF RowAt
  <2> QED  BY <2>1, <2>2 DEF Bijection, Injection, Surjection, IsInjective
<1>3. ExistsBijection(1..k, P)  BY <1>2 DEF ExistsBijection
<1>4. IsFiniteSet(1..k) /\ Cardinality(1..k) = k  BY <1>1, FS_Interval
<1>5. IsFiniteSet(P) /\ Cardinality(P) = k  BY <1>3, <1>4, FS_Bijection
<1> QED  BY <1>5

\* A transcript is read back from its rows as it was.
LEMMA RowsOfTranscript ==
    ASSUME NEW q \in Transcript
    PROVE  /\ Fingerprints(q) \in SUBSET Row /\ IsFiniteSet(Fingerprints(q))
           /\ UniqueIds(Fingerprints(q)) /\ Cardinality(Fingerprints(q)) = Len(q)
           /\ \A i \in 1..Len(q) : RowAt(q, i) \in Fingerprints(q)
           /\ \A r \in Fingerprints(q) : r.pos \in 1..Len(q) /\ r = RowAt(q, r.pos)
           /\ InOrder(Fingerprints(q)) = q
<1> DEFINE F == Fingerprints(q)  N == Len(q)
<1>1. /\ q \in Seq(Message) /\ N \in Nat /\ DOMAIN q = 1..N
      /\ \A i \in 1..N : q[i] \in Message
      /\ \A i, j \in 1..N : q[i].id = q[j].id => i = j
  BY LenProperties, ElementOfSeq DEF Transcript
<1>2. F = {RowAt(q, i) : i \in 1..N}  BY <1>1 DEF Fingerprints, RowAt
<1>3. /\ \A i \in 1..N : RowAt(q, i) \in F /\ RowAt(q, i).pos = i
      /\ \A r \in F : r.pos \in 1..N /\ r = RowAt(q, r.pos)
  BY <1>2 DEF RowAt
<1> HIDE DEF F
<1>4. F \in SUBSET Row  BY <1>1, <1>2 DEF RowAt, Row, Message
<1>5. IsFiniteSet(F) /\ Cardinality(F) = N
  <2>1. N \in 0..Len(q)  BY <1>1
  <2> QED  BY <2>1, <1>2, PrefixRows
<1>6. UniqueIds(F)
  <2> SUFFICES ASSUME NEW r \in F, NEW t \in F, r.id = t.id PROVE r = t  BY DEF UniqueIds
  <2>1. r.id = q[r.pos].id /\ t.id = q[t.pos].id  BY <1>3 DEF RowAt
  <2>2. r.pos = t.pos  BY <2>1, <1>1, <1>3
  <2> QED  BY <2>2, <1>3
<1>7. ASSUME NEW k \in 1..N PROVE Cardinality(Earlier(F, RowAt(q, k))) = k - 1
  <2>1. Earlier(F, RowAt(q, k)) = {RowAt(q, i) : i \in 1..k - 1}
    <3>1. ASSUME NEW t \in F, Before(t, RowAt(q, k)) PROVE t \in {RowAt(q, i) : i \in 1..k - 1}
      <4>1. t.pos \in 1..N /\ t = RowAt(q, t.pos)  BY <1>3
      <4>2. t.pos # k
        <5> SUFFICES ASSUME t.pos = k PROVE FALSE  OBVIOUS
        <5>1. t = RowAt(q, k)  BY <4>1
        <5>2. t.id \in Int  BY <1>4, <3>1, RowNumbers
        <5> QED  BY <5>1, <5>2, <3>1, <4>1 DEF Before
      <4>3. t.pos <= k  BY <3>1, <4>1, <1>3 DEF Before
      <4>4. t.pos \in 1..k - 1  BY <4>1, <4>2, <4>3
      <4> QED  BY <4>1, <4>4
    <3>2. ASSUME NEW i \in 1..k - 1 PROVE RowAt(q, i) \in F /\ Before(RowAt(q, i), RowAt(q, k))
      <4>1. i \in 1..N /\ i < k  BY <1>1
      <4> QED  BY <4>1, <1>3 DEF Before
    <3> QED  BY <3>1, <3>2 DEF Earlier
  <2>2. k - 1 \in 0..Len(q)  BY <1>1
  <2> QED  BY <2>1, <2>2, PrefixRows
<1>8. ASSUME NEW n \in 1..N PROVE Nth(F, n) = RowAt(q, n)
  <2>1. Nth(F, n) \in F /\ Cardinality(Earlier(F, Nth(F, n))) = n - 1  BY <1>4, <1>5, <1>6, NthRow
  <2>2. PICK k \in 1..N : Nth(F, n) = RowAt(q, k)  BY <2>1, <1>3
  <2>3. k - 1 = n - 1  BY <2>1, <2>2, <1>7
  <2>4. k = n  BY <2>3, <1>1
  <2> QED  BY <2>2, <2>4
<1>9. InOrder(F) = q
  <2>1. InOrder(F) = [n \in 1..N |-> [id |-> Nth(F, n).id, body |-> Nth(F, n).body]]
    BY <1>5 DEF InOrder
  <2>2. ASSUME NEW n \in 1..N PROVE [id |-> Nth(F, n).id, body |-> Nth(F, n).body] = q[n]
    <3>1. Nth(F, n).id = q[n].id /\ Nth(F, n).body = q[n].body  BY <1>8 DEF RowAt
    <3> QED  BY <3>1, <1>1 DEF Message
  <2>3. q = [n \in 1..N |-> q[n]]  BY <1>1
  <2> QED  BY <2>1, <2>2, <2>3
<1> QED  BY <1>3, <1>4, <1>5, <1>6, <1>9 DEF F

----------------------------------------------------------------------------
(* The invariant                                                           *)

Unloaded(t) == Present(t) /\ ~t.loaded
Tasks == [Sessions -> Task \cup {Absent}]

\* The tables have the task t, but for displaced rows.
OnDiskAs(s, t) ==
    /\ sessionRows[s] = t.status /\ detailRows[s] = t.turns
    /\ ~Displaced(s) => messageRows[s] = Fingerprints(t.messages)

\* Of the tasks m, of which the set d is dirty, a skeleton stands for rows, and
\* what is not dirty is on disk.
SafeTask(s, t, clean) ==
    /\ Unloaded(t) => sessionRows[s] # None
    /\ clean /\ Unloaded(t) => sessionRows[s] = t.status
    /\ clean /\ t.loaded /\ Started(t) => OnDiskAs(s, t)
Safe(m, d) == \A s \in Sessions : SafeTask(s, m[s], s \notin d)

\* The rows of a task: what the connection believes to have written is there,
\* and unless rows are displaced they are those of a transcript; a task has
\* both of its rows or none, and has begun if it has them.
RowsOf(s) ==
    /\ messageRows[s] \in SUBSET Row /\ IsFiniteSet(messageRows[s]) /\ UniqueIds(messageRows[s])
    /\ written[s] \subseteq messageRows[s]
    /\ ~Displaced(s) => \E q \in Transcript : messageRows[s] = Fingerprints(q)
    /\ sessionRows[s] = None <=> detailRows[s] = None
    /\ sessionRows[s] # None => detailRows[s] = 1 \/ messageRows[s] # {}
Rows == \A s \in Sessions : RowsOf(s)

\* Only a rolled back transaction leaves work unsaved, or rows of a task that the
\* connection has forgotten or whose task has gone.
Leftover(s, t) == sessionRows[s] # None /\ (s \notin persisted \/ ~Started(t))
Failures ==
    /\ dirty # {} => rollbacks > 0
    /\ \A s \in Sessions : Leftover(s, sessions[s]) => rollbacks > 0

StoreInv == TypeOK /\ Safe(sessions, dirty) /\ Rows /\ Failures

----------------------------------------------------------------------------
(* Tasks                                                                   *)

LEMMA TaskFields ==
    ASSUME NEW t \in Task \cup {Absent}
    PROVE  /\ Absent \notin Task /\ ~Absent.loaded
           /\ Present(t) => t \in Task
           /\ t.loaded \in BOOLEAN /\ (t.loaded => Present(t))
           /\ Present(t) => t.status \in Bits /\ t.turns \in Bits /\ t.messages \in Transcript
           /\ t.messages \in Transcript /\ t.turns \in Bits
           /\ Started(t) => Present(t)
<1>1. Absent.status = None /\ Absent.turns = 0 /\ Absent.messages = <<>> /\ Absent.loaded = FALSE
  BY DEF Absent
<1>2. \A u \in Task : /\ u.status \in Bits /\ u.turns \in Bits /\ u.messages \in Transcript
                      /\ u.loaded \in BOOLEAN
  BY DEF Task
<1>3. <<>> \in Seq(Message) /\ DOMAIN <<>> = {}  BY EmptySeq
<1>4. <<>> \in Transcript  BY <1>3 DEF Transcript
<1>5. None \notin Bits /\ 0 \in Bits  BY DEF None, Bits
<1>6. Absent \notin Task  BY <1>1, <1>2, <1>5
<1>7. CASE t = Absent  BY <1>1, <1>4, <1>5, <1>6, <1>7 DEF Present, Started
<1>8. CASE t \in Task  BY <1>1, <1>2, <1>6, <1>8 DEF Present, Started
<1> QED  BY <1>7, <1>8

LEMMA LoadedTask ==
    ASSUME NEW status \in Bits, NEW turns \in Bits, NEW q \in Transcript
    PROVE  LET t == [status |-> status, turns |-> turns, messages |-> q, loaded |-> TRUE]
           IN t \in Task /\ Present(t) /\ ~Unloaded(t) /\ t.loaded
BY DEF Task, Absent, Present, Unloaded

\* What a task's messages are edited to is a transcript.
LEMMA EditedTranscript ==
    ASSUME NEW s \in Sessions, NEW q \in Transcript, NEW r \in Successors(s, q)
    PROVE  r \in Transcript
<1>1. /\ q \in Seq(Message) /\ Len(q) \in Nat /\ DOMAIN q = 1..Len(q)
      /\ \A i \in 1..Len(q) : q[i] \in Message
      /\ \A i, j \in 1..Len(q) : q[i].id = q[j].id => i = j
  BY LenProperties, ElementOfSeq DEF Transcript
<1>2. ASSUME NEW m \in Fresh(q), r = Append(q, m) PROVE r \in Transcript
  <2>1. m \in Message /\ \A i \in 1..Len(q) : q[i].id # m.id  BY <1>1 DEF Fresh
  <2>2. /\ r \in Seq(Message) /\ DOMAIN r = 1..Len(q) + 1
        /\ \A i \in 1..Len(q) : r[i] = q[i]
        /\ r[Len(q) + 1] = m
    BY <1>1, <1>2, <2>1, AppendProperties, LenProperties
  <2> QED  BY <1>1, <2>1, <2>2 DEF Transcript
<1>3. ASSUME NEW i \in DOMAIN q, r = [q EXCEPT ![i].body = 1 - @] PROVE r \in Transcript
  <2>1. [q[i] EXCEPT !.body = 1 - @] \in Message  BY <1>1, <1>3 DEF Message, Bits
  <2>2. r = [q EXCEPT ![i] = [q[i] EXCEPT !.body = 1 - @]]  BY <1>3
  <2>3. r \in Seq(Message) /\ Len(r) = Len(q)  BY <1>1, <1>3, <2>1, <2>2, ExceptSeq
  <2>4. DOMAIN r = 1..Len(q)  BY <2>3, LenProperties
  <2>5. \A j \in 1..Len(q) : r[j].id = q[j].id  BY <1>1, <2>2 DEF Message
  <2> QED  BY <1>1, <2>3, <2>4, <2>5 DEF Transcript
<1>4. ASSUME NEW n \in 0..Len(q), r = SubSeq(q, 1, n) PROVE r \in Transcript
  <2>1. r \in Seq(Message) /\ Len(r) = n /\ \A i \in 1..n : r[i] = q[i]
    BY <1>1, <1>4, SubSeqProperties
  <2>2. DOMAIN r = 1..n  BY <2>1, LenProperties
  <2> QED  BY <1>1, <2>1, <2>2 DEF Transcript
<1>5. ASSUME NEW m \in Fresh(q), q # <<>>, r = [q EXCEPT ![Len(q)] = m] PROVE r \in Transcript
  <2>1. m \in Message /\ \A i \in 1..Len(q) : q[i].id # m.id  BY <1>1 DEF Fresh
  <2>2. Len(q) \in 1..Len(q)  BY <1>1, <1>5, EmptySeq
  <2>3. r \in Seq(Message) /\ Len(r) = Len(q)  BY <1>1, <1>5, <2>1, <2>2, ExceptSeq
  <2>4. DOMAIN r = 1..Len(q)  BY <2>3, LenProperties
  <2>5. \A i \in 1..Len(q) : r[i] = IF i = Len(q) THEN m ELSE q[i]  BY <1>1, <1>5
  <2> QED  BY <1>1, <2>1, <2>2, <2>3, <2>4, <2>5 DEF Transcript
<1> QED  BY <1>2, <1>3, <1>4, <1>5 DEF Successors

\* What is read from the disk is a task with its transcript.
LEMMA FetchedTask ==
    ASSUME StoreInv, NEW s \in Sessions, Present(sessions[s])
    PROVE  /\ Fetched(s) \in Task /\ Fetched(s).loaded /\ Fetched(s).status = sessions[s].status
           /\ Hydrated(s) \in Task /\ Hydrated(s).loaded
           /\ Hydrated(s).turns = Fetched(s).turns /\ Hydrated(s).messages = Fetched(s).messages
           /\ sessions[s].loaded => Fetched(s) = sessions[s] /\ Hydrated(s) = sessions[s]
           /\ Unloaded(sessions[s]) =>
                 Fetched(s) = [status |-> sessions[s].status, turns |-> detailRows[s],
                               messages |-> Stored(s), loaded |-> TRUE]
<1>1. sessions[s] \in Task  BY TaskFields DEF StoreInv, TypeOK
<1>2. Stored(s) \in Transcript  BY InOrderIsTranscript DEF StoreInv, Rows, RowsOf, Stored
<1>3. detailRows[s] \in Bits \cup {None}  BY DEF StoreInv, TypeOK
<1>4. Unloaded(sessions[s]) => detailRows[s] # None
  BY DEF StoreInv, Safe, SafeTask, Rows, RowsOf
<1>5. CASE sessions[s].loaded  BY <1>1, <1>5 DEF Fetched, Hydrated, Unloaded
<1>6. CASE ~sessions[s].loaded
  <2>1. Unloaded(sessions[s]) /\ detailRows[s] \in Bits  BY <1>3, <1>4, <1>6 DEF Unloaded
  <2>2. Fetched(s) = [sessions[s] EXCEPT !.turns = detailRows[s], !.messages = Stored(s), !.loaded = TRUE]
    BY <1>4, <1>6, <2>1 DEF Fetched
  <2>3. Fetched(s) \in Task /\ Fetched(s) = [status |-> sessions[s].status, turns |-> detailRows[s],
                               messages |-> Stored(s), loaded |-> TRUE]
    BY <1>1, <1>2, <2>1, <2>2 DEF Task
  <2>4. Hydrated(s) = IF Fetched(s).turns = 0 THEN Fetched(s) ELSE [Fetched(s) EXCEPT !.status = 1]
    BY <1>6 DEF Hydrated
  <2>5. ASSUME NEW t \in Task, NEW u, u = (IF t.turns = 0 THEN t ELSE [t EXCEPT !.status = 1])
        PROVE  u \in Task /\ u.turns = t.turns /\ u.messages = t.messages /\ u.loaded = t.loaded
    BY <2>5 DEF Task, Bits
  <2>6. Fetched(s).loaded /\ Fetched(s).status = sessions[s].status  BY <2>3
  <2> QED  BY <1>6, <2>3, <2>4, <2>5, <2>6
<1>7. sessions[s].loaded \in BOOLEAN  BY <1>1 DEF Task
<1> QED  BY <1>5, <1>6, <1>7

----------------------------------------------------------------------------
(* A save writes                                                           *)

\* After write_messages the rows are those of the transcript, and possibly some
\* that its messages have displaced.
LEMMA MessagesWritten ==
    ASSUME NEW s \in Sessions, RowsOf(s), NEW q \in Transcript
    PROVE  LET W == WriteMessages(s, q)
           IN /\ W \in SUBSET Row /\ IsFiniteSet(W) /\ UniqueIds(W)
              /\ Fingerprints(q) \subseteq W
              /\ OnePerPosition(W) => W = Fingerprints(q)
<1> DEFINE F == Fingerprints(q)
           changed == F \ written[s]
           untouched == {r \in messageRows[s] : \A c \in changed : c.id # r.id}
           W == CutTail(q, untouched \cup changed)
<1>1. WriteMessages(s, q) = W  BY DEF WriteMessages
<1>2. /\ F \in SUBSET Row /\ IsFiniteSet(F) /\ UniqueIds(F)
      /\ \A i \in 1..Len(q) : RowAt(q, i) \in F
      /\ \A r \in F : r.pos \in 1..Len(q) /\ r = RowAt(q, r.pos)
      /\ Len(q) \in Nat
  BY RowsOfTranscript, LenProperties DEF Transcript
<1>3. /\ messageRows[s] \in SUBSET Row /\ IsFiniteSet(messageRows[s]) /\ UniqueIds(messageRows[s])
      /\ written[s] \subseteq messageRows[s]
  BY DEF RowsOf
<1> HIDE DEF F
<1>4. W \subseteq messageRows[s] \cup F  BY DEF CutTail
<1>5. W \in SUBSET Row  BY <1>2, <1>3, <1>4
<1>6. IsFiniteSet(W)
  <2>1. IsFiniteSet(messageRows[s] \cup F)  BY <1>2, <1>3, FS_Union
  <2> QED  BY <2>1, <1>4, FS_Subset
<1>7. UniqueIds(W)
  <2>1. \A r \in W : r \in untouched \/ r \in changed  BY DEF CutTail
  <2> SUFFICES ASSUME NEW r \in W, NEW t \in W, r.id = t.id PROVE r = t  BY DEF UniqueIds
  <2>2. CASE r \in changed /\ t \in changed  BY <2>2, <1>2 DEF UniqueIds
  <2>3. CASE r \in untouched /\ t \in untouched  BY <2>3, <1>3 DEF UniqueIds
  <2> QED  BY <2>1, <2>2, <2>3
<1>8. F \subseteq W
  <2> SUFFICES ASSUME NEW r \in F PROVE r \in W  OBVIOUS
  <2>1. r.pos <= Len(q)  BY <1>2
  <2>2. CASE r \in changed  BY <2>1, <2>2 DEF CutTail
  <2>3. CASE r \notin changed
    <3>1. r \in messageRows[s]  BY <2>3, <1>3
    <3>2. \A c \in changed : c.id # r.id  BY <2>3, <1>2 DEF UniqueIds
    <3> QED  BY <2>1, <3>1, <3>2 DEF CutTail
  <2> QED  BY <2>2, <2>3
<1>9. ASSUME OnePerPosition(W) PROVE W = F
  <2> SUFFICES ASSUME NEW r \in W PROVE r \in F  BY <1>8
  <2>1. r.pos \in Nat \ {0} /\ r.pos <= Len(q)  BY <1>5, RowNumbers DEF CutTail
  <2>2. RowAt(q, r.pos) \in F /\ RowAt(q, r.pos).pos = r.pos  BY <2>1, <1>2 DEF RowAt
  <2>3. RowAt(q, r.pos) = r  BY <2>2, <1>8, <1>9 DEF OnePerPosition
  <2> QED  BY <2>2, <2>3
<1> QED  BY <1>1, <1>5, <1>6, <1>7, <1>8, <1>9 DEF F

\* A row or two of a task that has begun.
LEMMA BegunHasRows ==
    ASSUME NEW t \in Task, t.loaded, Started(t)
    PROVE  t.turns = 1 \/ Fingerprints(t.messages) # {}
<1>1. t.turns \in Bits /\ t.messages \in Transcript  BY DEF Task
<1>2. t.turns # 0 \/ t.messages # <<>>  BY DEF Started
<1>3. CASE t.messages # <<>>
  <2>1. t.messages \in Seq(Message) /\ Len(t.messages) \in Nat /\ Len(t.messages) # 0
    BY <1>1, <1>3, EmptySeq, LenProperties DEF Transcript
  <2>2. 1 \in 1..Len(t.messages)  BY <2>1
  <2>3. RowAt(t.messages, 1) \in Fingerprints(t.messages)  BY <1>1, <2>2, RowsOfTranscript
  <2> QED  BY <2>3
<1> QED  BY <1>1, <1>2, <1>3 DEF Bits

\* What a save that commits leaves of the task m[s] on disk.
LEMMA CommitOne ==
    ASSUME StoreInv, NEW m \in Tasks, NEW d \in SUBSET Sessions, NEW p, Safe(m, d), NEW s \in Sessions,
           Remember(m, d, p), WriteTables(m, d, p), written' = Written(m, Whole(m, d)), UNCHANGED rollbacks
    PROVE  /\ RowsOf(s)' /\ sessionRows'[s] \in Bits \cup {None} /\ detailRows'[s] \in Bits \cup {None}
           /\ Unloaded(m[s]) => /\ sessionRows'[s] = m[s].status
                                /\ detailRows'[s] = detailRows[s] /\ messageRows'[s] = messageRows[s]
           /\ m[s].loaded /\ Started(m[s]) => OnDiskAs(s, m[s])'
           /\ Leftover(s, m[s])' => rollbacks' > 0
<1>1. /\ m[s] \in Task \cup {Absent} /\ SafeTask(s, m[s], s \notin d) /\ RowsOf(s)
      /\ Leftover(s, sessions[s]) => rollbacks > 0
      /\ sessionRows[s] \in Bits \cup {None} /\ detailRows[s] \in Bits \cup {None}
  BY DEF StoreInv, Safe, Rows, Failures, Tasks, TypeOK
<1>2. /\ sessionRows'[s] = IF s \in Removed(m) THEN None
                           ELSE IF s \in Whole(m, d) \cup Columns(m, d) THEN m[s].status ELSE sessionRows[s]
      /\ detailRows'[s] = IF s \in Removed(m) THEN None
                          ELSE IF s \in Whole(m, d) THEN m[s].turns ELSE detailRows[s]
      /\ messageRows'[s] = IF s \in Removed(m) THEN {}
                           ELSE IF s \in Whole(m, d) THEN WriteMessages(s, m[s].messages)
                           ELSE messageRows[s]
      /\ written'[s] = IF s \in Removed(m) THEN {}
                       ELSE IF s \in Whole(m, d) THEN Fingerprints(m[s].messages) ELSE written[s]
      /\ s \in persisted' <=> (s \in persisted \cup Whole(m, d) \cup Columns(m, d)) /\ s \notin Removed(m)
  BY DEF WriteTables, Remember, Written
<1>3. /\ s \in Removed(m) <=> s \in persisted /\ ~Started(m[s])
      /\ s \in Whole(m, d) <=> Started(m[s]) /\ m[s].loaded /\ (s \in d \/ s \notin persisted)
      /\ s \in Columns(m, d) <=> Started(m[s]) /\ ~m[s].loaded /\ s \in d
      /\ m[s].loaded \in BOOLEAN
  BY <1>1, TaskFields DEF Removed, Whole, Columns, Live
<1>4. Unloaded(m[s]) => Started(m[s])  BY DEF Unloaded, Started
<1> DEFINE status == m[s].status  turns == m[s].turns  q == m[s].messages
<1>5. CASE s \in Removed(m)
  <2>1. sessionRows'[s] = None /\ detailRows'[s] = None /\ messageRows'[s] = {} /\ written'[s] = {}
    BY <1>2, <1>5
  <2>2. <<>> \in Transcript /\ Fingerprints(<<>>) = {}
    BY EmptySeq DEF Transcript, Fingerprints
  <2>3. RowsOf(s)'  BY <2>1, <2>2, FS_EmptySet DEF RowsOf, UniqueIds
  <2> QED  BY <1>3, <1>4, <1>5, <2>1, <2>3 DEF Leftover
<1>6. CASE s \in Whole(m, d)
  <2>1. s \notin Removed(m) /\ m[s] \in Task /\ ~Unloaded(m[s])  BY <1>1, <1>3, <1>6, TaskFields DEF Unloaded
  <2>2. /\ sessionRows'[s] = status /\ detailRows'[s] = turns
        /\ messageRows'[s] = WriteMessages(s, q) /\ written'[s] = Fingerprints(q) /\ s \in persisted'
    BY <1>2, <1>6, <2>1
  <2>3. status \in Bits /\ turns \in Bits /\ q \in Transcript  BY <2>1 DEF Task
  <2>4. /\ messageRows'[s] \in SUBSET Row /\ IsFiniteSet(messageRows'[s]) /\ UniqueIds(messageRows'[s])
        /\ Fingerprints(q) \subseteq messageRows'[s]
        /\ OnePerPosition(messageRows'[s]) => messageRows'[s] = Fingerprints(q)
    BY <1>1, <2>2, <2>3, MessagesWritten
  <2>5. ~Displaced(s)' => messageRows'[s] = Fingerprints(q)
    BY <2>4 DEF Displaced, OnePerPosition
  <2>6. turns = 1 \/ Fingerprints(q) # {}  BY <1>3, <1>6, <2>1, BegunHasRows
  <2>7. status # None /\ turns # None  BY <2>3 DEF Bits, None
  <2>8. RowsOf(s)'
    <3> HIDE DEF q, turns, status
    <3> QED  BY <2>2, <2>3, <2>4, <2>5, <2>6, <2>7 DEF RowsOf
  <2>9. OnDiskAs(s, m[s])'  BY <2>2, <2>5 DEF OnDiskAs
  <2> QED  BY <1>3, <1>6, <2>1, <2>2, <2>3, <2>8, <2>9 DEF Leftover
<1>7. CASE s \notin Removed(m) /\ s \notin Whole(m, d)
  <2>1. /\ detailRows'[s] = detailRows[s] /\ messageRows'[s] = messageRows[s] /\ written'[s] = written[s]
        /\ sessionRows'[s] = IF s \in Columns(m, d) THEN status ELSE sessionRows[s]
        /\ Displaced(s)' = Displaced(s)
    BY <1>2, <1>7 DEF Displaced
  <2>2. CASE s \in Columns(m, d)
    <3>1. /\ m[s] \in Task /\ Unloaded(m[s]) /\ ~m[s].loaded /\ s \in persisted'
          /\ Started(m[s]) /\ sessionRows[s] # None
      BY <1>1, <1>2, <1>3, <1>7, <2>2, TaskFields DEF Unloaded, SafeTask
    <3>2. status \in Bits /\ status # None  BY <3>1 DEF Task, Bits, None
    <3>3. RowsOf(s)'  BY <1>1, <2>1, <2>2, <3>1, <3>2 DEF RowsOf
    <3> QED  BY <1>1, <2>1, <2>2, <3>1, <3>2, <3>3 DEF Leftover
  <2>3. CASE s \notin Columns(m, d)
    <3>1. sessionRows'[s] = sessionRows[s]  BY <2>1, <2>3
    <3>2. RowsOf(s)'  BY <1>1, <2>1, <3>1 DEF RowsOf
    <3>3. Unloaded(m[s]) => s \notin d  BY <1>3, <1>4, <2>3 DEF Unloaded
    <3>4. m[s].loaded /\ Started(m[s]) => s \notin d  BY <1>3, <1>7
    <3>5. m[s].loaded /\ Started(m[s]) => OnDiskAs(s, m[s])'
      BY <1>1, <2>1, <3>1, <3>4 DEF SafeTask, OnDiskAs
    <3>6. Unloaded(m[s]) => sessionRows'[s] = status  BY <1>1, <3>1, <3>3 DEF SafeTask
    <3>7. Leftover(s, m[s])' => s \notin persisted
      BY <1>2, <1>3, <1>7, <2>3 DEF Leftover
    <3>8. Leftover(s, m[s])' => rollbacks' > 0
      BY <1>1, <3>1, <3>7 DEF Leftover
    <3> QED  BY <1>1, <2>1, <3>1, <3>2, <3>5, <3>6, <3>8
  <2> QED  BY <2>2, <2>3
<1> QED  BY <1>5, <1>6, <1>7

----------------------------------------------------------------------------
(* Every critical section keeps the invariant                              *)

LEMMA TrimmedTasks ==
    ASSUME NEW m \in Tasks, NEW d, NEW t \in Trimmed(m, d)
    PROVE  /\ t \in Tasks
           /\ \A s \in Sessions :
                 \/ t[s] = m[s]
                 \/ /\ m[s] \in Task /\ m[s].loaded /\ Started(m[s]) /\ s \notin d
                    /\ t[s] = Released(m[s]) /\ t[s] \in Task /\ Unloaded(t[s])
                    /\ t[s].status = m[s].status /\ Started(t[s])
<1>1. PICK R \in SUBSET Trimmable(m, d) : t = [s \in Sessions |-> IF s \in R THEN Released(m[s]) ELSE m[s]]
  BY DEF Trimmed
<1>2. ASSUME NEW s \in Sessions, s \in R
      PROVE  /\ m[s] \in Task /\ m[s].loaded /\ Started(m[s]) /\ s \notin d
             /\ t[s] = Released(m[s]) /\ t[s] \in Task /\ Unloaded(t[s])
             /\ t[s].status = m[s].status /\ Started(t[s])
  <2>1. m[s] \in Task /\ m[s].loaded /\ Started(m[s]) /\ s \notin d
    BY <1>2, TaskFields DEF Tasks, Trimmable, HasTranscript, Started
  <2>2. t[s] = [m[s] EXCEPT !.turns = 0, !.messages = <<>>, !.loaded = FALSE]
    BY <1>1, <1>2 DEF Released
  <2>3. <<>> \in Transcript /\ 0 \in Bits /\ Absent \notin Task
    BY TaskFields, EmptySeq DEF Bits, Transcript
  <2>4. t[s] \in Task /\ ~t[s].loaded /\ t[s].status = m[s].status  BY <2>1, <2>2, <2>3 DEF Task
  <2>5. Unloaded(t[s]) /\ Started(t[s])  BY <2>3, <2>4 DEF Unloaded, Present, Started
  <2> QED  BY <1>1, <1>2, <2>1, <2>4, <2>5
<1>3. \A s \in Sessions : s \notin R => t[s] = m[s]  BY <1>1
<1>4. t \in Tasks  BY <1>1, <1>2 DEF Tasks
<1> QED  BY <1>2, <1>3, <1>4

LEMMA SavedKeeps ==
    ASSUME StoreInv, NEW m \in Tasks, NEW d \in SUBSET Sessions, NEW p \in 0..MaxProjects, Safe(m, d),
           Saved(m, d, p), gone' \in SUBSET Sessions
    PROVE  StoreInv'
<1>1. /\ Remember(m, d, p) /\ WriteTables(m, d, p) /\ written' = Written(m, Whole(m, d))
      /\ sessions' \in Trimmed(m, {}) /\ dirty' = {} /\ projects' = p /\ rollbacks' = rollbacks
  BY DEF Saved
<1>2. ASSUME NEW s \in Sessions
      PROVE  /\ RowsOf(s)' /\ sessionRows'[s] \in Bits \cup {None} /\ detailRows'[s] \in Bits \cup {None}
             /\ Unloaded(m[s]) => sessionRows'[s] = m[s].status
             /\ m[s].loaded /\ Started(m[s]) => OnDiskAs(s, m[s])'
             /\ Leftover(s, m[s])' => rollbacks' > 0
  BY <1>1, CommitOne
<1>3. /\ sessions' \in Tasks
      /\ \A s \in Sessions :
            \/ sessions'[s] = m[s]
            \/ /\ m[s] \in Task /\ m[s].loaded /\ Started(m[s])
               /\ Unloaded(sessions'[s]) /\ sessions'[s].status = m[s].status /\ Started(sessions'[s])
  BY <1>1, TrimmedTasks
<1>4. ASSUME NEW s \in Sessions PROVE SafeTask(s, sessions[s], s \notin dirty)'
  <2>1. CASE sessions'[s] = m[s]
    <3>1. m[s] \in Task \cup {Absent}  BY DEF Tasks
    <3>2. Unloaded(m[s]) => m[s].status # None
      BY <3>1, TaskFields DEF Unloaded, Bits, None
    <3> QED  BY <1>2, <2>1, <3>2 DEF SafeTask
  <2>2. CASE /\ m[s] \in Task /\ m[s].loaded /\ Started(m[s])
             /\ Unloaded(sessions'[s]) /\ sessions'[s].status = m[s].status
    <3>1. sessionRows'[s] = m[s].status /\ m[s].status # None
      BY <1>2, <2>2 DEF OnDiskAs, Task, Bits, None
    <3> QED  BY <2>2, <3>1 DEF SafeTask, Unloaded
  <2> QED  BY <1>3, <2>1, <2>2
<1>5. ASSUME NEW s \in Sessions, Leftover(s, sessions[s])' PROVE rollbacks' > 0
  <2>1. Leftover(s, m[s])'  BY <1>3, <1>5 DEF Leftover
  <2> QED  BY <2>1, <1>2
<1>6. /\ persisted' \in SUBSET Sessions /\ savedProjects' \in {None} \cup 0..MaxProjects
      /\ projectRows' \in 0..MaxProjects /\ rollbacks' \in 0..MaxRollbacks
  BY <1>1 DEF Remember, WriteTables, StoreInv, TypeOK, Whole, Columns, Live
<1>7. /\ sessionRows' \in [Sessions -> Bits \cup {None}] /\ detailRows' \in [Sessions -> Bits \cup {None}]
      /\ messageRows' \in [Sessions -> SUBSET Row] /\ written' \in [Sessions -> SUBSET Row]
  <2>1. /\ sessionRows' = [s \in Sessions |-> sessionRows'[s]]
        /\ detailRows' = [s \in Sessions |-> detailRows'[s]]
        /\ messageRows' = [s \in Sessions |-> messageRows'[s]]
        /\ written' = [s \in Sessions |-> written'[s]]
    BY <1>1 DEF WriteTables, Written
  <2>2. \A s \in Sessions : messageRows'[s] \in SUBSET Row /\ written'[s] \in SUBSET Row
    BY <1>2 DEF RowsOf
  <2> QED  BY <1>2, <2>1, <2>2
<1>8. TypeOK'  BY <1>1, <1>3, <1>6, <1>7 DEF TypeOK, Tasks
<1> QED  BY <1>1, <1>2, <1>4, <1>5, <1>8 DEF StoreInv, Safe, Rows, Failures

LEMMA RolledBackKeeps ==
    ASSUME StoreInv, NEW m \in Tasks, NEW d \in SUBSET Sessions, NEW p \in 0..MaxProjects, Safe(m, d),
           RolledBack(m, d, p), gone' \in SUBSET Sessions
    PROVE  StoreInv'
<1>1. /\ Remember(m, d, p) /\ written' = Written(m, {}) /\ sessions' = m /\ dirty' = d /\ projects' = p
      /\ UNCHANGED <<sessionRows, detailRows, messageRows, projectRows>>
      /\ rollbacks < MaxRollbacks /\ rollbacks' = rollbacks + 1
  BY DEF RolledBack, WrittenOnRollback, tables
<1>2. TypeOK /\ Rows  BY DEF StoreInv
<1>3. rollbacks' \in 0..MaxRollbacks /\ rollbacks' > 0  BY <1>1, <1>2, ConstantsAssumption DEF TypeOK
<1>4. /\ persisted' \in SUBSET Sessions /\ savedProjects' \in {None} \cup 0..MaxProjects
  BY <1>1, <1>2 DEF Remember, TypeOK, Whole, Columns, Live
<1>5. \A s \in Sessions : written'[s] \in {{}, written[s]}  BY <1>1 DEF Written
<1>6. written' \in [Sessions -> SUBSET Row]
  <2>1. written' = [s \in Sessions |-> written'[s]]  BY <1>1 DEF Written
  <2> QED  BY <2>1, <1>2, <1>5 DEF TypeOK
<1>7. TypeOK'  BY <1>1, <1>2, <1>3, <1>4, <1>6 DEF TypeOK, Tasks
<1>8. ASSUME NEW s \in Sessions PROVE RowsOf(s)'
  <2>1. RowsOf(s)  BY <1>2 DEF Rows
  <2>2. Displaced(s)' = Displaced(s)  BY <1>1 DEF Displaced
  <2> QED  BY <1>1, <1>5, <2>1, <2>2 DEF RowsOf
<1>9. ASSUME NEW s \in Sessions PROVE SafeTask(s, sessions[s], s \notin dirty)'
  <2>1. SafeTask(s, m[s], s \notin d)  BY DEF Safe
  <2>2. Displaced(s)' = Displaced(s)  BY <1>1 DEF Displaced
  <2>3. OnDiskAs(s, sessions[s])' <=> OnDiskAs(s, m[s])  BY <1>1, <2>2 DEF OnDiskAs
  <2> QED  BY <1>1, <2>1, <2>3 DEF SafeTask
<1> QED  BY <1>3, <1>7, <1>8, <1>9 DEF StoreInv, Safe, Rows, Failures

LEMMA SaveKeeps ==
    ASSUME StoreInv, NEW m \in Tasks, NEW d \in SUBSET Sessions, NEW p \in 0..MaxProjects, Safe(m, d),
           Save(m, d, p), gone' \in SUBSET Sessions
    PROVE  StoreInv'
BY SavedKeeps, RolledBackKeeps DEF Save

\* One task changes, and is dirty from then on.
LEMMA ChangedTask ==
    ASSUME StoreInv, NEW s \in Sessions, NEW t \in Task, Unloaded(t) => sessionRows[s] # None
    PROVE  LET m == [sessions EXCEPT ![s] = t]
           IN m \in Tasks /\ dirty \cup {s} \in SUBSET Sessions /\ Safe(m, dirty \cup {s})
<1> DEFINE m == [sessions EXCEPT ![s] = t]
<1>1. sessions \in Tasks /\ dirty \in SUBSET Sessions /\ Safe(sessions, dirty)
  BY DEF StoreInv, TypeOK, Tasks
<1>2. m \in Tasks /\ m[s] = t /\ \A r \in Sessions : r # s => m[r] = sessions[r]  BY <1>1 DEF Tasks
<1> HIDE DEF m
<1>3. ASSUME NEW r \in Sessions PROVE SafeTask(r, m[r], r \notin dirty \cup {s})
  <2>1. CASE r = s  BY <1>2, <2>1 DEF SafeTask
  <2>2. CASE r # s
    <3>1. SafeTask(r, m[r], r \notin dirty)  BY <1>1, <1>2, <2>2 DEF Safe
    <3> QED  BY <2>2, <3>1 DEF SafeTask
  <2> QED  BY <2>1, <2>2
<1>4. Safe(m, dirty \cup {s})  BY <1>3 DEF Safe
<1> QED  BY <1>1, <1>2, <1>4 DEF m

LEMMA CommandKeeps ==
    ASSUME StoreInv, NEW s \in Sessions, Create(s) \/ Update(s) \/ Relabel(s)
    PROVE  StoreInv'
<1>1. /\ sessions[s] \in Task \cup {Absent} /\ sessions \in Tasks
      /\ projects \in 0..MaxProjects /\ gone \in SUBSET Sessions
      /\ SafeTask(s, sessions[s], s \notin dirty)
  BY DEF StoreInv, TypeOK, Tasks, Safe
<1>2. CASE Create(s)
  <2>1. PICK turns \in Bits, q \in Successors(s, <<>>) :
          Save([sessions EXCEPT ![s] = [status |-> 0, turns |-> turns, messages |-> q, loaded |-> TRUE]],
               dirty \cup {s}, projects)
    BY <1>2 DEF Create
  <2>2. q \in Transcript
    <3>1. <<>> \in Transcript  BY TaskFields DEF Absent
    <3> QED  BY <3>1, EditedTranscript
  <2>3. 0 \in Bits  BY DEF Bits
  <2>4. gone' \in SUBSET Sessions  BY <1>1, <1>2 DEF Create
  <2> QED  BY <1>1, <2>1, <2>2, <2>3, <2>4, LoadedTask, ChangedTask, SaveKeeps
<1>3. CASE Update(s)
  <2>1. PICK status \in Bits, turns \in Bits, q \in Successors(s, Fetched(s).messages) :
          Save([sessions EXCEPT ![s] =
                   [status |-> status, turns |-> turns, messages |-> q, loaded |-> TRUE]],
               dirty \cup {s}, projects)
    BY <1>3 DEF Update
  <2>2. q \in Transcript
    <3>1. Fetched(s) \in Task  BY <1>3, FetchedTask DEF Update
    <3>2. Fetched(s).messages \in Transcript  BY <3>1 DEF Task
    <3> QED  BY <3>2, EditedTranscript
  <2>3. gone' \in SUBSET Sessions  BY <1>1, <1>3 DEF Update
  <2> QED  BY <1>1, <2>1, <2>2, <2>3, LoadedTask, ChangedTask, SaveKeeps
<1>4. CASE Relabel(s)
  <2> DEFINE t == [sessions[s] EXCEPT !.status = 1 - @]
  <2>1. sessions[s] \in Task  BY <1>1, <1>4, TaskFields DEF Relabel
  <2>2. t \in Task /\ t.loaded = sessions[s].loaded  BY <2>1 DEF Task, Bits
  <2>3. Unloaded(t) => Unloaded(sessions[s])  BY <1>4, <2>2 DEF Unloaded, Relabel
  <2>4. Save([sessions EXCEPT ![s].status = 1 - @], dirty \cup {s}, projects) /\ gone' = gone
    BY <1>4 DEF Relabel
  <2>5. [sessions EXCEPT ![s].status = 1 - @] = [sessions EXCEPT ![s] = t]  OBVIOUS
  <2> HIDE DEF t
  <2>6. Save([sessions EXCEPT ![s] = t], dirty \cup {s}, projects)  BY <2>4, <2>5
  <2>7. Unloaded(t) => sessionRows[s] # None  BY <1>1, <2>3 DEF SafeTask
  <2> QED  BY <1>1, <2>2, <2>4, <2>6, <2>7, ChangedTask, SaveKeeps
<1> QED  BY <1>2, <1>3, <1>4

LEMMA RemoveKeeps == ASSUME StoreInv, NEW s \in Sessions, Remove(s) PROVE StoreInv'
<1> DEFINE m == [sessions EXCEPT ![s] = Absent]
<1>1. /\ sessions \in Tasks /\ dirty \in SUBSET Sessions /\ Safe(sessions, dirty)
      /\ projects \in 0..MaxProjects /\ gone' \in SUBSET Sessions
  BY DEF StoreInv, TypeOK, Tasks, Remove
<1>2. m \in Tasks /\ m[s] = Absent /\ \A r \in Sessions : r # s => m[r] = sessions[r]
  BY <1>1 DEF Tasks
<1>3. Save(m, dirty, projects)  BY DEF Remove
<1> HIDE DEF m
<1>4. Safe(m, dirty)
  <2>1. ~Unloaded(Absent) /\ ~Absent.loaded  BY TaskFields DEF Unloaded, Present
  <2> QED  BY <1>1, <1>2, <2>1 DEF Safe, SafeTask
<1> QED  BY <1>1, <1>2, <1>3, <1>4, SaveKeeps

LEMMA ProjectsKeep == ASSUME StoreInv, NEW p \in 0..MaxProjects, ChangeProjects(p) PROVE StoreInv'
<1>1. /\ sessions \in Tasks /\ dirty \in SUBSET Sessions /\ Safe(sessions, dirty)
      /\ gone' \in SUBSET Sessions /\ Save(sessions, dirty, p)
  BY DEF StoreInv, TypeOK, Tasks, ChangeProjects
<1> QED  BY <1>1, SaveKeeps

\* A task that is hydrated, and clean, is as the disk has it.
LEMMA HydratedSafe ==
    ASSUME StoreInv, NEW s \in Sessions, Present(sessions[s]), Hydrated(s).status = sessions[s].status
    PROVE  /\ [sessions EXCEPT ![s] = Hydrated(s)] \in Tasks
           /\ Safe([sessions EXCEPT ![s] = Hydrated(s)], dirty)
<1> DEFINE m == [sessions EXCEPT ![s] = Hydrated(s)]
<1>1. sessions \in Tasks /\ Safe(sessions, dirty) /\ RowsOf(s)
  BY DEF StoreInv, TypeOK, Tasks, Rows
<1>2. /\ Hydrated(s) \in Task /\ Hydrated(s).loaded
      /\ sessions[s].loaded => Hydrated(s) = sessions[s]
      /\ Unloaded(sessions[s]) => Hydrated(s).turns = detailRows[s] /\ Hydrated(s).messages = Stored(s)
  BY FetchedTask
<1>3. m \in Tasks /\ m[s] = Hydrated(s) /\ \A r \in Sessions : r # s => m[r] = sessions[r]
  BY <1>1, <1>2 DEF Tasks
<1> HIDE DEF m
<1>4. SafeTask(s, m[s], s \notin dirty)
  <2>1. SafeTask(s, sessions[s], s \notin dirty)  BY <1>1 DEF Safe
  <2>2. CASE sessions[s].loaded  BY <1>2, <1>3, <2>1, <2>2
  <2>3. CASE Unloaded(sessions[s])
    <3>1. ~Displaced(s) => messageRows[s] = Fingerprints(Stored(s))
      <4> SUFFICES ASSUME ~Displaced(s) PROVE messageRows[s] = Fingerprints(Stored(s))  OBVIOUS
      <4>1. PICK q \in Transcript : messageRows[s] = Fingerprints(q)  BY <1>1 DEF RowsOf
      <4>2. Stored(s) = q  BY <4>1, RowsOfTranscript DEF Stored
      <4> QED  BY <4>1, <4>2
    <3>2. s \notin dirty => OnDiskAs(s, Hydrated(s))
      BY <1>2, <2>1, <2>3, <3>1 DEF SafeTask, OnDiskAs
    <3> QED  BY <1>2, <1>3, <3>2 DEF SafeTask, Unloaded
  <2> QED  BY <2>2, <2>3 DEF Unloaded
<1>5. \A r \in Sessions : r # s => SafeTask(r, m[r], r \notin dirty)  BY <1>1, <1>3 DEF Safe
<1>6. Safe(m, dirty)  BY <1>4, <1>5 DEF Safe
<1> QED  BY <1>3, <1>6 DEF m

\* A task that has rows on disk has begun once it is hydrated.
LEMMA HydratedBegun ==
    ASSUME StoreInv, NEW s \in Sessions, Unloaded(sessions[s])
    PROVE  Started(Hydrated(s)) /\ sessionRows[s] # None
<1>1. RowsOf(s) /\ sessionRows[s] # None /\ Present(sessions[s])
  BY DEF StoreInv, Rows, Safe, SafeTask, Unloaded
<1>2. /\ Hydrated(s) \in Task /\ Hydrated(s).turns = detailRows[s]
      /\ Hydrated(s).messages = Stored(s)
  BY <1>1, FetchedTask
<1>3. detailRows[s] = 1 \/ Stored(s) # <<>>
  <2>1. CASE messageRows[s] # {}
    <3>1. Len(Stored(s)) = Cardinality(messageRows[s])  BY <1>1, InOrderIsTranscript DEF RowsOf, Stored
    <3>2. Cardinality(messageRows[s]) # 0  BY <1>1, <2>1, FS_EmptySet DEF RowsOf
    <3>3. Len(<<>>) = 0  OBVIOUS
    <3> QED  BY <3>1, <3>2, <3>3
  <2> QED  BY <1>1, <2>1 DEF RowsOf
<1> QED  BY <1>1, <1>2, <1>3, TaskFields DEF Started, Present

LEMMA HydrateKeeps == ASSUME StoreInv, NEW s \in Sessions, HydrateSession(s) PROVE StoreInv'
<1> DEFINE m == [sessions EXCEPT ![s] = Hydrated(s)]
<1>1. /\ Present(sessions[s]) /\ gone' = gone
      /\ IF m[s].status # sessions[s].status
           THEN Save(m, dirty \cup {s}, projects)
           ELSE /\ sessions' \in Trimmed(m, dirty)
                /\ UNCHANGED <<dirty, projects, storage, tables, rollbacks>>
  BY DEF HydrateSession
<1>2. /\ sessions \in Tasks /\ projects \in 0..MaxProjects /\ gone \in SUBSET Sessions
      /\ TypeOK /\ Rows /\ Failures
  BY DEF StoreInv, TypeOK, Tasks
<1>3. m[s] = Hydrated(s) /\ Hydrated(s) \in Task /\ Hydrated(s).loaded
  BY <1>1, <1>2, FetchedTask DEF Tasks
<1>4. CASE m[s].status # sessions[s].status
  <2>1. ~Unloaded(Hydrated(s))  BY <1>3 DEF Unloaded
  <2>2. m \in Tasks /\ dirty \cup {s} \in SUBSET Sessions /\ Safe(m, dirty \cup {s})
    BY <1>3, <2>1, ChangedTask
  <2>3. Save(m, dirty \cup {s}, projects)  BY <1>1, <1>4
  <2> HIDE DEF m
  <2> QED  BY <1>1, <1>2, <2>2, <2>3, SaveKeeps
<1>5. CASE m[s].status = sessions[s].status
  <2>1. m \in Tasks /\ Safe(m, dirty)  BY <1>1, <1>3, <1>5, HydratedSafe
  <2>2. sessions' \in Trimmed(m, dirty) /\ UNCHANGED <<dirty, projects, gone, persisted, written,
                 savedProjects, sessionRows, detailRows, messageRows, projectRows, rollbacks>>
    BY <1>1, <1>5 DEF storage, tables
  <2>3. \A r \in Sessions : ~Started(m[r]) => ~Started(sessions[r])
    <3>1. ~Started(m[s]) => ~Started(sessions[s])
      BY <1>1, <1>3, HydratedBegun, FetchedTask DEF Unloaded
    <3> QED  BY <1>2, <3>1 DEF Tasks
  <2> HIDE DEF m
  <2>4. /\ sessions' \in Tasks
        /\ \A r \in Sessions :
              \/ sessions'[r] = m[r]
              \/ /\ m[r] \in Task /\ m[r].loaded /\ Started(m[r]) /\ r \notin dirty
                 /\ Unloaded(sessions'[r]) /\ sessions'[r].status = m[r].status /\ Started(sessions'[r])
    BY <2>1, <2>2, TrimmedTasks
  <2>5. ASSUME NEW r \in Sessions PROVE SafeTask(r, sessions[r], r \notin dirty)'
    <3>1. SafeTask(r, m[r], r \notin dirty)  BY <2>1 DEF Safe
    <3>3. CASE sessions'[r] = m[r]
      <4>1. OnDiskAs(r, sessions[r])' <=> OnDiskAs(r, m[r])  BY <2>2, <3>3 DEF OnDiskAs, Displaced
      <4> QED  BY <2>2, <3>1, <3>3, <4>1 DEF SafeTask
    <3>2. CASE /\ m[r] \in Task /\ m[r].loaded /\ Started(m[r]) /\ r \notin dirty
               /\ Unloaded(sessions'[r]) /\ sessions'[r].status = m[r].status
      <4>1. sessionRows[r] = m[r].status /\ m[r].status # None
        BY <3>1, <3>2 DEF SafeTask, OnDiskAs, Task, Bits, None
      <4> QED  BY <2>2, <3>2, <4>1 DEF SafeTask, Unloaded
    <3> QED  BY <2>4, <3>2, <3>3
  <2>6. TypeOK'  BY <1>2, <2>2, <2>4 DEF TypeOK, Tasks
  <2>7. Rows'  BY <1>2, <2>2 DEF Rows, RowsOf, Displaced
  <2>8. Failures'
    <3>1. \A r \in Sessions : ~Started(sessions'[r]) => ~Started(sessions[r])  BY <2>3, <2>4
    <3> QED  BY <1>2, <2>2, <3>1 DEF Failures, Leftover
  <2> QED  BY <2>2, <2>5, <2>6, <2>7, <2>8 DEF StoreInv, Safe
<1> QED  BY <1>4, <1>5

LEMMA RestartKeeps == ASSUME StoreInv, Restart PROVE StoreInv'
<1>1. /\ sessions' = [s \in Sessions |->
           IF sessionRows[s] = None THEN Absent
           ELSE [status |-> sessionRows[s], turns |-> 0, messages |-> <<>>, loaded |-> FALSE]]
      /\ dirty' = {} /\ projects' = projectRows /\ gone' = {}
      /\ persisted' = {s \in Sessions : sessionRows[s] # None}
      /\ written' = [s \in Sessions |-> {}] /\ savedProjects' = None /\ rollbacks' = 0
      /\ UNCHANGED <<sessionRows, detailRows, messageRows, projectRows>>
  BY DEF Restart, tables
<1>2. TypeOK /\ Rows  BY DEF StoreInv
<1>3. ASSUME NEW s \in Sessions
      PROVE  /\ sessions'[s] \in Task \cup {Absent}
             /\ sessionRows[s] = None => sessions'[s] = Absent
             /\ sessionRows[s] # None => /\ Unloaded(sessions'[s]) /\ Started(sessions'[s])
                                         /\ sessions'[s].status = sessionRows[s]
             /\ ~sessions'[s].loaded
  <2>1. CASE sessionRows[s] = None  BY <1>1, <2>1, TaskFields
  <2>2. CASE sessionRows[s] # None
    <3>1. sessionRows[s] \in Bits /\ 0 \in Bits /\ <<>> \in Transcript
      BY <1>2, <2>2, TaskFields DEF TypeOK, Absent
    <3>2. sessions'[s] = [status |-> sessionRows[s], turns |-> 0, messages |-> <<>>, loaded |-> FALSE]
      BY <1>1, <2>2
    <3>3. sessions'[s] \in Task /\ ~sessions'[s].loaded /\ sessions'[s].status = sessionRows[s]
      BY <3>1, <3>2 DEF Task
    <3> QED  BY <2>2, <3>3, TaskFields DEF Unloaded, Present, Started
  <2> QED  BY <2>1, <2>2
<1>4. sessions' \in [Sessions -> Task \cup {Absent}]  BY <1>1, <1>3
<1>5. TypeOK'  BY <1>1, <1>2, <1>4, ConstantsAssumption DEF TypeOK
<1>6. ASSUME NEW s \in Sessions PROVE SafeTask(s, sessions[s], s \notin dirty)'
  <2>1. ~Unloaded(Absent)  BY DEF Unloaded, Present
  <2> QED  BY <1>1, <1>3, <2>1 DEF SafeTask
<1>7. ASSUME NEW s \in Sessions PROVE RowsOf(s)'
  BY <1>1, <1>2 DEF Rows, RowsOf, Displaced
<1>8. Failures'  BY <1>1, <1>3 DEF Failures, Leftover
<1> QED  BY <1>5, <1>6, <1>7, <1>8 DEF StoreInv, Safe, Rows

----------------------------------------------------------------------------
(* The theorems                                                            *)

LEMMA InitStore == Init => StoreInv
<1> SUFFICES ASSUME Init PROVE StoreInv  OBVIOUS
<1>1. \A s \in Sessions : /\ sessions[s] = Absent /\ written[s] = {} /\ messageRows[s] = {}
                          /\ sessionRows[s] = None /\ detailRows[s] = None
  BY DEF Init
<1>2. <<>> \in Transcript /\ Fingerprints(<<>>) = {} /\ ~Absent.loaded /\ ~Unloaded(Absent)
  BY TaskFields, EmptySeq DEF Absent, Fingerprints, Unloaded, Present
<1>3. TypeOK  BY ConstantsAssumption DEF Init, TypeOK, NoProjects
<1>4. Safe(sessions, dirty)  BY <1>1, <1>2 DEF Safe, SafeTask
<1>5. Rows  BY <1>1, <1>2, FS_EmptySet DEF Rows, RowsOf, UniqueIds
<1>6. Failures  BY <1>1 DEF Init, Failures, Leftover
<1> QED  BY <1>3, <1>4, <1>5, <1>6 DEF StoreInv

LEMMA NextStore == StoreInv /\ [Next]_vars => StoreInv'
<1> SUFFICES ASSUME StoreInv, [Next]_vars PROVE StoreInv'  OBVIOUS
<1>1. ASSUME NEW s \in Sessions, Create(s) \/ Update(s) \/ Relabel(s) PROVE StoreInv'
  BY <1>1, CommandKeeps
<1>2. ASSUME NEW s \in Sessions, Remove(s) PROVE StoreInv'  BY <1>2, RemoveKeeps
<1>3. ASSUME NEW s \in Sessions, HydrateSession(s) PROVE StoreInv'  BY <1>3, HydrateKeeps
<1>4. ASSUME NEW p \in 0..MaxProjects, ChangeProjects(p) PROVE StoreInv'  BY <1>4, ProjectsKeep
<1>5. CASE Restart  BY <1>5, RestartKeeps
<1>6. CASE UNCHANGED vars
  <2>1. UNCHANGED <<sessions, dirty, projects, gone, persisted, written, savedProjects,
                    sessionRows, detailRows, messageRows, projectRows, rollbacks>>
    BY <1>6 DEF vars, memory, storage, tables
  <2>2. TypeOK /\ Safe(sessions, dirty) /\ Rows /\ Failures  BY DEF StoreInv
  <2>3. TypeOK'  BY <2>1, <2>2 DEF TypeOK
  <2>4. Rows' /\ Failures'  BY <2>1, <2>2 DEF Rows, RowsOf, Displaced, Failures, Leftover
  <2>5. Safe(sessions, dirty)'  BY <2>1, <2>2 DEF Safe, SafeTask, OnDiskAs, Displaced
  <2> QED  BY <2>3, <2>4, <2>5 DEF StoreInv
<1> QED  BY <1>1, <1>2, <1>3, <1>4, <1>5, <1>6 DEF Next

LEMMA AlwaysStore == Spec => []StoreInv
BY InitStore, NextStore, PTL DEF Spec

\* Tasks, rows and the memory of what was written are well formed, whatever is
\* edited, saved, rolled back, hydrated and released (persistence.rs).
THEOREM TypeCorrect == Spec => []TypeOK
<1>1. StoreInv => TypeOK  BY DEF StoreInv
<1> QED  BY <1>1, AlwaysStore, PTL

\* A task that has begun, is loaded and has no unsaved work.
LEMMA CleanTask ==
    ASSUME StoreInv, NEW s \in Sessions \ dirty, sessions[s].loaded, Started(sessions[s]), ~Displaced(s)
    PROVE  OnDisk(s) = sessions[s]
<1>1. /\ SafeTask(s, sessions[s], s \notin dirty) /\ sessions[s] \in Task
  BY TaskFields DEF StoreInv, Safe, TypeOK
<1>2. OnDiskAs(s, sessions[s])  BY <1>1 DEF SafeTask
<1>3. sessions[s].messages \in Transcript /\ sessions[s].status # None
  BY <1>1 DEF Task, Bits, None
<1>4. Stored(s) = sessions[s].messages  BY <1>2, <1>3, RowsOfTranscript DEF Stored, OnDiskAs
<1>5. OnDisk(s) = [status |-> sessions[s].status, turns |-> sessions[s].turns,
                   messages |-> sessions[s].messages, loaded |-> TRUE]
  BY <1>2, <1>3, <1>4 DEF OnDisk, OnDiskAs
<1> QED  BY <1>1, <1>5 DEF Task

\* A whole task that is not dirty is on disk exactly as it is in memory, but for
\* displaced rows: for any tasks, messages and edits, through any number of
\* saves that were rolled back (persistence.rs, StateStore::save, write_messages).
THEOREM CleanMeansDurable == Spec => []CleanIsDurable
<1>1. StoreInv => CleanIsDurable  BY CleanTask DEF CleanIsDurable
<1> QED  BY <1>1, AlwaysStore, PTL

----------------------------------------------------------------------------
(* What is seen                                                            *)

\* A skeleton that is fetched has begun.
LEMMA FetchedBegun ==
    ASSUME StoreInv, NEW s \in Sessions, Unloaded(sessions[s])
    PROVE  Started(Fetched(s)) /\ sessionRows[s] # None
<1>1. Present(sessions[s])  BY DEF Unloaded
<1>2. /\ Fetched(s) \in Task /\ Fetched(s).loaded /\ Hydrated(s).loaded
      /\ Hydrated(s).turns = Fetched(s).turns /\ Hydrated(s).messages = Fetched(s).messages
  BY <1>1, FetchedTask
<1>3. Started(Hydrated(s)) /\ sessionRows[s] # None  BY HydratedBegun
<1> QED  BY <1>2, <1>3, TaskFields DEF Started, Present

\* The tables have every task as it is seen, but for what is excused.
LEMMA SeenOnDisk == StoreInv => Shelf!OnDiskAsSeen
<1> DEFINE excused == {s \in Sessions : (rollbacks > 0 /\ s \in dirty) \/ Displaced(s) \/ Undeleted(s)}
<1> SUFFICES ASSUME StoreInv, NEW s \in Sessions \ excused
             PROVE  OnDisk(s) = IF ~Started(Shown(s)) THEN Absent ELSE Shown(s)
  BY DEF Shelf!OnDiskAsSeen
<1>1. /\ s \notin dirty /\ ~Displaced(s) /\ ~Undeleted(s)
      /\ SafeTask(s, sessions[s], s \notin dirty) /\ sessions[s] \in Task \cup {Absent}
      /\ Leftover(s, sessions[s]) => rollbacks > 0
  BY DEF StoreInv, Failures, Safe, TypeOK
<1>2. CASE ~Started(sessions[s])
  <2>1. sessionRows[s] = None  BY <1>1, <1>2 DEF Undeleted, Leftover
  <2>2. OnDisk(s) = Absent  BY <2>1 DEF OnDisk
  <2>3. ~Started(Shown(s))
    <3>1. CASE ~Present(sessions[s])  BY <3>1 DEF Shown, Started, Present
    <3>2. CASE Present(sessions[s])
      <4>1. sessions[s].loaded  BY <1>2, <3>2 DEF Started
      <4>2. Shown(s) = sessions[s]  BY <3>2, <4>1 DEF Shown, Fetched
      <4> QED  BY <1>2, <4>2
    <3> QED  BY <3>1, <3>2
  <2> QED  BY <2>2, <2>3
<1>3. CASE Started(sessions[s]) /\ sessions[s].loaded
  <2>1. Shown(s) = sessions[s]  BY <1>1, <1>3, TaskFields DEF Shown, Fetched
  <2>2. OnDisk(s) = sessions[s]  BY <1>1, <1>3, CleanTask
  <2> QED  BY <1>3, <2>1, <2>2
<1>4. CASE Started(sessions[s]) /\ ~sessions[s].loaded
  <2>1. Unloaded(sessions[s]) /\ Present(sessions[s])  BY <1>4 DEF Started, Unloaded
  <2>2. Shown(s) = Fetched(s)  BY <2>1 DEF Shown
  <2>3. Started(Fetched(s)) /\ sessionRows[s] # None  BY <2>1, FetchedBegun
  <2>4. Fetched(s) = [status |-> sessions[s].status, turns |-> detailRows[s],
                      messages |-> Stored(s), loaded |-> TRUE]
    BY <2>1, FetchedTask
  <2>5. sessionRows[s] = sessions[s].status  BY <1>1, <2>1 DEF SafeTask
  <2> QED  BY <2>2, <2>3, <2>4, <2>5 DEF OnDisk
<1>5. sessions[s].loaded \in BOOLEAN  BY <1>1, TaskFields
<1> QED  BY <1>2, <1>3, <1>4, <1>5

\* The store implements TaskStore: at every step the tables have what clients
\* are shown, a skeleton standing for its transcript, but for a task that waits
\* for a save after one was rolled back, displaced rows, and the rows of a task
\* whose removal was rolled back (daemon.rs, persistence.rs).
THEOREM ImplementsShelf == Spec => ImplementsTaskStore
<1>1. Init => Shelf!Init  BY InitStore, SeenOnDisk DEF Shelf!Init
<1>2. StoreInv' => Shelf!Command
  <2>1. StoreInv' => Shelf!OnDiskAsSeen'  BY SeenOnDisk, PTL
  <2> QED  BY <2>1 DEF Shelf!Command
<1>3. StoreInv' => [Shelf!Command \/ Shelf!Restart]_(<<[s \in Sessions |-> Shown(s)],
                                                      [s \in Sessions |-> OnDisk(s)]>>)
  BY <1>2
<1>4. Spec => []StoreInv  BY AlwaysStore
<1> QED  BY <1>1, <1>3, <1>4, PTL DEF Spec, ImplementsTaskStore, Shelf!Spec

\* The turns and messages of a task of which memory has t.
TurnsOf(s, t) == IF Unloaded(t) THEN detailRows[s] ELSE t.turns
MessagesOf(s, t) == IF Unloaded(t) THEN Stored(s) ELSE t.messages

SeenIsShown == \A s \in Sessions : /\ Shown(s).turns = TurnsOf(s, sessions[s])
                                   /\ Shown(s).messages = MessagesOf(s, sessions[s])

LEMMA ShownTask == StoreInv => SeenIsShown
<1> SUFFICES ASSUME StoreInv, NEW s \in Sessions
             PROVE  /\ Shown(s).turns = TurnsOf(s, sessions[s])
                    /\ Shown(s).messages = MessagesOf(s, sessions[s])
  BY DEF SeenIsShown
<1>1. CASE ~Present(sessions[s])
  <2>1. Shown(s) = sessions[s] /\ ~Unloaded(sessions[s])  BY <1>1 DEF Shown, Unloaded, Present
  <2> QED  BY <2>1 DEF TurnsOf, MessagesOf
<1>2. CASE Present(sessions[s]) /\ sessions[s].loaded
  <2>1. Shown(s) = sessions[s] /\ ~Unloaded(sessions[s])  BY <1>2, FetchedTask DEF Shown, Unloaded
  <2> QED  BY <2>1 DEF TurnsOf, MessagesOf
<1>3. CASE Unloaded(sessions[s])
  <2>1. Shown(s) = [status |-> sessions[s].status, turns |-> detailRows[s],
                    messages |-> Stored(s), loaded |-> TRUE]
    BY <1>3, FetchedTask DEF Shown, Unloaded
  <2> QED  BY <1>3, <2>1 DEF TurnsOf, MessagesOf
<1> QED  BY <1>1, <1>2, <1>3 DEF Unloaded

\* A task that is kept, or released while the tables have it, is seen as before.
LEMMA ReleasedIsSeen ==
    ASSUME NEW s \in Sessions, NEW t \in Task \cup {Absent},
           Unloaded(t) => detailRows'[s] = detailRows[s] /\ messageRows'[s] = messageRows[s],
           \/ sessions'[s] = t
           \/ t \in Task /\ t.loaded /\ Unloaded(sessions'[s]) /\ OnDiskAs(s, t)',
           ~Displaced(s)'
    PROVE  TurnsOf(s, sessions[s])' = TurnsOf(s, t) /\ MessagesOf(s, sessions[s])' = MessagesOf(s, t)
<1>1. CASE sessions'[s] = t
  <2>1. Unloaded(t) => Stored(s)' = Stored(s)  BY DEF Stored
  <2> QED  BY <1>1, <2>1 DEF TurnsOf, MessagesOf
<1>2. CASE t \in Task /\ t.loaded /\ Unloaded(sessions'[s]) /\ OnDiskAs(s, t)'
  <2>1. detailRows'[s] = t.turns /\ messageRows'[s] = Fingerprints(t.messages) /\ t.messages \in Transcript
    BY <1>2 DEF OnDiskAs, Task
  <2>2. Stored(s)' = t.messages  BY <2>1, RowsOfTranscript DEF Stored
  <2>3. ~Unloaded(t)  BY <1>2 DEF Unloaded
  <2> QED  BY <1>2, <2>1, <2>2, <2>3 DEF TurnsOf, MessagesOf
<1> QED  BY <1>1, <1>2

\* A save shows the tasks it is given, whether it commits or is rolled back.
LEMMA SavedIsSeen ==
    ASSUME StoreInv, NEW m \in Tasks, NEW d \in SUBSET Sessions, NEW p, Safe(m, d), Save(m, d, p),
           NEW s \in Sessions, ~Displaced(s)'
    PROVE  TurnsOf(s, sessions[s])' = TurnsOf(s, m[s]) /\ MessagesOf(s, sessions[s])' = MessagesOf(s, m[s])
<1>1. m[s] \in Task \cup {Absent}  BY DEF Tasks
<1>2. CASE Saved(m, d, p)
  <2>1. /\ Remember(m, d, p) /\ WriteTables(m, d, p) /\ written' = Written(m, Whole(m, d))
        /\ UNCHANGED rollbacks /\ sessions' \in Trimmed(m, {})
    BY <1>2 DEF Saved
  <2>2. /\ Unloaded(m[s]) => detailRows'[s] = detailRows[s] /\ messageRows'[s] = messageRows[s]
        /\ m[s].loaded /\ Started(m[s]) => OnDiskAs(s, m[s])'
    BY <2>1, CommitOne
  <2>3. \/ sessions'[s] = m[s]
        \/ m[s] \in Task /\ m[s].loaded /\ Started(m[s]) /\ Unloaded(sessions'[s])
    BY <2>1, TrimmedTasks
  <2> QED  BY <1>1, <2>2, <2>3, ReleasedIsSeen
<1>3. CASE RolledBack(m, d, p)
  <2>1. sessions' = m /\ detailRows' = detailRows /\ messageRows' = messageRows
    BY <1>3 DEF RolledBack, tables
  <2> QED  BY <1>1, <2>1, ReleasedIsSeen
<1> QED  BY <1>2, <1>3 DEF Save

\* Nor does releasing tasks that have no unsaved work change what is seen.
LEMMA TrimmedIsSeen ==
    ASSUME NEW m \in Tasks, Safe(m, dirty), sessions' \in Trimmed(m, dirty),
           UNCHANGED <<sessionRows, detailRows, messageRows>>, NEW s \in Sessions, ~Displaced(s)'
    PROVE  TurnsOf(s, sessions[s])' = TurnsOf(s, m[s]) /\ MessagesOf(s, sessions[s])' = MessagesOf(s, m[s])
<1>1. m[s] \in Task \cup {Absent} /\ SafeTask(s, m[s], s \notin dirty)  BY DEF Tasks, Safe
<1>2. \/ sessions'[s] = m[s]
      \/ m[s] \in Task /\ m[s].loaded /\ Started(m[s]) /\ s \notin dirty /\ Unloaded(sessions'[s])
  BY TrimmedTasks
<1>3. s \notin dirty /\ m[s].loaded /\ Started(m[s]) => OnDiskAs(s, m[s])'
  <2>1. OnDiskAs(s, m[s])' <=> OnDiskAs(s, m[s])  BY DEF OnDiskAs, Displaced
  <2> QED  BY <1>1, <2>1 DEF SafeTask
<1> QED  BY <1>1, <1>2, <1>3, ReleasedIsSeen

LEMMA HydrationKeepsSeen ==
    ASSUME StoreInv, NEW x \in Sessions, HydrateSession(x), NEW s \in Sessions, ~Displaced(s)'
    PROVE  /\ TurnsOf(s, sessions[s])' = TurnsOf(s, sessions[s])
           /\ MessagesOf(s, sessions[s])' = MessagesOf(s, sessions[s])
<1> DEFINE m == [sessions EXCEPT ![x] = Hydrated(x)]
<1>1. /\ Present(sessions[x])
      /\ IF m[x].status # sessions[x].status
           THEN Save(m, dirty \cup {x}, projects)
           ELSE /\ sessions' \in Trimmed(m, dirty)
                /\ UNCHANGED <<dirty, projects, storage, tables, rollbacks>>
  BY DEF HydrateSession
<1>2. sessions \in Tasks  BY DEF StoreInv, TypeOK, Tasks
<1>3. /\ m[x] = Hydrated(x) /\ Hydrated(x) \in Task /\ Hydrated(x).loaded
      /\ s # x => m[s] = sessions[s]
  BY <1>1, <1>2, FetchedTask DEF Tasks
<1>4. TurnsOf(s, m[s]) = TurnsOf(s, sessions[s]) /\ MessagesOf(s, m[s]) = MessagesOf(s, sessions[s])
  <2>1. CASE s = x
    <3>1. ~Unloaded(Hydrated(x))  BY <1>3 DEF Unloaded
    <3>2. CASE sessions[x].loaded
      <4>1. Hydrated(x) = sessions[x]  BY <1>1, <3>2, FetchedTask
      <4> QED  BY <1>3, <2>1, <4>1
    <3>3. CASE Unloaded(sessions[x])
      <4>1. Hydrated(x).turns = detailRows[x] /\ Hydrated(x).messages = Stored(x)
        BY <1>1, <3>3, FetchedTask
      <4> QED  BY <1>3, <2>1, <3>1, <3>3, <4>1 DEF TurnsOf, MessagesOf
    <3> QED  BY <1>1, <3>2, <3>3 DEF Unloaded
  <2> QED  BY <1>3, <2>1
<1>5. CASE m[x].status # sessions[x].status
  <2>1. ~Unloaded(Hydrated(x))  BY <1>3 DEF Unloaded
  <2>2. m \in Tasks /\ dirty \cup {x} \in SUBSET Sessions /\ Safe(m, dirty \cup {x})
    BY <1>3, <2>1, ChangedTask
  <2>3. Save(m, dirty \cup {x}, projects)  BY <1>1, <1>5
  <2> HIDE DEF m
  <2> QED  BY <1>4, <2>2, <2>3, SavedIsSeen
<1>6. CASE m[x].status = sessions[x].status
  <2>1. m \in Tasks /\ Safe(m, dirty)  BY <1>1, <1>3, <1>6, HydratedSafe
  <2>2. /\ sessions' \in Trimmed(m, dirty)
        /\ UNCHANGED <<sessionRows, detailRows, messageRows>>
    BY <1>1, <1>6 DEF tables
  <2> HIDE DEF m
  <2> QED  BY <1>4, <2>1, <2>2, TrimmedIsSeen
<1> QED  BY <1>5, <1>6

\* Hydrating a task, with the save of its migrated status and the release of
\* others that it may bring, leaves what is seen of every task, but for displaced
\* rows (persistence.rs, hydrate; daemon.rs, trim_idle_transcripts).
THEOREM HydrationKeepsTranscripts == Spec => HydrationIsACache
<1>1. StoreInv /\ StoreInv' /\ [Next]_vars =>
        [(\E s \in Sessions : HydrateSession(s))
          => \A s \in Sessions :
                \/ Displaced(s)'
                \/ /\ Shown(s)'.messages = Shown(s).messages
                   /\ Shown(s)'.turns = Shown(s).turns]_vars
  <2> SUFFICES ASSUME StoreInv, StoreInv', NEW x \in Sessions, HydrateSession(x),
                      NEW s \in Sessions, ~Displaced(s)'
               PROVE  Shown(s)'.messages = Shown(s).messages /\ Shown(s)'.turns = Shown(s).turns
    OBVIOUS
  <2>1. Shown(s).turns = TurnsOf(s, sessions[s]) /\ Shown(s).messages = MessagesOf(s, sessions[s])
    BY ShownTask DEF SeenIsShown
  <2>2. /\ Shown(s)'.turns = TurnsOf(s, sessions[s])'
        /\ Shown(s)'.messages = MessagesOf(s, sessions[s])'
    <3>1. StoreInv' => SeenIsShown'  BY ShownTask, PTL
    <3> QED  BY <3>1 DEF SeenIsShown
  <2> QED  BY <2>1, <2>2, HydrationKeepsSeen
<1>2. Spec => []StoreInv  BY AlwaysStore
<1> QED  BY <1>1, <1>2, PTL DEF Spec, HydrationIsACache

----------------------------------------------------------------------------
(* TaskSync: its invariant                                                 *)

\* A transcript holds something of its cursor's runtime, nothing of later ones.
Ordered(copy) ==
    /\ copy.cur # NoRuntime => copy.text[copy.cur] >= 1
    /\ \A r \in Runtimes : copy.text[r] > 0 => r <= copy.cur
Sound == {copy \in Copies : Ordered(copy)}

Types ==
    /\ task \in Sound /\ listed \in BOOLEAN
    /\ started \in 0..MaxRuntimes /\ running \in {NoRuntime, started}
    /\ copies \in [Clients -> Sound] /\ attached \in [Clients -> 0..MaxRuntimes]
    /\ saves \subseteq [copy : Sound, seen : -1..MaxRuntimes, no : 0..MaxSaves]
    /\ sent \in 0..MaxSaves /\ clock \in 0..MaxClock /\ restarts \in 0..MaxRestarts

\* Nobody has a cursor of a runtime that was not started.
Behind ==
    /\ task.cur <= started
    /\ \A c \in Clients : copies[c].cur <= started /\ attached[c] <= started
    /\ \A s \in saves : s.copy.cur <= started

\* A client that follows a runtime has a whole copy, not ahead of it.
Follows ==
    \A c \in Clients : attached[c] # NoRuntime =>
        copies[c].whole /\ copies[c].cur <= attached[c]

\* A daemon that does not know its task's cursor has not merged anything of
\* the runtime that is active.
Unheard == listed => running = NoRuntime \/ task.cur < running

SyncInv == Types /\ Behind /\ Follows /\ task.whole /\ Unheard

----------------------------------------------------------------------------
(* Copies                                                                  *)

LEMMA BoundTypes ==
    /\ MaxRuntimes \in Nat /\ MaxEvents \in Nat /\ MaxEvents >= 1 /\ MaxSaves \in Nat
    /\ MaxClock \in Nat /\ MaxRestarts \in Nat
BY SyncConstants

LEMMA SoundFields ==
    ASSUME NEW copy \in Sound
    PROVE  /\ copy \in Copies /\ copy.cur \in Nat /\ copy.cur \in 0..MaxRuntimes
           /\ copy.at \in 0..MaxClock /\ copy.busy \in BOOLEAN
BY BoundTypes DEF Sound, Copies

\* Edits of list columns keep the shape of a copy, as does loading it.
LEMMA Relabelled ==
    ASSUME NEW copy \in Sound, NEW at \in 0..MaxClock, NEW busy \in BOOLEAN,
           NEW new \in {[copy EXCEPT !.at = at], [copy EXCEPT !.busy = busy],
                        [copy EXCEPT !.busy = busy, !.at = at],
                        [copy EXCEPT !.at = at, !.busy = busy]}
    PROVE  /\ new \in Sound /\ new.cur = copy.cur /\ new.whole = copy.whole
           /\ new.text = copy.text
<1>1. /\ new.cur = copy.cur /\ new.whole = copy.whole /\ new.text = copy.text
      /\ new \in Copies
  BY DEF Sound, Copies
<1> QED  BY <1>1 DEF Sound, Ordered

LEMMA Completed ==
    ASSUME NEW copy \in Sound
    PROVE  /\ Received(copy) \in Sound /\ Received(copy).whole
           /\ Received(copy).cur = copy.cur /\ Received(copy).text = copy.text
BY DEF Sound, Ordered, Copies, Received

\* An event of a runtime that is not behind the cursor keeps the shape.
LEMMA Grown ==
    ASSUME NEW copy \in Sound, NEW r \in Runtimes, copy.cur <= r, copy.text[r] < MaxEvents,
           NEW new \in Copies, new.cur = r,
           new.text = [copy.text EXCEPT ![r] = copy.text[r] + 1]
    PROVE  new \in Sound
<1>1. copy \in Copies /\ r \in Nat /\ r \in 0..MaxRuntimes
  BY BoundTypes DEF Runtimes, Sound
<1>2. copy.text \in [Runtimes -> 0..MaxEvents] /\ copy.text[r] + 1 \in 0..MaxEvents
  BY <1>1, BoundTypes DEF Copies
<1>3. new.text[r] = copy.text[r] + 1 /\ \A q \in Runtimes \ {r} : new.text[q] = copy.text[q]
  BY <1>2
<1>4. Ordered(new)
  <2>1. copy.cur \in Nat /\ Ordered(copy)  BY <1>1, BoundTypes DEF Copies, Sound
  <2>2. new.text[r] >= 1  BY <1>2, <1>3
  <2>3. ASSUME NEW q \in Runtimes, new.text[q] > 0 PROVE q <= r
    <3>1. CASE q = r  BY <3>1, <1>1
    <3>2. CASE q # r
      <4>1. copy.text[q] > 0  BY <1>3, <2>3, <3>2
      <4> QED  BY <4>1, <1>1, <2>1 DEF Ordered, Runtimes
    <3> QED  BY <3>1, <3>2
  <2> QED  BY <2>2, <2>3 DEF Ordered
<1> QED  BY <1>4 DEF Sound

----------------------------------------------------------------------------
(* The invariant                                                           *)

LEMMA InitSync == SyncInit => SyncInv
<1> SUFFICES ASSUME SyncInit PROVE SyncInv  OBVIOUS
<1> DEFINE nothing == [r \in Runtimes |-> 0]
<1>1. nothing \in [Runtimes -> 0..MaxEvents] /\ \A r \in Runtimes : nothing[r] = 0
  BY BoundTypes
<1> HIDE DEF nothing
<1>2. task = [at |-> 0, busy |-> FALSE, cur |-> NoRuntime, text |-> nothing, whole |-> TRUE]
  BY DEF SyncInit, nothing
<1>3. task \in Copies /\ task.cur = 0 /\ task.text = nothing /\ task.whole
  BY <1>1, <1>2, BoundTypes DEF Copies, NoRuntime
<1>4. Skeleton(task) = [at |-> 0, busy |-> FALSE, cur |-> NoRuntime, text |-> nothing, whole |-> FALSE]
  <2>1. Skeleton(task) = [task EXCEPT !.cur = NoRuntime, !.whole = FALSE, !.text = nothing]
    BY DEF Skeleton, nothing
  <2> QED  BY <1>2, <2>1
<1>5. /\ Skeleton(task) \in Copies /\ Skeleton(task).cur = 0
      /\ Skeleton(task).text = nothing
  BY <1>1, <1>4, BoundTypes DEF Copies, NoRuntime
<1>6. task \in Sound /\ Skeleton(task) \in Sound
  BY <1>1, <1>3, <1>5 DEF Sound, Ordered, NoRuntime
<1>7. /\ listed = TRUE /\ running = 0 /\ started = 0 /\ saves = {} /\ sent = 0
      /\ copies = [c \in Clients |-> Skeleton(task)] /\ attached = [c \in Clients |-> 0]
      /\ clock = 0 /\ restarts = 0
  BY DEF SyncInit, NoRuntime
<1>8. Types  BY <1>6, <1>7, BoundTypes DEF Types, NoRuntime
<1>9. Behind  BY <1>3, <1>5, <1>7 DEF Behind
<1> QED  BY <1>3, <1>7, <1>8, <1>9 DEF SyncInv, Follows, Unheard, NoRuntime

\* What a client sends has the shape of a copy.
LEMMA SendTypes ==
    ASSUME Types, Behind, NEW copy \in Sound, Send(copy), copy.cur <= started
    PROVE  /\ sent' \in 0..MaxSaves
           /\ saves' \subseteq [copy : Sound, seen : -1..MaxRuntimes, no : 0..MaxSaves]
           /\ \A s \in saves' : s.copy.cur <= started
<1> DEFINE save == [copy |-> copy, seen |-> Unread, no |-> sent]
<1>1. sent' \in 0..MaxSaves /\ sent \in 0..MaxSaves  BY BoundTypes DEF Send, Types
<1>2. save \in [copy : Sound, seen : -1..MaxRuntimes, no : 0..MaxSaves] /\ save.copy = copy
  BY <1>1, BoundTypes DEF Unread
<1>3. saves' = saves \cup {save}  BY DEF Send
<1> HIDE DEF save
<1> QED  BY <1>1, <1>2, <1>3 DEF Types, Behind

LEMMA RenameSync == ASSUME SyncInv, NEW c \in Clients, Rename(c) PROVE SyncInv'
<1> DEFINE copy == [copies[c] EXCEPT !.at = clock]
<1>1. Types /\ Behind /\ Follows  BY DEF SyncInv
<1>2. copies[c] \in Sound /\ clock \in 0..MaxClock  BY <1>1 DEF Types
<1>3. copy \in Sound /\ copy.cur = copies[c].cur /\ copy.whole = copies[c].whole
  BY <1>2, Relabelled
<1>4. Send(copy) /\ copies' = [copies EXCEPT ![c] = copy]
      /\ UNCHANGED <<task, listed, running, started, attached, clock, restarts>>
  BY DEF Rename, HoldAndSend, Hold, storeVars, runtimeVars
<1> HIDE DEF copy
<1>5. copy.cur <= started  BY <1>1, <1>3 DEF Behind
<1>6. Types' /\ Behind'  BY <1>1, <1>3, <1>4, <1>5, SendTypes DEF Types, Behind
<1>7. Follows'  BY <1>1, <1>3, <1>4 DEF Follows, Types
<1> QED  BY <1>4, <1>6, <1>7 DEF SyncInv, Unheard

LEMMA SubmitSync == ASSUME SyncInv, NEW c \in Clients, Submit(c) PROVE SyncInv'
<1> DEFINE copy == [copies[c] EXCEPT !.busy = TRUE, !.at = clock]
<1>1. Types /\ Behind /\ Follows  BY DEF SyncInv
<1>2. copies[c] \in Sound /\ clock \in 0..MaxClock  BY <1>1 DEF Types
<1>3. copy \in Sound /\ copy.cur = copies[c].cur /\ copy.whole = copies[c].whole
  BY <1>2, Relabelled
<1>4. Send(copy) /\ copies' = [copies EXCEPT ![c] = copy] /\ copies[c].whole
      /\ started < MaxRuntimes /\ started' = started + 1 /\ running' = started + 1
      /\ attached' = [attached EXCEPT ![c] = started + 1]
      /\ UNCHANGED <<task, listed, clock, restarts>>
  BY DEF Submit, HoldAndSend, Hold, storeVars
<1> HIDE DEF copy
<1>5. started' \in 0..MaxRuntimes /\ started \in Nat /\ copy.cur <= started
  BY <1>1, <1>3, <1>4, BoundTypes DEF Types, Behind
<1>6. saves' \subseteq [copy : Sound, seen : -1..MaxRuntimes, no : 0..MaxSaves]
      /\ \A s \in saves' : s.copy \in Sound /\ s.copy.cur <= started
  BY <1>1, <1>3, <1>4, <1>5, SendTypes
<1>7. Types'  BY <1>1, <1>3, <1>4, <1>5, <1>6, SendTypes DEF Types
<1>8. Behind'
  <2>1. \A x \in Sound : x.cur <= started => x.cur <= started + 1  BY <1>5, SoundFields
  <2>2. task'.cur <= started' /\ \A s \in saves' : s.copy.cur <= started'
    BY <1>1, <1>4, <1>6, <2>1 DEF Types, Behind
  <2>3. ASSUME NEW d \in Clients PROVE copies'[d].cur <= started' /\ attached'[d] <= started'
    <3>1. copies'[d] \in Sound /\ copies'[d].cur <= started
      BY <1>1, <1>3, <1>4, <1>5 DEF Types, Behind
    <3>2. attached'[d] <= started + 1  BY <1>1, <1>4, <1>5, BoundTypes DEF Types, Behind
    <3> QED  BY <1>4, <2>1, <3>1, <3>2
  <2> QED  BY <2>2, <2>3 DEF Behind
<1>9. Follows'
  <2>1. copy.cur <= started + 1  BY <1>3, <1>5, SoundFields
  <2> QED  BY <1>1, <1>3, <1>4, <2>1 DEF Follows, Types
<1>10. Unheard'
  <2>1. task.cur < started + 1  BY <1>1, <1>5, SoundFields DEF Types, Behind
  <2> QED  BY <1>4, <2>1 DEF Unheard
<1> QED  BY <1>4, <1>7, <1>8, <1>9, <1>10 DEF SyncInv

LEMMA ReceiveSync == ASSUME SyncInv, NEW c \in Clients, Receive(c) PROVE SyncInv'
<1> DEFINE r == attached[c]
           last == copies[c].text[r] + 1 = MaxEvents
           copy == [copies[c] EXCEPT !.cur = r, !.text[r] = @ + 1, !.at = clock, !.busy = ~last]
<1>1. Types /\ Behind /\ Follows  BY DEF SyncInv
<1>2. r # NoRuntime /\ copies[c].text[r] < MaxEvents
      /\ copies' = [copies EXCEPT ![c] = copy]
      /\ (Send(copy) \/ UNCHANGED <<saves, sent>>)
      /\ UNCHANGED <<task, listed, running, started, attached, clock, restarts>>
  BY DEF Receive, HoldAndSend, Hold, storeVars, runtimeVars, saveVars
<1>3. r \in Runtimes /\ r <= started /\ copies[c].cur <= r /\ copies[c].whole
      /\ copies[c] \in Sound /\ clock \in 0..MaxClock /\ (~last) \in BOOLEAN
  <2>1. r \in 0..MaxRuntimes /\ r # 0 /\ copies[c] \in Sound /\ clock \in 0..MaxClock
    BY <1>1, <1>2 DEF Types, NoRuntime
  <2>2. r \in Runtimes  BY <2>1, BoundTypes DEF Runtimes
  <2>3. r <= started /\ copies[c].cur <= r /\ copies[c].whole
    BY <1>1, <1>2 DEF Follows, Behind
  <2>4. (~last) \in BOOLEAN  OBVIOUS
  <2> QED  BY <2>1, <2>2, <2>3, <2>4
<1>4. copy \in Sound /\ copy.cur = r /\ copy.whole
  <2> DEFINE old == copies[c]
             busy == ~last
             text == [old.text EXCEPT ![r] = old.text[r] + 1]
  <2>1. busy \in BOOLEAN /\ r \in Runtimes /\ old.cur <= r /\ old.whole
        /\ old.text[r] < MaxEvents /\ old \in Sound /\ clock \in 0..MaxClock
    BY <1>2, <1>3
  <2>2. old \in Copies  BY <2>1 DEF Sound
  <2>3. copy = [old EXCEPT !.cur = r, !.text = text, !.at = clock, !.busy = busy]
    BY <2>2, SMTT(30) DEF Copies
  <2>4. text \in [Runtimes -> 0..MaxEvents]
    BY <2>1, <2>2, BoundTypes DEF Copies
  <2>5. r \in 0..MaxRuntimes  BY <2>1, BoundTypes DEF Runtimes
  <2> HIDE DEF busy, copy, r, text
  <2>6. copy \in Copies /\ copy.cur = r /\ copy.whole /\ copy.text = text
    BY <2>1, <2>2, <2>3, <2>4, <2>5 DEF Copies
  <2> HIDE DEF old
  <2>7. copy \in Sound  BY <2>1, <2>6, Grown DEF text
  <2> QED  BY <2>6, <2>7
<1> HIDE DEF copy
<1>5. copy.cur <= started  BY <1>3, <1>4
<1>6. Types' /\ Behind'
  BY <1>1, <1>2, <1>4, <1>5, SendTypes DEF Types, Behind
<1>7. Follows'
  BY <1>1, <1>2, <1>3, <1>4, BoundTypes DEF Follows, Types
<1> QED  BY <1>2, <1>6, <1>7 DEF SyncInv, Unheard

LEMMA DetachSync == ASSUME SyncInv, NEW c \in Clients, Detach(c) PROVE SyncInv'
<1> DEFINE copy == [copies[c] EXCEPT !.busy = FALSE, !.at = clock]
<1>1. Types /\ Behind /\ Follows  BY DEF SyncInv
<1>2. copies[c] \in Sound /\ clock \in 0..MaxClock  BY <1>1 DEF Types
<1>3. copy \in Sound /\ copy.cur = copies[c].cur  BY <1>2, Relabelled
<1>4. attached' = [attached EXCEPT ![c] = NoRuntime]
      /\ UNCHANGED <<task, listed, running, started, clock, restarts>>
      /\ (\/ Send(copy) /\ copies' = [copies EXCEPT ![c] = copy]
          \/ UNCHANGED <<saves, sent, copies>>)
  BY DEF Detach, HoldAndSend, Hold, storeVars, runtimeVars, saveVars
<1> HIDE DEF copy
<1>5. copy.cur <= started /\ NoRuntime \in 0..MaxRuntimes /\ NoRuntime <= started
  BY <1>1, <1>3, BoundTypes DEF Behind, Types, NoRuntime
<1>6. Types' /\ Behind'  BY <1>1, <1>3, <1>4, <1>5, SendTypes DEF Types, Behind
<1>7. Follows'  BY <1>1, <1>4 DEF Follows, Types
<1> QED  BY <1>4, <1>6, <1>7 DEF SyncInv, Unheard

\* A client that loads or follows the task takes the stored copy, or its
\* status and time.
LEMMA HydrateSync == ASSUME SyncInv, NEW c \in Clients, Hydrate(c) PROVE SyncInv'
<1>1. Types /\ Behind /\ Follows /\ task.whole  BY DEF SyncInv
<1>2. copies' = [copies EXCEPT ![c] = task] /\ listed' = FALSE /\ ~copies[c].whole
      /\ UNCHANGED <<task, running, started, attached, saves, sent, clock, restarts>>
  BY DEF Hydrate, Hold, runtimeVars, saveVars
<1> QED  BY <1>1, <1>2 DEF SyncInv, Types, Behind, Follows, Unheard

LEMMA RefreshSync == ASSUME SyncInv, NEW c \in Clients, Refresh(c) PROVE SyncInv'
<1> DEFINE copy == [copies[c] EXCEPT !.at = task.at, !.busy = task.busy]
<1>1. Types /\ Behind /\ Follows  BY DEF SyncInv
<1>2. copies[c] \in Sound /\ task.at \in 0..MaxClock /\ task.busy \in BOOLEAN
  BY <1>1, SoundFields DEF Types
<1>3. copy \in Sound /\ copy.cur = copies[c].cur  BY <1>2, Relabelled
<1>4. copies' = [copies EXCEPT ![c] = copy] /\ attached[c] = NoRuntime
      /\ UNCHANGED <<task, listed, running, started, attached, saves, sent, clock, restarts>>
  BY DEF Refresh, Hold, storeVars, runtimeVars, saveVars
<1> HIDE DEF copy
<1> QED  BY <1>1, <1>3, <1>4 DEF SyncInv, Types, Behind, Follows, Unheard

LEMMA AttachSync == ASSUME SyncInv, NEW c \in Clients, Attach(c) PROVE SyncInv'
<1>1. Types /\ Behind /\ Follows /\ task.whole  BY DEF SyncInv
<1>2. copies' = [copies EXCEPT ![c] = task] /\ listed' = FALSE
      /\ attached' = [attached EXCEPT ![c] = running] /\ running # NoRuntime
      /\ UNCHANGED <<task, running, started, saves, sent, clock, restarts>>
  BY DEF Attach, Hold, runtimeVars, saveVars
<1>3. running = started /\ started \in 0..MaxRuntimes /\ started <= started
  BY <1>1, <1>2, BoundTypes DEF Types
<1>4. Types' /\ Behind'  BY <1>1, <1>2, <1>3 DEF Types, Behind
<1>5. Follows'  BY <1>1, <1>2, <1>3 DEF Types, Follows, Behind
<1> QED  BY <1>1, <1>2, <1>4, <1>5 DEF SyncInv, Unheard

LEMMA ReadActiveSync == ASSUME SyncInv, NEW s \in saves, ReadActive(s) PROVE SyncInv'
<1> DEFINE read == [s EXCEPT !.seen = running]
<1>1. Types /\ Behind  BY DEF SyncInv
<1>2. s \in [copy : Sound, seen : -1..MaxRuntimes, no : 0..MaxSaves] /\ running \in -1..MaxRuntimes
  BY <1>1, BoundTypes DEF Types, NoRuntime
<1>3. read \in [copy : Sound, seen : -1..MaxRuntimes, no : 0..MaxSaves] /\ read.copy = s.copy
  BY <1>2
<1>4. saves' = (saves \ {s}) \cup {read}
      /\ UNCHANGED <<task, listed, running, started, copies, attached, sent, clock, restarts>>
  BY DEF ReadActive, storeVars, runtimeVars, clientVars
<1> HIDE DEF read
<1>5. Types' /\ Behind'  BY <1>1, <1>3, <1>4 DEF Types, Behind
<1> QED  BY <1>4, <1>5 DEF SyncInv, Follows, Unheard

----------------------------------------------------------------------------
(* Merging a save                                                          *)

\* What a merge can do to the task: keep its transcript, or take the copy over.
LEMMA MergeOutcome ==
    ASSUME SyncInv, NEW s \in saves, MergeSave(s)
    PROVE  \/ /\ Precedes(s) /\ UNCHANGED listed
              /\ task' \in Sound /\ task'.text = task.text /\ task'.cur = task.cur /\ task'.whole
           \/ /\ ~Precedes(s) /\ listed' = FALSE
              /\ task' \in Sound /\ task'.text = s.copy.text /\ task'.cur = s.copy.cur /\ task'.whole
<1>1. Types /\ task.whole /\ s.copy \in Sound /\ task \in Sound  BY DEF SyncInv, Types
<1>2. CASE Precedes(s)
  <2>1. task' = MergedMetadata(s.copy) /\ UNCHANGED listed  BY <1>2 DEF MergeSave
  <2>2. s.copy.at \in 0..MaxClock /\ task.busy \in BOOLEAN  BY <1>1, SoundFields
  <2>3. CASE s.copy.at >= task.at
    <3>1. task' = [task EXCEPT !.at = s.copy.at]  BY <2>1, <2>3 DEF MergedMetadata
    <3>2. task' \in Sound /\ task'.cur = task.cur /\ task'.whole = task.whole
          /\ task'.text = task.text
      BY <1>1, <2>2, <3>1, Relabelled
    <3> QED  BY <1>1, <1>2, <2>1, <3>2
  <2>4. CASE ~(s.copy.at >= task.at)
    BY <1>1, <2>1, <2>4, <1>2 DEF MergedMetadata
  <2> QED  BY <2>3, <2>4
<1>3. CASE ~Precedes(s)
  BY <1>1, <1>3, Completed DEF MergeSave
<1> QED  BY <1>2, <1>3

LEMMA MergeSync == ASSUME SyncInv, NEW s \in saves, MergeSave(s) PROVE SyncInv'
<1>1. Types /\ Behind /\ Follows /\ Unheard  BY DEF SyncInv
<1>2. saves' = saves \ {s}
      /\ UNCHANGED <<running, started, copies, attached, sent, clock, restarts>>
  BY DEF MergeSave, runtimeVars, clientVars
<1>3. task' \in Sound /\ task'.whole /\ task'.cur <= started /\ listed' \in BOOLEAN
      /\ (listed' => listed /\ task'.cur = task.cur)
  BY <1>1, MergeOutcome DEF Types, Behind
<1>4. Types' /\ Behind'  BY <1>1, <1>2, <1>3 DEF Types, Behind
<1> QED  BY <1>1, <1>2, <1>3, <1>4 DEF SyncInv, Follows, Unheard

----------------------------------------------------------------------------
LEMMA DaemonSync ==
    ASSUME SyncInv, EndRuntime \/ RestartDaemon \/ Tick PROVE SyncInv'
<1>1. Types /\ Behind /\ Follows /\ Unheard /\ task.whole  BY DEF SyncInv
<1>2. CASE EndRuntime
  BY <1>1, <1>2 DEF EndRuntime, SyncInv, Types, Behind, Follows, Unheard,
     storeVars, clientVars, saveVars
<1>3. CASE RestartDaemon
  <2>1. restarts' \in 0..MaxRestarts  BY <1>1, <1>3, BoundTypes DEF RestartDaemon, Types
  <2> QED
    BY <1>1, <1>3, <2>1 DEF RestartDaemon, SyncInv, Types, Behind, Follows, Unheard, clientVars
<1>4. CASE Tick
  <2>1. clock' \in 0..MaxClock  BY <1>1, <1>4, BoundTypes DEF Tick, Types
  <2> QED
    BY <1>1, <1>4, <2>1 DEF Tick, SyncInv, Types, Behind, Follows, Unheard,
       storeVars, runtimeVars, clientVars, saveVars
<1> QED  BY <1>2, <1>3, <1>4

LEMMA NextSync == SyncInv /\ [SyncNext]_syncVars => SyncInv'
<1> SUFFICES ASSUME SyncInv, [SyncNext]_syncVars PROVE SyncInv'  OBVIOUS
<1>1. ASSUME NEW c \in Clients, Client(c) PROVE SyncInv'
  BY <1>1, RenameSync, SubmitSync, ReceiveSync, DetachSync, HydrateSync, RefreshSync,
     AttachSync DEF Client
<1>2. CASE Daemon  BY <1>2, ReadActiveSync, MergeSync DEF Daemon
<1>3. CASE EndRuntime \/ RestartDaemon \/ Tick  BY <1>3, DaemonSync
<1>4. CASE UNCHANGED syncVars
  BY <1>4 DEF syncVars, storeVars, runtimeVars, clientVars, saveVars, SyncInv, Types, Behind,
     Follows, Unheard
<1> QED  BY <1>1, <1>2, <1>3, <1>4 DEF SyncNext

LEMMA SyncSafety == SyncSpec => []SyncInv
BY InitSync, NextSync, PTL DEF SyncSpec

\* Copies, saves and clocks are well formed, whatever the interleaving.
THEOREM SyncTypeCorrect == SyncSpec => []SyncTypeOK
<1>1. SyncInv => SyncTypeOK
  <2> SUFFICES ASSUME SyncInv PROVE SyncTypeOK  OBVIOUS
  <2>1. Types /\ Sound \subseteq Copies  BY DEF SyncInv, Sound
  <2>2. [copy : Sound, seen : -1..MaxRuntimes, no : 0..MaxSaves]
          \subseteq [copy : Copies, seen : -1..MaxRuntimes, no : 0..MaxSaves]
    BY <2>1
  <2>3. running \in 0..MaxRuntimes  BY <2>1, BoundTypes DEF Types, NoRuntime
  <2>4. copies \in [Clients -> Copies]  BY <2>1 DEF Types
  <2> QED  BY <2>1, <2>2, <2>3, <2>4 DEF Types, SyncTypeOK
<1> QED  BY <1>1, SyncSafety, PTL

----------------------------------------------------------------------------
(* What a merge may take from the transcript                               *)

\* In a step that merges a save, that save was merged by MergeSave.
LEMMA MergedByMerge ==
    ASSUME SyncInv, [SyncNext]_syncVars, NEW s \in Merged
    PROVE  s \in saves /\ MergeSave(s)
<1>1. s \in saves /\ s \notin saves' /\ s.seen # Unread /\ restarts' = restarts
  BY DEF Merged
<1>2. ASSUME NEW c \in Clients, Client(c) PROVE saves \subseteq saves'
  BY <1>2 DEF Client, Rename, Submit, Receive, Detach, Hydrate, Refresh, Attach,
     HoldAndSend, Send, saveVars
<1>3. ASSUME NEW t \in saves, ReadActive(t) PROVE FALSE
  BY <1>1, <1>3 DEF ReadActive
<1>4. ASSUME NEW t \in saves, MergeSave(t) PROVE s = t
  BY <1>1, <1>4 DEF MergeSave
<1>5. ~RestartDaemon
  <2>1. restarts \in 0..MaxRestarts  BY DEF SyncInv, Types
  <2> QED  BY <1>1, <2>1, BoundTypes DEF RestartDaemon
<1>6. CASE EndRuntime \/ Tick \/ UNCHANGED syncVars
  BY <1>1, <1>6 DEF EndRuntime, Tick, syncVars, saveVars
<1> QED  BY <1>1, <1>2, <1>3, <1>4, <1>5, <1>6 DEF SyncNext, Daemon

LEMMA KeepsLive ==
    ASSUME SyncInv, NEW s \in saves, MergeSave(s), running # NoRuntime, s.seen = running
    PROVE  /\ task.cur = running => task'.text[running] >= task.text[running]
           /\ s.copy.cur = running => task'.text[running] >= s.copy.text[running]
<1>1. Types /\ Unheard /\ task \in Sound /\ s.copy \in Sound  BY DEF SyncInv, Types
<1>2. running \in Runtimes  BY <1>1, BoundTypes DEF Types, NoRuntime, Runtimes
<1>3. task.text[running] \in Nat /\ s.copy.text[running] \in Nat /\ task.cur \in Nat
      /\ s.copy.cur \in Nat /\ running \in Nat
  BY <1>1, <1>2, BoundTypes DEF Sound, Copies, Runtimes
<1>4. CASE Precedes(s)
  <2>1. task'.text = task.text  BY <1>4, MergeOutcome
  <2>2. ASSUME s.copy.cur = running PROVE task.text[running] >= s.copy.text[running]
    BY <1>3, <1>4, <2>2 DEF Precedes, KnownCursor, NoRuntime
  <2> QED  BY <1>3, <2>1, <2>2
<1>5. CASE ~Precedes(s)
  <2>1. task'.text = s.copy.text  BY <1>5, MergeOutcome
  <2>2. ASSUME task.cur = running PROVE s.copy.text[running] >= task.text[running]
    <3>1. ~listed  BY <1>1, <1>3, <2>2 DEF Unheard
    <3> QED  BY <1>3, <1>5, <2>2, <3>1 DEF Precedes, KnownCursor, NoRuntime
  <2> QED  BY <1>3, <2>1, <2>2
<1> QED  BY <1>4, <1>5

\* While a runtime is active, what the daemon stores of it only grows and is
\* never behind a save it has merged; but for a save that read the active
\* runtimes before this one started (daemon.rs:413), of which nothing is said.
THEOREM LiveKept == SyncSpec => LiveTranscriptKept
<1>1. SyncInv /\ [SyncNext]_syncVars =>
        [\A s \in Merged :
            running # NoRuntime /\ s.seen = running =>
               /\ task.cur = running => task'.text[running] >= task.text[running]
               /\ s.copy.cur = running => task'.text[running] >= s.copy.text[running]]_syncVars
  BY MergedByMerge, KeepsLive
<1> QED  BY <1>1, SyncSafety, PTL DEF SyncSpec, LiveTranscriptKept

LEMMA TakesOnlyThen ==
    ASSUME SyncInv, NEW s \in saves, MergeSave(s), Shrinks,
           s.copy.whole, s.seen = running, ~listed
    PROVE  StaleBase(s.copy)
<1>1. Types /\ Unheard /\ Behind /\ task \in Sound /\ s.copy \in Sound  BY DEF SyncInv, Types
<1>2. task \in Copies /\ s.copy \in Copies /\ Ordered(task) /\ Ordered(s.copy)
      /\ task.cur \in Nat /\ s.copy.cur \in Nat
  BY <1>1, BoundTypes DEF Sound, Copies
<1>3. \A r \in Runtimes : task.text[r] \in Nat /\ s.copy.text[r] \in Nat /\ r \in Nat
  BY <1>2, BoundTypes DEF Copies, Runtimes
<1>4. PICK q \in Runtimes : task'.text[q] < task.text[q]  BY DEF Shrinks
<1>5. ~Precedes(s) /\ task'.text = s.copy.text
  <2>1. task'.text # task.text  BY <1>3, <1>4
  <2> QED  BY <2>1, MergeOutcome
<1>6. CASE q # s.copy.cur  BY <1>4, <1>5, <1>6 DEF StaleBase
<1>7. CASE q = s.copy.cur
  <2>1. q <= task.cur /\ q # NoRuntime  BY <1>2, <1>3, <1>4, <1>5 DEF Ordered, NoRuntime, Runtimes
  <2>2. task.cur \in Runtimes /\ task.cur # NoRuntime  BY <1>1, <1>2, <2>1, BoundTypes DEF Runtimes, NoRuntime, Copies
  <2>3. task.cur # q
    BY <1>3, <1>4, <1>5, <1>7, <2>1, <1>1 DEF Precedes, KnownCursor
  <2>4. task.text[task.cur] >= 1  BY <1>2, <2>2 DEF Ordered
  <2>5. s.copy.text[task.cur] = 0
    BY <1>2, <1>3, <1>7, <2>1, <2>2, <2>3 DEF Ordered
  <2>6. task.cur # s.copy.cur /\ s.copy.text[task.cur] < task.text[task.cur]
    BY <1>3, <1>7, <2>2, <2>3, <2>4, <2>5
  <2> QED  BY <2>2, <2>6 DEF StaleBase
<1> QED  BY <1>6, <1>7

\* A merge takes history from the stored task only in the four named ways.
THEOREM HistoryTaken == SyncSpec => HistoryKept
<1>1. SyncInv /\ [SyncNext]_syncVars =>
        [\A s \in Merged : Shrinks =>
            ~s.copy.whole \/ s.seen # running \/ listed \/ StaleBase(s.copy)]_syncVars
  BY MergedByMerge, TakesOnlyThen DEF SyncInv, Types
<1> QED  BY <1>1, SyncSafety, PTL DEF SyncSpec, HistoryKept
=============================================================================
