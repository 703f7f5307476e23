--------------------------- MODULE EventHubProofs ---------------------------
(***************************************************************************)
(* Proofs about EventHub, for any clients, sessions, capacities and        *)
(* bounds: the type invariant, that only a running runtime has a journal,  *)
(* that events are seen in order, and that the event path implements the   *)
(* abstract stream of EventStream.                                         *)
(***************************************************************************)
EXTENDS EventHub, SequenceTheorems, FiniteSetTheorems, WellFoundedInduction, TLAPS

\* What was published is of this daemon process or an earlier one; of this one
\* it is not newer than the runtime its session runs, nor than its counter.
Published ==
    /\ \A s \in Sessions : active[s] <= started
    /\ \A e \in emitted : e.epoch <= epoch
    /\ \A e \in emitted : e.epoch = epoch =>
          /\ e.runtime <= started
          /\ active[e.session] # NoRuntime => e.runtime <= active[e.session]
          /\ active[e.session] = e.runtime => e.seq <= nextSeq[Key(e)]

\* A journal holds published events of its runtime, which is running.
Journals ==
    \A k \in Keys :
        /\ journal[k] # <<>> => active[k[1]] = k[2]
        /\ Len(journal[k]) <= JournalCap
        /\ \A i \in DOMAIN journal[k] :
              /\ journal[k][i] \in emitted /\ Key(journal[k][i]) = k
              /\ journal[k][i].epoch = epoch /\ journal[k][i].seq <= nextSeq[k]
        /\ \A i, j \in DOMAIN journal[k] : i < j => journal[k][i].seq < journal[k][j].seq

\* A connection's queue holds published events of this daemon process, a
\* session's runtimes in the order of their starts.
Queues ==
    \A c \in Clients :
        /\ \A i \in DOMAIN queue[c] : queue[c][i] \in emitted /\ queue[c][i].epoch = epoch
        /\ \A i, j \in DOMAIN queue[c] :
              i < j /\ queue[c][i].session = queue[c][j].session
              => queue[c][i].runtime <= queue[c][j].runtime

\* What a client has seen is covered by its cursor and not newer than what is
\* queued for it.
Cursors ==
    /\ \A c \in Clients, k \in Keys : cursor[c][k].epoch <= epoch
    /\ \A c \in Clients : \A i \in DOMAIN log[c] :
          LET e == log[c][i]
          IN  /\ e \in emitted
              /\ cursor[c][Key(e)].epoch >= e.epoch
              /\ cursor[c][Key(e)].epoch = e.epoch => e.seq <= cursor[c][Key(e)].seq
              /\ \A j \in DOMAIN queue[c] :
                    e.epoch = epoch /\ e.session = queue[c][j].session
                    => e.runtime <= queue[c][j].runtime

\* What a client has seen is in the order of publication.
Logs ==
    \A c \in Clients : \A i, j \in DOMAIN log[c] :
        i < j => Stream!Before(log[c][i], log[c][j])

HubInv == TypeOK /\ Published /\ Journals /\ Queues /\ Cursors /\ Logs

----------------------------------------------------------------------------
(* Sequences of events                                                     *)

LEMMA BoundTypes ==
    /\ JournalCap \in Nat /\ JournalCap >= 1 /\ QueueCap \in Nat /\ QueueCap >= 1
    /\ MaxRuntimes \in Nat /\ MaxEvents \in Nat /\ MaxEpochs \in Nat /\ MaxEpochs >= 1
    /\ MaxDrops \in Nat /\ NoClient \notin Clients
BY ConstantsAssumption

\* A journal with one more event is a suffix of the old one, then the event.
LEMMA JournaledIsSuffix ==
    ASSUME NEW j \in Seq(Events), Len(j) <= JournalCap, NEW e \in Events
    PROVE  /\ Journaled(j, e) \in Seq(Events)
           /\ Journaled(j, e) # <<>> /\ Len(Journaled(j, e)) <= JournalCap
           /\ \E d \in Nat : /\ Len(Journaled(j, e)) + d = Len(j) + 1
                             /\ \A i \in 1..Len(Journaled(j, e)) :
                                   Journaled(j, e)[i] = IF i + d = Len(j) + 1 THEN e ELSE j[i + d]
<1> DEFINE all == Append(j, e)
           n == Len(all)
<1>1. all \in Seq(Events) /\ n = Len(j) + 1 /\ Len(j) \in Nat /\ n \in Nat
      /\ \A i \in 1..n : all[i] \in Events /\ all[i] = IF i = n THEN e ELSE j[i]
  BY AppendProperties, LenProperties, ElementOfSeq
<1>2. CASE n > JournalCap
  <2> DEFINE m == n - JournalCap + 1
             part == SubSeq(all, m, n)
  <2>1. m \in Int /\ n \in Int /\ m >= 1 /\ m <= n /\ n - m + 1 = JournalCap /\ m - 1 \in Nat
    BY <1>1, <1>2, BoundTypes
  <2>2. \A i \in m..n : all[i] \in Events  BY <1>1, <2>1
  <2>3. part \in Seq(Events) /\ Len(part) = JournalCap
        /\ \A i \in 1..JournalCap : part[i] = all[m + i - 1]
    <3> HIDE DEF m, n, all
    <3>1. part \in Seq(Events) /\ Len(part) = (IF m <= n THEN n - m + 1 ELSE 0)
          /\ \A i \in 1..n - m + 1 : part[i] = all[m + i - 1]
      BY <2>1, <2>2, SubSeqProperties
    <3> QED  BY <3>1, <2>1
  <2>4. Journaled(j, e) = part  BY <1>2 DEF Journaled
  <2> HIDE DEF part
  <2>5. part # <<>>  BY <2>3, BoundTypes, EmptySeq
  <2>6. Len(part) + (m - 1) = Len(j) + 1  BY <1>1, <2>1, <2>3
  <2>7. \A i \in 1..Len(part) : part[i] = IF i + (m - 1) = Len(j) + 1 THEN e ELSE j[i + (m - 1)]
    <3> SUFFICES ASSUME NEW i \in 1..JournalCap
                 PROVE  part[i] = IF i + (m - 1) = n THEN e ELSE j[i + (m - 1)]
      BY <1>1, <2>3
    <3>1. i + (m - 1) \in 1..n /\ m + i - 1 = i + (m - 1)
      BY <1>1, <2>1, BoundTypes
    <3> HIDE DEF m, n, all
    <3> QED  BY <1>1, <2>3, <3>1
  <2>8. \E d \in Nat : /\ Len(part) + d = Len(j) + 1
                       /\ \A i \in 1..Len(part) :
                             part[i] = IF i + d = Len(j) + 1 THEN e ELSE j[i + d]
    <3> DEFINE d == m - 1
    <3>1. d \in Nat /\ Len(part) + d = Len(j) + 1
          /\ \A i \in 1..Len(part) : part[i] = IF i + d = Len(j) + 1 THEN e ELSE j[i + d]
      BY <2>1, <2>6, <2>7
    <3> HIDE DEF d
    <3> QED  BY <3>1
  <2>9. part \in Seq(Events) /\ Len(part) <= JournalCap  BY <2>3, BoundTypes
  <2> QED  BY <2>4, <2>5, <2>8, <2>9
<1>3. CASE ~(n > JournalCap)
  <2>1. Journaled(j, e) = all  BY <1>3 DEF Journaled
  <2>2. all # <<>> /\ n <= JournalCap  BY <1>1, <1>3, BoundTypes, AppendProperties
  <2> HIDE DEF all
  <2>3. \E d \in Nat : /\ n + d = Len(j) + 1
                       /\ \A i \in 1..n : all[i] = IF i + d = Len(j) + 1 THEN e ELSE j[i + d]
    <3>1. n + 0 = Len(j) + 1  BY <1>1
    <3>2. ASSUME NEW i \in 1..n
          PROVE  all[i] = IF i + 0 = Len(j) + 1 THEN e ELSE j[i + 0]
      <4>1. i + 0 = i  BY <1>1
      <4> QED  BY <1>1, <4>1
    <3> QED  BY <3>1, <3>2
  <2> QED  BY <1>1, <2>1, <2>2, <2>3
<1> QED  BY <1>2, <1>3

\* What a replay queues: events of the journal, no more than there is room for.
LEMMA ReplayedPart ==
    ASSUME NEW q \in Seq(Events), Len(q) <= QueueCap, NEW j \in Seq(Events), NEW n \in Nat
    PROVE  LET t == Fitting(q, Unseen(j, n))
           IN  /\ t \in Seq(Events) /\ Len(q) + Len(t) <= QueueCap
               /\ \A i \in 1..Len(t) : \E p \in 1..Len(j) : t[i] = j[p]
<1> DEFINE seen == {i \in DOMAIN j : j[i].seq <= n}
           m == Cardinality(seen) + 1
           u == Unseen(j, n)
<1>1. Len(j) \in Nat /\ DOMAIN j = 1..Len(j) /\ Len(q) \in Nat /\ \A i \in 1..Len(j) : j[i] \in Events
  BY LenProperties, ElementOfSeq
<1>2. m \in Int /\ m >= 1
  <2>1. seen \in SUBSET (1..Len(j)) /\ IsFiniteSet(1..Len(j))  BY <1>1, FS_Interval
  <2> HIDE DEF seen
  <2>2. IsFiniteSet(seen)  BY <2>1, FS_Subset
  <2> QED  BY <2>2, FS_CardinalityType
<1>3. u = SubSeq(j, m, Len(j))  BY DEF Unseen
<1> HIDE DEF u, m
<1>4. u \in Seq(Events) /\ \A i \in 1..Len(u) : \E p \in 1..Len(j) : u[i] = j[p]
  <2>1. \A i \in m..Len(j) : j[i] \in Events  BY <1>1, <1>2
  <2>2. u \in Seq(Events) /\ Len(u) = (IF m <= Len(j) THEN Len(j) - m + 1 ELSE 0)
        /\ \A i \in 1..Len(j) - m + 1 : u[i] = j[m + i - 1]
    BY <1>1, <1>2, <1>3, <2>1, SubSeqProperties
  <2>3. ASSUME NEW i \in 1..Len(u) PROVE u[i] = j[m + i - 1] /\ m + i - 1 \in 1..Len(j)
    BY <1>1, <1>2, <2>2
  <2> QED  BY <2>2, <2>3
<1>5. Len(u) \in Nat /\ \A i \in 1..Len(u) : u[i] \in Events  BY <1>4, LenProperties, ElementOfSeq
<1> DEFINE room == QueueCap - Len(q)
           t == Fitting(q, u)
<1>6. room \in Nat  BY <1>1, BoundTypes
<1>7. t \in Seq(Events) /\ Len(t) <= room /\ \A i \in 1..Len(t) : i \in 1..Len(u) /\ t[i] = u[i]
  <2>1. CASE Len(u) > room
    <3>1. t = SubSeq(u, 1, room)  BY <2>1 DEF Fitting
    <3> HIDE DEF t, room
    <3>2. \A i \in 1..room : u[i] \in Events  BY <1>5, <1>6, <2>1
    <3>3. t \in Seq(Events) /\ Len(t) = (IF 1 <= room THEN room - 1 + 1 ELSE 0)
          /\ \A i \in 1..room - 1 + 1 : t[i] = u[1 + i - 1]
      BY <1>6, <3>1, <3>2, SubSeqProperties
    <3> QED  BY <1>5, <1>6, <2>1, <3>3
  <2>2. CASE ~(Len(u) > room)
    <3>1. t = u  BY <2>2 DEF Fitting
    <3> HIDE DEF t, room
    <3> QED  BY <1>4, <1>5, <1>6, <2>2, <3>1
  <2> QED  BY <2>1, <2>2
<1>8. Len(t) \in Nat  BY <1>7, LenProperties
<1> HIDE DEF t
<1>9. Len(q) + Len(t) <= QueueCap  BY <1>1, <1>7, <1>8, BoundTypes
<1> QED  BY <1>4, <1>7, <1>9 DEF t, u

----------------------------------------------------------------------------
(* The invariant: the hub                                                  *)

LEMMA InitHub == Init => HubInv
<1> SUFFICES ASSUME Init PROVE HubInv  OBVIOUS
<1>1. TypeOK
  BY BoundTypes, EmptySeq DEF Init, TypeOK, NoRuntime, Phases, Unlocked, NoCursor
<1>2. Published  BY BoundTypes DEF Init, Published, NoRuntime
<1>3. Journals  BY BoundTypes DEF Init, Journals
<1>4. Queues /\ Cursors /\ Logs  BY DEF Init, Queues, Cursors, Logs, NoCursor
<1> QED  BY <1>1, <1>2, <1>3, <1>4 DEF HubInv

LEMMA EventFields ==
    ASSUME NEW e \in Events
    PROVE  /\ e.session \in Sessions /\ e.runtime \in Runtimes /\ e.runtime \in Nat
           /\ e.runtime # NoRuntime /\ e.epoch \in Nat /\ e.seq \in Nat
           /\ Key(e) \in Keys /\ Key(e)[1] = e.session /\ Key(e)[2] = e.runtime
BY BoundTypes DEF Events, Runtimes, NoRuntime, Key, Keys

LEMMA HubTypes ==
    ASSUME TypeOK
    PROVE  /\ epoch \in Nat /\ started \in Nat /\ emitted \subseteq Events
           /\ \A s \in Sessions : active[s] \in Nat
           /\ \A k \in Keys : nextSeq[k] \in Nat /\ journal[k] \in Seq(Events)
           /\ \A c \in Clients : queue[c] \in Seq(Events) /\ log[c] \in Seq(Events)
           /\ \A c \in Clients, k \in Keys : cursor[c][k] \in [epoch : Nat, seq : Nat]
BY BoundTypes DEF TypeOK, Runtimes, NoRuntime

\* A session's runtime is replaced by a newer one, or by none.
LEMMA ForgetKeeps ==
    ASSUME HubInv, NEW s \in Sessions, Forget(s), NEW r \in Runtimes \cup {NoRuntime},
           started' \in 0..MaxRuntimes, started <= started', r <= started',
           r = NoRuntime \/ r > started,
           active' = [active EXCEPT ![s] = r],
           UNCHANGED <<epoch, phase, queue, lock, cursor, log, emitted, cut, drops>>
    PROVE  HubInv'
<1>1. TypeOK /\ Published /\ Journals  BY DEF HubInv
<1>2. /\ \A k \in Keys : nextSeq'[k] = IF k[1] = s THEN 0 ELSE nextSeq[k]
      /\ \A k \in Keys : journal'[k] = IF k[1] = s THEN <<>> ELSE journal[k]
      /\ \A t \in Sessions : active'[t] = IF t = s THEN r ELSE active[t]
  BY <1>1 DEF Forget, TypeOK
<1>3. TypeOK'
  <2>1. nextSeq' \in [Keys -> Nat]  BY <1>1 DEF Forget, TypeOK
  <2>2. journal' \in [Keys -> Seq(Events)]  BY <1>1, EmptySeq DEF Forget, TypeOK
  <2>3. active' \in [Sessions -> Runtimes \cup {NoRuntime}]  BY <1>1 DEF TypeOK
  <2> QED  BY <1>1, <2>1, <2>2, <2>3 DEF TypeOK
<1>4. Published'
  <2>1. \A t \in Sessions : active'[t] <= started'
    BY <1>1, <1>2, HubTypes, BoundTypes DEF Published
  <2>2. ASSUME NEW e \in emitted', e.epoch = epoch'
        PROVE  /\ e.runtime <= started'
               /\ active'[e.session] # NoRuntime => e.runtime <= active'[e.session]
               /\ active'[e.session] = e.runtime => e.seq <= nextSeq'[Key(e)]
    <3>1. e \in Events /\ e.epoch = epoch /\ e \in emitted  BY <1>1, <2>2 DEF TypeOK
    <3>2. e.runtime <= started /\ started \in Nat /\ started' \in Nat /\ e.runtime \in Nat
      BY <1>1, <2>2, <3>1, HubTypes, EventFields, BoundTypes DEF Published
    <3>3. CASE e.session = s
      BY <1>2, <3>1, <3>2, <3>3, EventFields, BoundTypes DEF Runtimes, NoRuntime
    <3>4. CASE e.session # s
      BY <1>1, <1>2, <2>2, <3>1, <3>2, <3>4, EventFields DEF Published
    <3> QED  BY <3>3, <3>4
  <2> QED  BY <1>1, <2>1, <2>2 DEF Published
<1>5. Journals'
  <2> SUFFICES ASSUME NEW k \in Keys
               PROVE  /\ journal'[k] # <<>> => active'[k[1]] = k[2]
                      /\ Len(journal'[k]) <= JournalCap
                      /\ \A i \in DOMAIN journal'[k] :
                            /\ journal'[k][i] \in emitted /\ Key(journal'[k][i]) = k
                            /\ journal'[k][i].epoch = epoch /\ journal'[k][i].seq <= nextSeq'[k]
                      /\ \A i, j \in DOMAIN journal'[k] :
                            i < j => journal'[k][i].seq < journal'[k][j].seq
    BY DEF Journals
  <2>1. CASE k[1] = s  BY <1>2, <2>1, BoundTypes
  <2>2. CASE k[1] # s
    <3>1. k[1] \in Sessions  BY DEF Keys
    <3>2. journal'[k] = journal[k] /\ nextSeq'[k] = nextSeq[k] /\ active'[k[1]] = active[k[1]]
      BY <1>2, <2>2, <3>1
    <3> QED  BY <1>1, <3>2 DEF Journals
  <2> QED  BY <2>1, <2>2
<1> QED  BY <1>3, <1>4, <1>5 DEF HubInv, Queues, Cursors, Logs

LEMMA BeginKeeps == ASSUME HubInv, NEW s \in Sessions, BeginRuntime(s) PROVE HubInv'
<1>1. started \in Nat /\ started < MaxRuntimes /\ started' = started + 1
  BY HubTypes DEF HubInv, BeginRuntime
<1> DEFINE r == started + 1
<1>2. r \in Runtimes \cup {NoRuntime} /\ started' \in 0..MaxRuntimes /\ started <= started'
      /\ r <= started' /\ r > started
  BY <1>1, BoundTypes DEF Runtimes
<1>3. Forget(s) /\ active' = [active EXCEPT ![s] = r]
      /\ UNCHANGED <<epoch, phase, queue, lock, cursor, log, emitted, cut, drops>>
  BY DEF BeginRuntime
<1> HIDE DEF r
<1> QED  BY <1>2, <1>3, ForgetKeeps

LEMMA EndKeeps ==
    ASSUME HubInv, NEW s \in Sessions, NEW r \in Runtimes \cup {NoRuntime}, EndRuntime(s, r)
    PROVE  HubInv'
<1>1. started \in Nat /\ started' = started /\ started \in 0..MaxRuntimes
  BY HubTypes DEF HubInv, EndRuntime, TypeOK
<1>2. NoRuntime <= started /\ NoRuntime \in Runtimes \cup {NoRuntime}  BY <1>1 DEF NoRuntime
<1>3. Forget(s) /\ active' = [active EXCEPT ![s] = NoRuntime]
      /\ UNCHANGED <<epoch, phase, queue, lock, cursor, log, emitted, cut, drops>>
  BY DEF EndRuntime
<1>4. started <= started'  BY <1>1
<1> QED  BY <1>1, <1>2, <1>3, <1>4, ForgetKeeps

\* Queueing events of running runtimes behind what is queued keeps the order.
LEMMA Enqueued ==
    ASSUME HubInv, NEW c \in Clients, NEW t \in Seq(Events),
           \A i \in 1..Len(t) : t[i].epoch = epoch /\ t[i].runtime = active[t[i].session],
           NEW q \in Seq(Events), q = queue[c] \o t
    PROVE  /\ Len(q) = Len(queue[c]) + Len(t)
           /\ \A i \in DOMAIN q : /\ q[i].epoch = epoch
                                  /\ q[i] \in emitted \/ \E p \in 1..Len(t) : q[i] = t[p]
           /\ \A i, j \in DOMAIN q :
                 i < j /\ q[i].session = q[j].session => q[i].runtime <= q[j].runtime
           /\ \A l \in DOMAIN log[c], j \in DOMAIN q :
                 log[c][l].epoch = epoch /\ log[c][l].session = q[j].session
                 => log[c][l].runtime <= q[j].runtime
<1> DEFINE old == queue[c]
<1>1. TypeOK /\ Published /\ Queues /\ Cursors  BY DEF HubInv
<1>2. old \in Seq(Events) /\ Len(old) \in Nat /\ Len(t) \in Nat /\ DOMAIN old = 1..Len(old)
  BY <1>1, HubTypes, LenProperties
<1>3. q \in Seq(Events) /\ Len(q) = Len(old) + Len(t) /\ DOMAIN q = 1..(Len(old) + Len(t))
      /\ \A i \in DOMAIN q : q[i] = IF i <= Len(old) THEN old[i] ELSE t[i - Len(old)]
  BY <1>2, ConcatProperties, LenProperties
<1>4. \A i \in DOMAIN old : old[i] \in emitted /\ old[i].epoch = epoch
  BY <1>1 DEF Queues
<1>10. /\ \A i, j \in DOMAIN old :
            i < j /\ old[i].session = old[j].session => old[i].runtime <= old[j].runtime
       /\ \A l \in DOMAIN log[c], j \in DOMAIN old :
            log[c][l].epoch = epoch /\ log[c][l].session = old[j].session
            => log[c][l].runtime <= old[j].runtime
  BY <1>1 DEF Queues, Cursors
<1> HIDE DEF old
<1>5. \A i \in DOMAIN q : \/ i \in DOMAIN old /\ q[i] = old[i]
                          \/ i - Len(old) \in 1..Len(t) /\ q[i] = t[i - Len(old)] /\ ~(i <= Len(old))
  BY <1>2, <1>3
\* Nothing published is newer than an event of t.
<1>6. ASSUME NEW p \in emitted, p.epoch = epoch, NEW i \in 1..Len(t), p.session = t[i].session
      PROVE  p.runtime <= t[i].runtime
  <2>1. t[i] \in Events  BY ElementOfSeq
  <2>2. t[i].runtime = active[p.session] /\ active[p.session] # NoRuntime
    BY <1>6, <2>1, EventFields
  <2> QED  BY <1>1, <1>6, <2>2 DEF Published
<1>7. \A i \in DOMAIN q : /\ q[i].epoch = epoch
                          /\ (q[i] \in emitted \/ \E p \in 1..Len(t) : q[i] = t[p])
  BY <1>4, <1>5
<1>8. ASSUME NEW i \in DOMAIN q, NEW j \in DOMAIN q, i < j, q[i].session = q[j].session
      PROVE  q[i].runtime <= q[j].runtime
  <2>1. CASE i \in DOMAIN old /\ j \in DOMAIN old
    <3>1. q[i] = old[i] /\ q[j] = old[j]  BY <1>2, <1>5, <2>1
    <3> QED  BY <1>8, <1>10, <2>1, <3>1
  <2>2. CASE i \in DOMAIN old /\ j \notin DOMAIN old
    <3>1. j - Len(old) \in 1..Len(t) /\ q[j] = t[j - Len(old)] /\ q[i] = old[i]
      BY <1>2, <1>3, <1>5, <2>2
    <3> QED  BY <1>4, <1>6, <1>8, <2>2, <3>1
  <2>3. CASE i \notin DOMAIN old
    <3>1. /\ i - Len(old) \in 1..Len(t) /\ q[i] = t[i - Len(old)]
          /\ j - Len(old) \in 1..Len(t) /\ q[j] = t[j - Len(old)]
      <4>1. i \in 1..(Len(old) + Len(t)) /\ j \in 1..(Len(old) + Len(t))  BY <1>3
      <4>2. i > Len(old)  BY <1>2, <2>3, <4>1
      <4>3. j > Len(old)  BY <1>2, <1>8, <4>1, <4>2
      <4>4. i \notin DOMAIN old /\ j \notin DOMAIN old  BY <1>2, <4>1, <4>2, <4>3
      <4> QED  BY <1>5, <4>4
    <3>2. q[i].runtime = q[j].runtime /\ q[i] \in Events
      BY <1>8, <3>1, ElementOfSeq
    <3> QED  BY <3>2, EventFields, SMTT(30)
  <2> QED  BY <2>1, <2>2, <2>3
<1>9. ASSUME NEW l \in DOMAIN log[c], NEW j \in DOMAIN q,
             log[c][l].epoch = epoch, log[c][l].session = q[j].session
      PROVE  log[c][l].runtime <= q[j].runtime
  <2>1. CASE j \in DOMAIN old  
    <3>1. q[j] = old[j]  BY <1>2, <1>5, <2>1
    <3> QED  BY <1>9, <1>10, <2>1, <3>1
  <2>2. CASE j \notin DOMAIN old
    <3>1. log[c][l] \in emitted  BY <1>1 DEF Cursors
    <3> QED  BY <1>5, <1>6, <1>9, <2>2, <3>1
  <2> QED  BY <2>1, <2>2
<1> QED  BY <1>3, <1>7, <1>8, <1>9 DEF old

LEMMA EmitKeeps ==
    ASSUME HubInv, NEW s \in Sessions, NEW r \in Runtimes, NEW replayable \in BOOLEAN,
           Emit(s, r, replayable)
    PROVE  HubInv'
<1> DEFINE k == <<s, r>>
           e == [session |-> s, runtime |-> r, epoch |-> epoch, seq |-> nextSeq[k] + 1]
<1>1. TypeOK /\ Published /\ Journals /\ Queues /\ Cursors /\ Logs  BY DEF HubInv
<1>2. /\ active[s] = r
      /\ nextSeq' = [nextSeq EXCEPT ![k] = @ + 1]
      /\ journal' = IF replayable THEN [journal EXCEPT ![k] = Journaled(@, e)] ELSE journal
      /\ Broadcast(e) /\ emitted' = emitted \cup {e}
      /\ UNCHANGED <<epoch, started, active, lock, cursor, log, cut, drops>>
  BY DEF Emit, Current
<1>3. k \in Keys /\ k[1] = s /\ k[2] = r /\ nextSeq[k] \in Nat /\ journal[k] \in Seq(Events)
      /\ nextSeq'[k] = nextSeq[k] + 1 /\ \A x \in Keys : x # k => nextSeq'[x] = nextSeq[x]
  BY <1>1, <1>2, HubTypes DEF Keys, TypeOK
<1>4. e \in Events /\ Key(e) = k /\ e.session = s /\ e.runtime = r /\ e.epoch = epoch
      /\ e.seq = nextSeq[k] + 1
  BY <1>1, <1>3, HubTypes DEF Events, Key
<1> HIDE DEF e
<1>5. \A x \in Keys : nextSeq[x] \in Nat /\ nextSeq'[x] \in Nat /\ nextSeq[x] <= nextSeq'[x]
  BY <1>1, <1>3, HubTypes
<1>6. ASSUME NEW c \in Clients
      PROVE  /\ queue'[c] \in Seq(Events) /\ Len(queue'[c]) <= QueueCap
             /\ \A i \in DOMAIN queue'[c] :
                   queue'[c][i] \in emitted' /\ queue'[c][i].epoch = epoch
             /\ \A i, j \in DOMAIN queue'[c] :
                   i < j /\ queue'[c][i].session = queue'[c][j].session
                   => queue'[c][i].runtime <= queue'[c][j].runtime
             /\ \A l \in DOMAIN log[c], j \in DOMAIN queue'[c] :
                   log[c][l].epoch = epoch /\ log[c][l].session = queue'[c][j].session
                   => log[c][l].runtime <= queue'[c][j].runtime
  <2>1. queue[c] \in Seq(Events) /\ Len(queue[c]) \in Nat /\ Len(queue[c]) <= QueueCap
    BY <1>1, HubTypes, LenProperties DEF TypeOK
  <2>2. CASE Registered(c) /\ ~Full(c)
    <3>1. queue'[c] = Append(queue[c], e)  BY <1>2, <2>2 DEF Broadcast
    <3> DEFINE t == <<e>>
    <3>2. t \in Seq(Events) /\ Len(t) = 1 /\ t[1] = e /\ queue'[c] = queue[c] \o t
      BY <1>4, <2>1, <3>1, AppendIsConcat
    <3> DEFINE q == queue'[c]
    <3>3. q \in Seq(Events)  BY <1>4, <2>1, <3>1, AppendProperties
    <3> HIDE DEF t, q
    <3>4. \A i \in 1..Len(t) : t[i].epoch = epoch /\ t[i].runtime = active[t[i].session]
      BY <1>2, <1>4, <3>2
    <3>5. q = queue[c] \o t  BY <3>2 DEF q
    <3>6. /\ Len(q) = Len(queue[c]) + Len(t)
          /\ \A i \in DOMAIN q : /\ q[i].epoch = epoch
                                 /\ q[i] \in emitted \/ \E p \in 1..Len(t) : q[i] = t[p]
          /\ \A i, j \in DOMAIN q :
                i < j /\ q[i].session = q[j].session => q[i].runtime <= q[j].runtime
          /\ \A l \in DOMAIN log[c], j \in DOMAIN q :
                log[c][l].epoch = epoch /\ log[c][l].session = q[j].session
                => log[c][l].runtime <= q[j].runtime
      BY <3>2, <3>3, <3>4, <3>5, Enqueued
    <3>7. Len(q) <= QueueCap  BY <2>1, <2>2, <3>2, <3>6, BoundTypes DEF Full
    <3>8. \A i \in DOMAIN q : q[i] \in emitted'  BY <1>2, <3>2, <3>6
    <3> QED  BY <3>3, <3>6, <3>7, <3>8 DEF q
  <2>3. CASE ~(Registered(c) /\ ~Full(c))
    <3>1. queue'[c] = queue[c]  BY <1>2, <2>3 DEF Broadcast
    <3> QED  BY <1>1, <1>2, <2>1, <3>1 DEF Queues, Cursors
  <2> QED  BY <2>2, <2>3
<1>7. /\ journal' \in [Keys -> Seq(Events)]
      /\ \A x \in Keys : x # k => journal'[x] = journal[x]
      /\ journal'[k] = IF replayable THEN Journaled(journal[k], e) ELSE journal[k]
  <2>1. Journaled(journal[k], e) \in Seq(Events)
    BY <1>1, <1>3, <1>4, JournaledIsSuffix DEF Journals
  <2> QED  BY <1>1, <1>2, <1>3, <2>1 DEF TypeOK
<1>8. TypeOK'
  <2>1. nextSeq' \in [Keys -> Nat]  BY <1>1, <1>2, <1>3, SMTT(30) DEF TypeOK
  <2>2. queue' \in [Clients -> Seq(Events)] /\ phase' \in [Clients -> Phases]
    <3>1. phase' \in [Clients -> Phases]  BY <1>1, <1>2 DEF Broadcast, TypeOK, Phases
    <3>2. \A c \in Clients : queue'[c] \in Seq(Events)  BY <1>6
    <3>3. queue' = [c \in Clients |-> queue'[c]]  BY <1>2 DEF Broadcast
    <3> QED  BY <3>1, <3>2, <3>3
  <2>3. emitted' \subseteq Events  BY <1>1, <1>2, <1>4 DEF TypeOK
  <2> QED  BY <1>1, <1>2, <1>6, <1>7, <2>1, <2>2, <2>3 DEF TypeOK
<1>9. Published'
  <2> SUFFICES ASSUME NEW p \in emitted'
               PROVE  /\ p.epoch <= epoch
                      /\ p.epoch = epoch =>
                            /\ p.runtime <= started
                            /\ active[p.session] # NoRuntime => p.runtime <= active[p.session]
                            /\ active[p.session] = p.runtime => p.seq <= nextSeq'[Key(p)]
    BY <1>1, <1>2 DEF Published
  <2>1. CASE p = e
    <3>1. r <= started /\ r \in Nat /\ epoch \in Nat
      BY <1>1, <1>2, HubTypes, BoundTypes DEF Published, Runtimes
    <3>2. nextSeq'[k] = e.seq /\ e.seq \in Nat  BY <1>3, <1>4
    <3> QED  BY <1>2, <1>4, <2>1, <3>1, <3>2
  <2>2. CASE p \in emitted
    <3>1. p \in Events  BY <1>1, <2>2 DEF TypeOK
    <3> QED  BY <1>1, <1>5, <2>2, <3>1, EventFields DEF Published
  <2> QED  BY <1>2, <2>1, <2>2
<1>10. Journals'
  <2> SUFFICES ASSUME NEW x \in Keys
               PROVE  /\ journal'[x] # <<>> => active[x[1]] = x[2]
                      /\ Len(journal'[x]) <= JournalCap
                      /\ \A i \in DOMAIN journal'[x] :
                            /\ journal'[x][i] \in emitted' /\ Key(journal'[x][i]) = x
                            /\ journal'[x][i].epoch = epoch /\ journal'[x][i].seq <= nextSeq'[x]
                      /\ \A i, j \in DOMAIN journal'[x] :
                            i < j => journal'[x][i].seq < journal'[x][j].seq
    BY <1>2 DEF Journals
  <2>1. CASE x # k \/ ~replayable
    <3>1. journal'[x] = journal[x]  BY <1>7, <2>1
    <3>2. \A i \in DOMAIN journal[x] : journal[x][i] \in Events /\ journal[x][i].seq \in Nat
      BY <1>1, EventFields DEF Journals, TypeOK
    <3> QED  BY <1>1, <1>2, <1>5, <3>1, <3>2 DEF Journals
  <2>2. CASE x = k /\ replayable
    <3> DEFINE j == journal[k]
               new == Journaled(j, e)
    <3>1. journal'[x] = new /\ j \in Seq(Events) /\ Len(j) <= JournalCap /\ active[k[1]] = k[2]
      BY <1>1, <1>2, <1>3, <1>7, <2>2 DEF Journals
    <3>2. \A i \in 1..Len(j) : /\ j[i] \in emitted /\ Key(j[i]) = k /\ j[i].epoch = epoch
                               /\ j[i].seq <= nextSeq[k] /\ j[i].seq \in Nat
      <4>1. \A i \in DOMAIN j : /\ j[i] \in emitted /\ Key(j[i]) = k /\ j[i].epoch = epoch
                                 /\ j[i].seq <= nextSeq[k]
        BY <1>1, <1>3 DEF Journals
      <4>2. DOMAIN j = 1..Len(j) /\ \A i \in 1..Len(j) : j[i].seq \in Nat
        BY <3>1, LenProperties, ElementOfSeq, EventFields
      <4> QED  BY <4>1, <4>2
    <3>3. \A i1, i2 \in 1..Len(j) : i1 < i2 => j[i1].seq < j[i2].seq
      BY <1>1, <1>3, <3>1, LenProperties DEF Journals
    <3>4. new \in Seq(Events) /\ Len(new) <= JournalCap
      BY <1>4, <3>1, JournaledIsSuffix
    <3>5. PICK d \in Nat : /\ Len(new) + d = Len(j) + 1
                           /\ \A i \in 1..Len(new) :
                                 new[i] = IF i + d = Len(j) + 1 THEN e ELSE j[i + d]
      BY <1>4, <3>1, JournaledIsSuffix
    <3> HIDE DEF new, j
    <3>6. Len(new) \in Nat /\ Len(j) \in Nat /\ DOMAIN new = 1..Len(new)
      BY <3>1, <3>4, LenProperties
    <3>7. \A i \in 1..Len(new) : \/ i + d = Len(j) + 1 /\ new[i] = e
                                 \/ i + d \in 1..Len(j) /\ new[i] = j[i + d]
      BY <3>5, <3>6
    <3>8. \A i \in 1..Len(new) : /\ new[i] \in emitted' /\ Key(new[i]) = k
                                 /\ new[i].epoch = epoch /\ new[i].seq <= nextSeq'[k]
      <4> SUFFICES ASSUME NEW i \in 1..Len(new)
                   PROVE  /\ new[i] \in emitted' /\ Key(new[i]) = k
                          /\ new[i].epoch = epoch /\ new[i].seq <= nextSeq'[k]
        OBVIOUS
      <4>1. CASE new[i] = e  BY <1>2, <1>3, <1>4, <4>1
      <4>2. CASE i + d \in 1..Len(j) /\ new[i] = j[i + d]
        <5>1. /\ new[i] \in emitted /\ Key(new[i]) = k /\ new[i].epoch = epoch
              /\ new[i].seq <= nextSeq[k] /\ new[i].seq \in Nat
          BY <3>2, <4>2
        <5> QED  BY <1>2, <1>3, <5>1
      <4> QED  BY <3>7, <4>1, <4>2
    <3>9. ASSUME NEW i1 \in 1..Len(new), NEW i2 \in 1..Len(new), i1 < i2
          PROVE  new[i1].seq < new[i2].seq
      <4>1. i1 + d \in 1..Len(j) /\ new[i1] = j[i1 + d]  BY <3>5, <3>6, <3>7, <3>9
      <4>2. CASE i2 + d = Len(j) + 1 /\ new[i2] = e
        <5>1. new[i1].seq <= nextSeq[k] /\ new[i1].seq \in Nat  BY <3>2, <4>1
        <5> QED  BY <1>3, <1>4, <4>2, <5>1
      <4>3. CASE i2 + d \in 1..Len(j) /\ new[i2] = j[i2 + d]
        BY <3>3, <3>9, <4>1, <4>3
      <4> QED  BY <3>7, <4>2, <4>3
    <3> QED  BY <2>2, <3>1, <3>4, <3>6, <3>8, <3>9
  <2> QED  BY <2>1, <2>2
<1>11. Queues'  BY <1>2, <1>6 DEF Queues
<1>12. Cursors'
  <2>1. \A c \in Clients : \A i \in DOMAIN log[c] :
           /\ log[c][i] \in emitted'
           /\ \A j \in DOMAIN queue'[c] :
                 log[c][i].epoch = epoch /\ log[c][i].session = queue'[c][j].session
                 => log[c][i].runtime <= queue'[c][j].runtime
    BY <1>1, <1>2, <1>6 DEF Cursors
  <2> QED  BY <1>1, <1>2, <2>1 DEF Cursors
<1>13. Logs'  BY <1>1, <1>2 DEF Logs
<1> QED  BY <1>8, <1>9, <1>10, <1>11, <1>12, <1>13 DEF HubInv

----------------------------------------------------------------------------
(* The invariant: connections                                              *)

LEMMA HandshakeKeeps ==
    ASSUME HubInv, NEW c \in Clients, Connect(c) \/ Subscribe(c) \/ SubscribeDone(c)
    PROVE  HubInv'
<1>1. TypeOK  BY DEF HubInv
<1>2. /\ UNCHANGED <<epoch, started, active, nextSeq, journal, emitted, queue, cursor, log, cut, drops>>
      /\ phase' \in [Clients -> Phases]
      /\ lock' \in [holder : Clients \cup {NoClient}, keys : SUBSET Keys]
  <2>1. CASE Connect(c)  BY <1>1, <2>1 DEF Connect, TypeOK, Phases, hubVars
  <2>2. CASE Subscribe(c)  BY <1>1, <2>2 DEF Subscribe, TypeOK, Phases, hubVars
  <2>3. CASE SubscribeDone(c)
    BY <1>1, <2>3 DEF SubscribeDone, TypeOK, Phases, hubVars, Unlocked
  <2> QED  BY <2>1, <2>2, <2>3
<1> QED  BY <1>2 DEF HubInv, TypeOK, Published, Journals, Queues, Cursors, Logs

LEMMA ReplayKeeps ==
    ASSUME HubInv, NEW c \in Clients, NEW k \in Keys, ReplayJournal(c, k)
    PROVE  HubInv'
<1> DEFINE n == ResumeFrom(c, k)
           t == Fitting(queue[c], Unseen(journal[k], n))
<1>1. TypeOK /\ Published /\ Journals /\ Queues /\ Cursors /\ Logs  BY DEF HubInv
<1>2. /\ queue' = [queue EXCEPT ![c] = queue[c] \o t]
      /\ lock' = IF Len(t) < Len(Unseen(journal[k], n)) THEN [lock EXCEPT !.keys = {}]
                                                       ELSE [lock EXCEPT !.keys = @ \ {k}]
      /\ UNCHANGED <<epoch, started, active, nextSeq, journal, emitted, phase, cursor, log, drops>>
      /\ cut' = cut \/ cut' = cut \cup ({c} \X lock.keys)
  BY DEF ReplayJournal, hubVars
<1>3. n \in Nat  BY <1>1, HubTypes DEF ResumeFrom
<1>4. queue[c] \in Seq(Events) /\ Len(queue[c]) <= QueueCap /\ journal[k] \in Seq(Events)
  BY <1>1, HubTypes DEF TypeOK
<1> HIDE DEF n
<1>5. /\ t \in Seq(Events) /\ Len(queue[c]) + Len(t) <= QueueCap
      /\ \A i \in 1..Len(t) : \E p \in 1..Len(journal[k]) : t[i] = journal[k][p]
  BY <1>3, <1>4, ReplayedPart
<1>6. lock' \in [holder : Clients \cup {NoClient}, keys : SUBSET Keys]
  BY <1>1, <1>2 DEF TypeOK
<1> HIDE DEF t
<1>7. \A p \in 1..Len(journal[k]) :
         /\ journal[k][p] \in emitted /\ journal[k][p].epoch = epoch
         /\ journal[k][p].runtime = active[journal[k][p].session]
  <2>1. DOMAIN journal[k] = 1..Len(journal[k]) /\ Len(journal[k]) \in Nat
    BY <1>4, LenProperties
  <2> SUFFICES ASSUME NEW p \in 1..Len(journal[k])
               PROVE  /\ journal[k][p] \in emitted /\ journal[k][p].epoch = epoch
                      /\ journal[k][p].runtime = active[journal[k][p].session]
    OBVIOUS
  <2>2. journal[k][p] \in Events  BY <1>4, ElementOfSeq
  <2>3. journal[k][p] \in emitted /\ journal[k][p].epoch = epoch /\ Key(journal[k][p]) = k
    BY <1>1, <2>1 DEF Journals
  <2>4. journal[k] # <<>>  BY <2>1, EmptySeq
  <2>5. active[k[1]] = k[2]  BY <1>1, <2>4 DEF Journals
  <2> QED  BY <2>2, <2>3, <2>5, EventFields
<1>8. \A i \in 1..Len(t) : /\ t[i] \in emitted /\ t[i].epoch = epoch
                           /\ t[i].runtime = active[t[i].session]
  BY <1>5, <1>7
<1> DEFINE q == queue[c] \o t
<1>9. q \in Seq(Events)  BY <1>4, <1>5, ConcatProperties
<1>10. /\ Len(q) = Len(queue[c]) + Len(t)
       /\ \A i \in DOMAIN q : /\ q[i].epoch = epoch
                              /\ q[i] \in emitted \/ \E p \in 1..Len(t) : q[i] = t[p]
       /\ \A i, j \in DOMAIN q :
             i < j /\ q[i].session = q[j].session => q[i].runtime <= q[j].runtime
       /\ \A l \in DOMAIN log[c], j \in DOMAIN q :
             log[c][l].epoch = epoch /\ log[c][l].session = q[j].session
             => log[c][l].runtime <= q[j].runtime
  BY <1>5, <1>8, <1>9, Enqueued
<1> HIDE DEF q
<1>11. queue' = [queue EXCEPT ![c] = q] /\ queue \in [Clients -> Seq(Events)]
  BY <1>1, <1>2 DEF q, TypeOK
<1>12. TypeOK'
  <2>1. queue' \in [Clients -> Seq(Events)] /\ \A d \in Clients : Len(queue'[d]) <= QueueCap
    BY <1>1, <1>5, <1>9, <1>10, <1>11 DEF TypeOK
  <2>2. cut' \subseteq Clients \X Keys
    <3>1. lock.keys \subseteq Keys /\ cut \subseteq Clients \X Keys  BY <1>1 DEF TypeOK
    <3> QED  BY <1>2, <3>1
  <2> QED  BY <1>1, <1>2, <1>6, <2>1, <2>2 DEF TypeOK
<1>13. Queues'
  <2>1. \A d \in Clients : queue'[d] = IF d = c THEN q ELSE queue[d]  BY <1>11
  <2>2. \A i \in DOMAIN q : q[i] \in emitted /\ q[i].epoch = epoch  BY <1>8, <1>10
  <2> SUFFICES ASSUME NEW d \in Clients
               PROVE  /\ \A i \in DOMAIN queue'[d] :
                            queue'[d][i] \in emitted /\ queue'[d][i].epoch = epoch
                      /\ \A i, j \in DOMAIN queue'[d] :
                            i < j /\ queue'[d][i].session = queue'[d][j].session
                            => queue'[d][i].runtime <= queue'[d][j].runtime
    BY <1>2 DEF Queues
  <2>3. CASE d = c  BY <1>10, <2>1, <2>2, <2>3
  <2>4. CASE d # c
    <3>1. queue'[d] = queue[d]  BY <2>1, <2>4
    <3> QED  BY <1>1, <3>1 DEF Queues
  <2> QED  BY <2>3, <2>4
<1>14. Cursors'
  <2>1. \A d \in Clients : queue'[d] = IF d = c THEN q ELSE queue[d]  BY <1>11
  <2>2. \A d \in Clients : \A i \in DOMAIN log[d], j \in DOMAIN queue'[d] :
           log[d][i].epoch = epoch /\ log[d][i].session = queue'[d][j].session
           => log[d][i].runtime <= queue'[d][j].runtime
    BY <1>1, <1>10, <2>1 DEF Cursors
  <2> QED  BY <1>1, <1>2, <2>2 DEF Cursors
<1>15. Published' /\ Journals' /\ Logs'  BY <1>1, <1>2 DEF Published, Journals, Logs
<1> QED  BY <1>12, <1>13, <1>14, <1>15 DEF HubInv

\* A queue that was emptied, or lost its first event, keeps its order.
LEMMA DroppedKeeps ==
    ASSUME HubInv, NEW c \in Clients, queue' = [queue EXCEPT ![c] = <<>>],
           phase' = [phase EXCEPT ![c] = "down"], drops' \in 0..MaxDrops,
           UNCHANGED <<epoch, started, active, nextSeq, journal, emitted, lock, cursor, log, cut>>
    PROVE  HubInv'
<1>1. TypeOK /\ Published /\ Journals /\ Queues /\ Cursors /\ Logs  BY DEF HubInv
<1>2. \A d \in Clients : queue'[d] = IF d = c THEN <<>> ELSE queue[d]  BY <1>1 DEF TypeOK
<1>3. queue' \in [Clients -> Seq(Events)] /\ \A d \in Clients : Len(queue'[d]) <= QueueCap
  BY <1>1, <1>2, EmptySeq, BoundTypes DEF TypeOK
<1>4. TypeOK'  BY <1>1, <1>3 DEF TypeOK, Phases
<1>5. Queues' /\ Cursors'  BY <1>1, <1>2 DEF Queues, Cursors
<1>6. Published' /\ Journals' /\ Logs'  BY <1>1 DEF Published, Journals, Logs
<1> QED  BY <1>4, <1>5, <1>6 DEF HubInv

LEMMA HangupKeeps ==
    ASSUME HubInv, NEW c \in Clients, CloseKicked(c) \/ Disconnect(c) PROVE HubInv'
<1>1. drops' \in 0..MaxDrops
  BY BoundTypes DEF HubInv, TypeOK, CloseKicked, Disconnect
<1> QED  BY <1>1, DroppedKeeps DEF CloseKicked, Disconnect, Hangup, hubVars

LEMMA RestartKeeps == ASSUME HubInv, RestartDaemon PROVE HubInv'
<1>1. TypeOK /\ Published /\ Journals /\ Queues /\ Cursors /\ Logs  BY DEF HubInv
<1>2. epoch \in Nat /\ epoch' = epoch + 1 /\ epoch' \in 1..MaxEpochs
  BY <1>1, BoundTypes DEF TypeOK, RestartDaemon
<1>3. /\ started' = 0 /\ active' = [s \in Sessions |-> NoRuntime]
      /\ nextSeq' = [k \in Keys |-> 0] /\ journal' = [k \in Keys |-> <<>>]
      /\ phase' = [c \in Clients |-> "down"] /\ queue' = [c \in Clients |-> <<>>]
      /\ lock' = Unlocked /\ cut' = {} /\ UNCHANGED <<cursor, log, emitted, drops>>
  BY DEF RestartDaemon
<1>4. TypeOK'
  <2>1. journal' \in [Keys -> Seq(Events)] /\ queue' \in [Clients -> Seq(Events)]
        /\ \A c \in Clients : Len(queue'[c]) <= QueueCap
    BY <1>3, EmptySeq, BoundTypes
  <2>2. lock' \in [holder : Clients \cup {NoClient}, keys : SUBSET Keys]  BY <1>3 DEF Unlocked
  <2>3. started' \in 0..MaxRuntimes /\ active' \in [Sessions -> Runtimes \cup {NoRuntime}]
        /\ nextSeq' \in [Keys -> Nat] /\ phase' \in [Clients -> Phases]
    BY <1>3, BoundTypes DEF Phases
  <2> QED  BY <1>1, <1>2, <1>3, <2>1, <2>2, <2>3 DEF TypeOK
<1>5. \A e \in emitted : e.epoch \in Nat /\ e.epoch < epoch' /\ e.epoch <= epoch' /\ e.epoch # epoch'
  <2> SUFFICES ASSUME NEW e \in emitted PROVE e.epoch \in Nat /\ e.epoch <= epoch
    BY <1>2
  <2>1. e \in Events  BY <1>1 DEF TypeOK
  <2> QED  BY <1>1, <2>1, EventFields DEF Published
<1>6. Published'  BY <1>3, <1>5 DEF Published, NoRuntime
<1>7. Journals'  BY <1>3, BoundTypes DEF Journals
<1>8. Queues' /\ Logs'  BY <1>1, <1>3 DEF Queues, Logs
<1>9. Cursors'
  <2>1. \A c \in Clients, k \in Keys : cursor[c][k].epoch <= epoch'
    BY <1>1, <1>2, HubTypes DEF Cursors
  <2>2. \A c \in Clients : DOMAIN queue'[c] = {}  BY <1>3
  <2> QED  BY <1>1, <1>3, <2>1, <2>2 DEF Cursors
<1> QED  BY <1>4, <1>6, <1>7, <1>8, <1>9 DEF HubInv

LEMMA DeliverKeeps == ASSUME HubInv, NEW c \in Clients, Deliver(c) PROVE HubInv'
<1> DEFINE e == Head(queue[c])
           k == Key(e)
<1>1. TypeOK /\ Published /\ Journals /\ Queues /\ Cursors /\ Logs  BY DEF HubInv
<1>2. /\ queue[c] # <<>> /\ queue' = [queue EXCEPT ![c] = Tail(@)]
      /\ IF Accepts(c, e) THEN cursor' = Advance(c, e) /\ log' = [log EXCEPT ![c] = Append(@, e)]
                          ELSE UNCHANGED <<cursor, log>>
      /\ UNCHANGED <<epoch, started, active, nextSeq, journal, emitted, phase, lock, cut, drops>>
  BY DEF Deliver, hubVars
<1>3. /\ queue[c] \in Seq(Events) /\ Len(queue[c]) \in Nat /\ Len(queue[c]) >= 1
      /\ DOMAIN queue[c] = 1..Len(queue[c]) /\ Len(queue[c]) <= QueueCap
  BY <1>1, <1>2, HubTypes, LenProperties, EmptySeq DEF TypeOK
<1> DEFINE q == Tail(queue[c])
<1>4. /\ q \in Seq(Events) /\ Len(q) = Len(queue[c]) - 1 /\ DOMAIN q = 1..Len(q)
      /\ \A i \in DOMAIN q : i + 1 \in DOMAIN queue[c] /\ q[i] = queue[c][i + 1]
  <2>1. q \in Seq(Events) /\ Len(q) = Len(queue[c]) - 1
        /\ \A i \in 1..Len(q) : q[i] = queue[c][i + 1]
    BY <1>2, <1>3, HeadTailProperties
  <2>2. DOMAIN q = 1..Len(q)  BY <2>1, LenProperties
  <2> HIDE DEF q
  <2> QED  BY <1>3, <2>1, <2>2
<1>5. e = queue[c][1] /\ 1 \in DOMAIN queue[c]  BY <1>3
<1> HIDE DEF q, e
<1>6. e \in emitted /\ e.epoch = epoch /\ e \in Events
  BY <1>1, <1>5 DEF Queues, TypeOK
<1>7. k \in Keys /\ e.seq \in Nat /\ e.epoch \in Nat /\ e.session \in Sessions
      /\ e.runtime \in Nat
  BY <1>6, EventFields
<1>8. /\ \A d \in Clients : queue'[d] = IF d = c THEN q ELSE queue[d]
      /\ queue' \in [Clients -> Seq(Events)] /\ \A d \in Clients : Len(queue'[d]) <= QueueCap
  <2>1. queue' = [queue EXCEPT ![c] = q] /\ queue \in [Clients -> Seq(Events)]
    BY <1>1, <1>2 DEF TypeOK, q
  <2>2. Len(q) <= QueueCap  BY <1>3, <1>4, BoundTypes
  <2> QED  BY <1>1, <1>4, <2>1, <2>2 DEF TypeOK
<1>9. Published' /\ Journals'  BY <1>1, <1>2 DEF Published, Journals
<1>10. Queues'
  <2> SUFFICES ASSUME NEW d \in Clients
               PROVE  /\ \A i \in DOMAIN queue'[d] :
                            queue'[d][i] \in emitted /\ queue'[d][i].epoch = epoch
                      /\ \A i, j \in DOMAIN queue'[d] :
                            i < j /\ queue'[d][i].session = queue'[d][j].session
                            => queue'[d][i].runtime <= queue'[d][j].runtime
    BY <1>2 DEF Queues
  <2>1. CASE d = c
    <3>1. queue'[d] = q  BY <1>8, <2>1
    <3>2. \A i, j \in DOMAIN q : i < j => i + 1 < j + 1  BY <1>4
    <3> QED  BY <1>1, <1>4, <3>1, <3>2 DEF Queues
  <2>2. CASE d # c
    <3>1. queue'[d] = queue[d]  BY <1>8, <2>2
    <3> QED  BY <1>1, <3>1 DEF Queues
  <2> QED  BY <2>1, <2>2
\* What is still queued is not older than the event delivered, nor than what
\* the client saw before.
<1>11. /\ \A j \in DOMAIN q : e.session = q[j].session => e.runtime <= q[j].runtime
       /\ \A i \in DOMAIN log[c], j \in DOMAIN q :
             log[c][i].epoch = epoch /\ log[c][i].session = q[j].session
             => log[c][i].runtime <= q[j].runtime
       /\ \A i \in DOMAIN log[c] :
             log[c][i].epoch = epoch /\ log[c][i].session = e.session
             => log[c][i].runtime <= e.runtime
  <2>1. ASSUME NEW j \in DOMAIN q, e.session = q[j].session PROVE e.runtime <= q[j].runtime
    <3>1. 1 < j + 1 /\ j + 1 \in DOMAIN queue[c] /\ q[j] = queue[c][j + 1]  BY <1>4
    <3> QED  BY <1>1, <1>5, <2>1, <3>1 DEF Queues
  <2>2. \A i \in DOMAIN log[c], j \in DOMAIN queue[c] :
           log[c][i].epoch = epoch /\ log[c][i].session = queue[c][j].session
           => log[c][i].runtime <= queue[c][j].runtime
    BY <1>1 DEF Cursors
  <2> QED  BY <1>4, <1>5, <2>1, <2>2
<1>12. CASE ~Accepts(c, e)
  <2>1. UNCHANGED <<cursor, log>>  BY <1>2, <1>12
  <2>2. TypeOK'  BY <1>1, <1>2, <1>8, <2>1 DEF TypeOK
  <2>3. Cursors'
    <3>1. \A d \in Clients : \A i \in DOMAIN log[d], j \in DOMAIN queue'[d] :
             log[d][i].epoch = epoch /\ log[d][i].session = queue'[d][j].session
             => log[d][i].runtime <= queue'[d][j].runtime
      BY <1>1, <1>8, <1>11 DEF Cursors
    <3> QED  BY <1>1, <1>2, <2>1, <3>1 DEF Cursors
  <2> QED  BY <1>1, <1>9, <1>10, <2>1, <2>2, <2>3 DEF HubInv, Logs
<1>13. CASE Accepts(c, e)
  <2> DEFINE old == log[c]
             new == log'[c]
             n == Len(old)
  <2>1. /\ cursor' = [cursor EXCEPT ![c][k] = [epoch |-> e.epoch, seq |-> e.seq]]
        /\ log' = [log EXCEPT ![c] = Append(@, e)]
    BY <1>2, <1>13 DEF Advance
  <2>2. old \in Seq(Events) /\ n \in Nat /\ DOMAIN old = 1..n
        /\ log \in [Clients -> Seq(Events)] /\ new = Append(old, e)
    BY <1>1, <2>1, HubTypes, LenProperties DEF TypeOK
  <2>3. /\ new \in Seq(Events) /\ DOMAIN new = 1..(n + 1) /\ new[n + 1] = e
        /\ \A i \in 1..n : new[i] = old[i]
    <3>1. new \in Seq(Events) /\ Len(new) = n + 1 /\ new[n + 1] = e
          /\ \A i \in 1..n : new[i] = old[i]
      BY <1>6, <2>2, AppendProperties
    <3> QED  BY <3>1, LenProperties
  <2>4. /\ log' \in [Clients -> Seq(Events)]
        /\ \A d \in Clients : d # c => log'[d] = log[d]
    BY <2>1, <2>2, <2>3
  <2> HIDE DEF old, new
  <2>5. \A d \in Clients, x \in Keys :
           cursor'[d][x] = IF d = c /\ x = k THEN [epoch |-> epoch, seq |-> e.seq]
                                             ELSE cursor[d][x]
    BY <1>1, <1>6, <1>7, <2>1 DEF TypeOK
  <2>6. cursor' \in [Clients -> [Keys -> [epoch : Nat, seq : Nat]]]
    <3>1. [epoch |-> e.epoch, seq |-> e.seq] \in [epoch : Nat, seq : Nat]  BY <1>7
    <3> QED  BY <1>1, <1>7, <2>1, <3>1 DEF TypeOK
  <2>7. TypeOK'  BY <1>1, <1>2, <1>8, <2>4, <2>6 DEF TypeOK
  \* An older event of the same runtime is below the cursor, hence below e.
  <2>8. ASSUME NEW i \in 1..n
        PROVE  /\ old[i] \in emitted /\ old[i] \in Events /\ old[i].epoch <= epoch
               /\ old[i].epoch = epoch /\ Key(old[i]) = k => old[i].seq < e.seq
    <3> DEFINE x == old[i]
    <3>1. /\ x \in emitted /\ cursor[c][Key(x)].epoch >= x.epoch
          /\ cursor[c][Key(x)].epoch = x.epoch => x.seq <= cursor[c][Key(x)].seq
      BY <1>1, <2>2 DEF Cursors, old
    <3>2. x \in Events /\ x.epoch <= epoch /\ Key(x) \in Keys /\ x.seq \in Nat /\ x.epoch \in Nat
      BY <1>1, <3>1, EventFields DEF TypeOK, Published
    <3> HIDE DEF x
    <3>3. ASSUME x.epoch = epoch, Key(x) = k PROVE x.seq < e.seq
      <4>1. cursor[c][k].epoch = epoch /\ x.seq <= cursor[c][k].seq
            /\ cursor[c][k] \in [epoch : Nat, seq : Nat] /\ epoch \in Nat
        BY <1>1, <1>7, <3>1, <3>2, <3>3, HubTypes DEF Cursors
      <4>2. ~(e.seq <= cursor[c][k].seq)  BY <1>6, <1>13, <4>1 DEF Accepts
      <4> QED  BY <1>7, <3>2, <4>1, <4>2
    <3> QED  BY <3>1, <3>2, <3>3 DEF x
  <2>9. Cursors'
    <3>1. \A d \in Clients, x \in Keys : cursor'[d][x].epoch <= epoch
      BY <1>1, <2>5, HubTypes DEF Cursors
    <3>2. ASSUME NEW i \in 1..(n + 1)
          PROVE  /\ new[i] \in emitted
                 /\ cursor'[c][Key(new[i])].epoch >= new[i].epoch
                 /\ cursor'[c][Key(new[i])].epoch = new[i].epoch
                    => new[i].seq <= cursor'[c][Key(new[i])].seq
                 /\ \A j \in DOMAIN q :
                       new[i].epoch = epoch /\ new[i].session = q[j].session
                       => new[i].runtime <= q[j].runtime
      <4>1. CASE i = n + 1
        <5>1. new[i] = e /\ cursor'[c][k] = [epoch |-> epoch, seq |-> e.seq]
          BY <1>7, <2>3, <2>5, <4>1
        <5> QED  BY <1>1, <1>6, <1>7, <1>11, <5>1, HubTypes
      <4>2. CASE i \in 1..n
        <5>1. new[i] = old[i] /\ old[i] \in Events  BY <2>3, <2>8, <4>2
        <5>2. /\ old[i] \in emitted /\ old[i].epoch <= epoch /\ old[i].seq \in Nat
              /\ old[i].epoch \in Nat /\ Key(old[i]) \in Keys
          BY <2>8, <4>2, <5>1, EventFields
        <5>3. CASE Key(old[i]) = k
          <6>1. cursor'[c][k].epoch = epoch /\ cursor'[c][k].seq = e.seq
            BY <1>7, <2>5
          <6>2. old[i].epoch = epoch => old[i].seq <= e.seq  BY <1>7, <2>8, <4>2, <5>2, <5>3
          <6>3. \A j \in DOMAIN q :
                   old[i].epoch = epoch /\ old[i].session = q[j].session
                   => old[i].runtime <= q[j].runtime
            BY <1>11, <2>2, <4>2 DEF old
          <6>4. epoch >= old[i].epoch  BY <1>1, <5>2, HubTypes
          <6> QED  BY <5>1, <5>2, <5>3, <6>1, <6>2, <6>3, <6>4
        <5>4. CASE Key(old[i]) # k
          <6>1. cursor'[c][Key(old[i])] = cursor[c][Key(old[i])]  BY <2>5, <5>2, <5>4
          <6>2. i \in DOMAIN log[c] /\ old[i] = log[c][i]  BY <2>2, <4>2 DEF old
          <6>3. /\ cursor[c][Key(old[i])].epoch >= old[i].epoch
                /\ cursor[c][Key(old[i])].epoch = old[i].epoch
                   => old[i].seq <= cursor[c][Key(old[i])].seq
            BY <1>1, <6>2 DEF Cursors
          <6>4. \A j \in DOMAIN q :
                   old[i].epoch = epoch /\ old[i].session = q[j].session
                   => old[i].runtime <= q[j].runtime
            BY <1>11, <6>2
          <6> QED  BY <5>1, <5>2, <6>1, <6>3, <6>4
        <5> QED  BY <5>3, <5>4
      <4>3. i = n + 1 \/ i \in 1..n  BY <2>2
      <4> QED  BY <4>1, <4>2, <4>3
    <3>3. ASSUME NEW d \in Clients, d # c, NEW i \in DOMAIN log'[d]
          PROVE  /\ log'[d][i] \in emitted
                 /\ cursor'[d][Key(log'[d][i])].epoch >= log'[d][i].epoch
                 /\ cursor'[d][Key(log'[d][i])].epoch = log'[d][i].epoch
                    => log'[d][i].seq <= cursor'[d][Key(log'[d][i])].seq
                 /\ \A j \in DOMAIN queue'[d] :
                       log'[d][i].epoch = epoch /\ log'[d][i].session = queue'[d][j].session
                       => log'[d][i].runtime <= queue'[d][j].runtime
      <4>1. log'[d] = log[d] /\ queue'[d] = queue[d]  BY <1>8, <2>4, <3>3
      <4>2. log[d][i] \in emitted /\ log[d][i] \in Events
        BY <1>1, <3>3, <4>1 DEF Cursors, TypeOK
      <4>3. Key(log[d][i]) \in Keys  BY <4>2, EventFields
      <4>4. cursor'[d][Key(log[d][i])] = cursor[d][Key(log[d][i])]  BY <2>5, <3>3, <4>3
      <4> QED  BY <1>1, <3>3, <4>1, <4>4 DEF Cursors
    <3>4. new = log'[c] /\ queue'[c] = q /\ DOMAIN log'[c] = 1..(n + 1)
      BY <1>8, <2>3 DEF new
    <3> SUFFICES ASSUME NEW d \in Clients, NEW i \in DOMAIN log'[d]
                 PROVE  /\ log'[d][i] \in emitted
                        /\ cursor'[d][Key(log'[d][i])].epoch >= log'[d][i].epoch
                        /\ cursor'[d][Key(log'[d][i])].epoch = log'[d][i].epoch
                           => log'[d][i].seq <= cursor'[d][Key(log'[d][i])].seq
                        /\ \A j \in DOMAIN queue'[d] :
                              log'[d][i].epoch = epoch /\ log'[d][i].session = queue'[d][j].session
                              => log'[d][i].runtime <= queue'[d][j].runtime
      BY <1>2, <3>1 DEF Cursors, Key
    <3>5. CASE d = c  BY <3>2, <3>4, <3>5
    <3>6. CASE d # c  BY <3>3, <3>6
    <3> QED  BY <3>5, <3>6
  <2>10. Logs'
    <3>1. ASSUME NEW i \in 1..n PROVE Stream!Before(old[i], e)
      <4>1. old[i].epoch \in Nat /\ old[i].runtime \in Nat /\ old[i].epoch <= epoch
            /\ Key(old[i]) = <<old[i].session, old[i].runtime>> /\ k = <<e.session, e.runtime>>
        BY <2>8, EventFields DEF Key
      <4>2. old[i].epoch = epoch /\ old[i].session = e.session => old[i].runtime <= e.runtime
        BY <1>11, <2>2 DEF old
      <4>3. old[i].epoch = epoch /\ old[i].session = e.session /\ old[i].runtime = e.runtime
            => old[i].seq < e.seq
        BY <2>8, <4>1
      <4> QED  BY <1>1, <1>6, <1>7, <4>1, <4>2, <4>3, HubTypes DEF Stream!Before
    <3>2. ASSUME NEW i \in 1..(n + 1), NEW j \in 1..(n + 1), i < j
          PROVE  Stream!Before(new[i], new[j])
      <4>1. i \in 1..n /\ new[i] = old[i]  BY <2>2, <2>3, <3>2
      <4>2. CASE j = n + 1  BY <2>3, <3>1, <4>1, <4>2
      <4>3. CASE j \in 1..n
        <5>1. new[j] = old[j]  BY <2>3, <4>3
        <5> QED  BY <1>1, <2>2, <3>2, <4>1, <4>3, <5>1 DEF Logs, old
      <4> QED  BY <2>2, <4>2, <4>3
    <3> QED  BY <1>1, <2>3, <2>4, <3>2 DEF Logs, new
  <2> QED  BY <1>9, <1>10, <2>7, <2>9, <2>10 DEF HubInv
<1> QED  BY <1>12, <1>13

----------------------------------------------------------------------------
(* Theorems                                                                *)

LEMMA NextHub == HubInv /\ [Next]_vars => HubInv'
<1> SUFFICES ASSUME HubInv, [Next]_vars PROVE HubInv'  OBVIOUS
<1>1. ASSUME NEW s \in Sessions, BeginRuntime(s) PROVE HubInv'  BY <1>1, BeginKeeps
<1>2. ASSUME NEW s \in Sessions, NEW r \in Runtimes \cup {NoRuntime}, EndRuntime(s, r)
      PROVE  HubInv'
  BY <1>2, EndKeeps
<1>3. ASSUME NEW s \in Sessions, NEW r \in Runtimes, NEW replayable \in BOOLEAN,
             Emit(s, r, replayable)
      PROVE  HubInv'
  BY <1>3, EmitKeeps
<1>4. ASSUME NEW c \in Clients, ClientStep(c) PROVE HubInv'
  BY <1>4, HandshakeKeeps, ReplayKeeps, DeliverKeeps, HangupKeeps DEF ClientStep
<1>5. ASSUME NEW c \in Clients, Disconnect(c) PROVE HubInv'  BY <1>5, HangupKeeps
<1>6. CASE RestartDaemon  BY <1>6, RestartKeeps
<1>7. CASE UNCHANGED vars
  BY <1>7 DEF vars, HubInv, TypeOK, Published, Journals, Queues, Cursors, Logs
<1> QED  BY <1>1, <1>2, <1>3, <1>4, <1>5, <1>6, <1>7 DEF Next

LEMMA HubSafety == Spec => []HubInv
BY InitHub, NextHub, PTL DEF Spec

\* Types, and no queue above its capacity, whatever the interleaving.
THEOREM TypeCorrect == Spec => []TypeOK
<1>1. HubInv => TypeOK  BY DEF HubInv
<1> QED  BY <1>1, HubSafety, PTL

\* Only the runtime a session runs has a journal, in order, up to its counter.
THEOREM JournalOfTheActive == Spec => []JournalOfActive
<1>1. HubInv => JournalOfActive  BY DEF HubInv, Journals, JournalOfActive
<1> QED  BY <1>1, HubSafety, PTL

\* A client accepts the events of a runtime in sequence order, none twice.
THEOREM OrderKept == Spec => []DeliveredInOrder
<1>1. HubInv => DeliveredInOrder
  <2> SUFFICES ASSUME HubInv, NEW c \in Clients, NEW i \in DOMAIN log[c], NEW j \in DOMAIN log[c],
                      i < j, Key(log[c][i]) = Key(log[c][j]), log[c][i].epoch = log[c][j].epoch
               PROVE  log[c][i].seq < log[c][j].seq
    BY DEF DeliveredInOrder
  <2>1. Stream!Before(log[c][i], log[c][j])  BY DEF HubInv, Logs
  <2>2. log[c][i] \in Events /\ log[c][j] \in Events  BY DEF HubInv, Cursors, TypeOK
  <2>3. log[c][i].runtime = log[c][j].runtime /\ log[c][i].session = log[c][j].session
        /\ log[c][i].epoch \in Nat /\ log[c][i].runtime \in Nat
    BY <2>2, EventFields DEF Key
  <2> QED  BY <2>1, <2>3 DEF Stream!Before
<1> QED  BY <1>1, HubSafety, PTL

\* A step of the hub publishes one event, shows a client one, or is invisible.
LEMMA StreamStep ==
    ASSUME HubInv, HubInv', [Next]_vars
    PROVE  [Stream!Next]_(Stream!streamVars)
<1>1. TypeOK /\ Published /\ Queues /\ Cursors /\ Logs /\ Cursors' /\ Logs' /\ TypeOK'
  BY DEF HubInv
<1>2. ASSUME NEW s \in Sessions, NEW r \in Runtimes, NEW replayable \in BOOLEAN,
             Emit(s, r, replayable)
      PROVE  Stream!Next
  <2> DEFINE k == <<s, r>>
             e == [session |-> s, runtime |-> r, epoch |-> epoch, seq |-> nextSeq[k] + 1]
  <2>1. active[s] = r /\ emitted' = emitted \cup {e} /\ UNCHANGED log
    BY <1>2 DEF Emit, Current
  <2>2. k \in Keys /\ r # NoRuntime /\ nextSeq[k] \in Nat /\ epoch \in Nat
    BY <1>1, HubTypes, BoundTypes DEF Keys, Runtimes, NoRuntime
  <2>3. e.session = s /\ e.runtime = r /\ e.epoch = epoch /\ e.seq = nextSeq[k] + 1
    OBVIOUS
  <2> HIDE DEF e
  <2>4. ASSUME NEW p \in emitted PROVE Stream!Before(p, e)
    <3>1. p \in Events  BY <1>1 DEF TypeOK
    <3>2. p.epoch \in Nat /\ p.runtime \in Nat /\ p.seq \in Nat /\ r \in Nat
          /\ Key(p) = <<p.session, p.runtime>>
      <4>1. r \in Nat  BY BoundTypes DEF Runtimes
      <4>2. Key(p) = <<p.session, p.runtime>>  BY DEF Key
      <4> QED  BY <3>1, <4>1, <4>2, EventFields
    <3>3. p.epoch <= epoch  BY <1>1 DEF Published
    <3>4. p.epoch = epoch /\ p.session = s
          => p.runtime <= r /\ (p.runtime = r => p.seq <= nextSeq[k])
      BY <1>1, <2>1, <2>2, <3>2 DEF Published
    <3> QED  BY <2>2, <2>3, <3>2, <3>3, <3>4 DEF Stream!Before
  <2>5. Stream!Publish(e)  BY <2>1, <2>4 DEF Stream!Publish
  <2>6. e \in emitted'  BY <2>1
  <2> QED  BY <2>5, <2>6 DEF Stream!Next
<1>3. ASSUME NEW c \in Clients, Deliver(c)
      PROVE  Stream!Next \/ UNCHANGED <<emitted, log>>
  <2> DEFINE e == Head(queue[c])
  <2>1. UNCHANGED emitted /\ queue[c] # <<>>
        /\ (UNCHANGED log \/ log' = [log EXCEPT ![c] = Append(@, e)])
    BY <1>3 DEF Deliver, hubVars
  <2>2. CASE log' = [log EXCEPT ![c] = Append(@, e)]
    <3>1. queue[c] \in Seq(Events) /\ log[c] \in Seq(Events) /\ log \in [Clients -> Seq(Events)]
      BY <1>1 DEF TypeOK
    <3>2. e = queue[c][1] /\ 1 \in DOMAIN queue[c]
      BY <2>1, <3>1, EmptySeq, LenProperties
    <3>3. e \in emitted /\ e \in Events  BY <1>1, <3>2 DEF Queues, TypeOK
    <3> HIDE DEF e
    <3> DEFINE n == Len(log[c])
    <3>4. n \in Nat /\ DOMAIN log[c] = 1..n  BY <3>1, LenProperties
    <3>5. log'[c] = Append(log[c], e)  BY <2>2, <3>1
    <3>6. DOMAIN log'[c] = 1..(n + 1) /\ log'[c][n + 1] = e
          /\ \A i \in 1..n : log'[c][i] = log[c][i]
      BY <3>1, <3>3, <3>5, AppendProperties, LenProperties
    <3>7. ASSUME NEW p \in Stream!Seen(c) PROVE Stream!Before(p, e)
      <4>1. PICK i \in DOMAIN log[c] : p = log[c][i]  BY <3>7 DEF Stream!Seen
      <4>2. i \in DOMAIN log'[c] /\ n + 1 \in DOMAIN log'[c] /\ i < n + 1
            /\ log'[c][i] = p /\ log'[c][n + 1] = e
        BY <3>4, <3>6, <4>1
      <4> QED  BY <1>1, <4>2 DEF Logs, Stream!Before
    <3>8. Stream!See(c, e)  BY <2>1, <2>2, <3>7 DEF Stream!See
    <3> QED  BY <3>3, <3>8 DEF Stream!Next
  <2> QED  BY <2>1, <2>2
<1>4. CASE \/ \E s \in Sessions : BeginRuntime(s)
           \/ \E s \in Sessions, r \in Runtimes \cup {NoRuntime} : EndRuntime(s, r)
           \/ \E c \in Clients : \/ Connect(c) \/ Subscribe(c) \/ SubscribeDone(c)
                                 \/ \E k \in Keys : ReplayJournal(c, k)
                                 \/ CloseKicked(c) \/ Disconnect(c)
           \/ RestartDaemon \/ UNCHANGED vars
  <2>1. UNCHANGED <<emitted, log>>
    BY <1>4 DEF BeginRuntime, EndRuntime, Connect, Subscribe, SubscribeDone, ReplayJournal,
       CloseKicked, Disconnect, RestartDaemon, hubVars, vars
  <2> QED  BY <2>1 DEF Stream!streamVars
<1>5. \/ \E s \in Sessions, r \in Runtimes, replayable \in BOOLEAN : Emit(s, r, replayable)
      \/ \E c \in Clients : Deliver(c)
      \/ \E s \in Sessions : BeginRuntime(s)
      \/ \E s \in Sessions, r \in Runtimes \cup {NoRuntime} : EndRuntime(s, r)
      \/ \E c \in Clients : \/ Connect(c) \/ Subscribe(c) \/ SubscribeDone(c)
                            \/ \E k \in Keys : ReplayJournal(c, k)
                            \/ CloseKicked(c) \/ Disconnect(c)
      \/ RestartDaemon \/ UNCHANGED vars
  BY DEF Next, ClientStep
<1> QED  BY <1>2, <1>3, <1>4, <1>5 DEF Stream!streamVars

\* The event path implements the stream of EventStream, for any number of
\* clients and sessions and whatever the capacities: it publishes each event
\* once and shows each client a selection, in the order of publication.
THEOREM StreamImplemented == Spec => ImplementsStream
<1>1. Init => Stream!Init  BY DEF Init, Stream!Init
<1>2. HubInv /\ HubInv' /\ [Next]_vars => [Stream!Next]_(Stream!streamVars)
  BY StreamStep
<1> QED  BY <1>1, <1>2, HubSafety, PTL DEF Spec, ImplementsStream, Stream!Spec
----------------------------------------------------------------------------
(* No silent gap                                                           *)

\* Event e is in the log l; or that, or before position n of the queue q.
Given(l, e) == \E i \in DOMAIN l : l[i] = e
Ahead(q, l, e, n) == Given(l, e) \/ \E i \in DOMAIN q : i < n /\ q[i] = e

\* No cursor u of process m covers e, and no event of runtime k above e is
\* queued, unless e was given to the client or is queued before.
NotPassed(u, m, l, e) == u.epoch = m /\ e.seq <= u.seq => Given(l, e)
NotOvertaken(q, l, k, e) ==
    \A i \in DOMAIN q : Key(q[i]) = k /\ e.seq < q[i].seq => Ahead(q, l, e, i)

\* A registered client whose subscription has been through journal k.
Attends(c, k) == phase[c] = "live" /\ ~ (lock.holder = c /\ k \in lock.keys)

\* No replay was cut short: no journaled event is skipped, and each client that
\* attends to the journal has been given the event or has it queued.
Skipless ==
    \A c \in Clients, k \in Keys : <<c, k>> \notin cut =>
        \A i \in DOMAIN journal[k] :
            /\ NotPassed(cursor[c][k], epoch, log[c], journal[k][i])
            /\ NotOvertaken(queue[c], log[c], k, journal[k][i])
            /\ Attends(c, k) => Ahead(queue[c], log[c], journal[k][i], Len(queue[c]) + 1)

\* A subscriber whose replay runs is registered; of the journals still to be
\* replayed nothing is queued.  Who is not registered has nothing queued.
Replaying ==
    \A c \in Clients :
        /\ lock.holder = c =>
              /\ phase[c] = "live"
              /\ \A i \in DOMAIN queue[c] : Key(queue[c][i]) \notin lock.keys
        /\ phase[c] \in {"down", "greeted"} => queue[c] = <<>>

\* A cursor of this daemon process stands at an event that was published.
Reached ==
    /\ \A c \in Clients, k \in Keys : cursor[c][k].epoch = epoch =>
          \E e \in emitted : Key(e) = k /\ e.epoch = epoch /\ e.seq = cursor[c][k].seq
    /\ \A e \in emitted : e.seq >= 1

GapInv == HubInv /\ Replaying /\ Reached /\ Skipless

\* A nonempty set of positions of a sequence of length n has a last one.
LEMMA LastPosition ==
    ASSUME NEW n \in Nat, NEW T, T \subseteq 1..n, T # {}
    PROVE  \E x \in T : \A y \in T : y <= x
<1> DEFINE U == {n - x : x \in T}
           Less == OpToRel(<, Nat)
<1>1. U \subseteq Nat /\ U # {}
  <2>1. \A x \in T : x \in Int /\ x <= n  OBVIOUS
  <2>2. U \subseteq Nat  BY <2>1
  <2>3. PICK x \in T : TRUE  OBVIOUS
  <2>4. n - x \in U  OBVIOUS
  <2> QED  BY <2>2, <2>4
<1>2. \A x \in Nat, y \in Nat : x < y => <<x, y>> \in Less
  <2>1. Less = {p \in Nat \X Nat : p[1] < p[2]}  BY DEF OpToRel
  <2> HIDE DEF Less
  <2> QED  BY <2>1
<1>3. IsWellFoundedOn(Less, Nat)  BY NatLessThanWellFounded
<1> HIDE DEF Less
<1>4. PICK u \in U : \A v \in U : ~ (<<v, u>> \in Less)
  BY <1>1, <1>3, WFMin, Zenon
<1>5. PICK x \in T : u = n - x  OBVIOUS
<1>6. \A y \in T : y <= x
  <2> SUFFICES ASSUME NEW y \in T PROVE y <= x  OBVIOUS
  <2>1. n - y \in U /\ n - y \in Nat /\ u \in Nat  BY <1>1
  <2>2. ~ (n - y < u)  BY <1>2, <1>4, <2>1
  <2> QED  BY <2>2, <1>5
<1> QED  BY <1>6

\* In an ascending journal the events above n follow those at or below n.
LEMMA UnseenIsSuffix ==
    ASSUME NEW j \in Seq(Events), NEW n \in Nat,
           \A a, b \in DOMAIN j : a < b => j[a].seq < j[b].seq
    PROVE  \E m \in Nat :
              /\ Unseen(j, n) \in Seq(Events) /\ Len(j) = m + Len(Unseen(j, n))
              /\ \A i \in 1..m : j[i].seq <= n
              /\ \A i \in 1..Len(Unseen(j, n)) : Unseen(j, n)[i] = j[m + i]
<1> DEFINE seen == {i \in DOMAIN j : j[i].seq <= n}
           u == Unseen(j, n)
<1>1. Len(j) \in Nat /\ DOMAIN j = 1..Len(j) /\ \A i \in 1..Len(j) : j[i] \in Events /\ j[i].seq \in Nat
  BY LenProperties, ElementOfSeq, EventFields
<1>2. \E m \in 0..Len(j) : seen = 1..m
  <2>1. CASE seen = {}
    <3>1. 0 \in 0..Len(j) /\ 1..0 = {}  BY <1>1
    <3> QED  BY <2>1, <3>1
  <2>2. CASE seen # {}
    <3>1. PICK m \in seen : \A i \in seen : i <= m  BY <1>1, <2>2, LastPosition
    <3>2. m \in 1..Len(j) /\ j[m].seq <= n  BY <1>1
    <3>3. ASSUME NEW i \in 1..m PROVE i \in seen
      <4>1. i \in DOMAIN j /\ m \in DOMAIN j /\ (i = m \/ i < m)  BY <1>1, <3>2
      <4>2. j[i].seq <= n
        <5>1. CASE i = m  BY <3>2, <5>1
        <5>2. CASE i < m
          <6>1. j[i].seq < j[m].seq /\ j[i].seq \in Nat /\ j[m].seq \in Nat
            BY <1>1, <4>1, <5>2
          <6> QED  BY <3>2, <6>1
        <5> QED  BY <4>1, <5>1, <5>2
      <4> QED  BY <4>1, <4>2
    <3>4. \A i \in seen : i \in 1..m  BY <1>1, <3>1, <3>2
    <3> HIDE DEF seen
    <3>5. seen = 1..m  BY <3>3, <3>4
    <3> QED  BY <1>1, <3>2, <3>5
  <2> QED  BY <2>1, <2>2
<1>3. PICK m \in 0..Len(j) : seen = 1..m  BY <1>2
<1>4. Cardinality(seen) = m
  <2>1. m \in Int /\ m >= 0 /\ 1 \in Int  BY <1>1
  <2>2. Cardinality(1..m) = IF 1 > m THEN 0 ELSE m - 1 + 1  BY <2>1, FS_Interval
  <2>3. Cardinality(1..m) = m
    <3>1. CASE 1 > m
      <4>1. m = 0  BY <2>1, <3>1
      <4> QED  BY <2>2, <3>1, <4>1
    <3>2. CASE ~ (1 > m)
      <4>1. m - 1 + 1 = m  BY <2>1
      <4> QED  BY <2>2, <3>2, <4>1
    <3> QED  BY <3>1, <3>2
  <2> HIDE DEF seen
  <2> QED  BY <1>3, <2>3
<1>5. u = SubSeq(j, m + 1, Len(j))  BY <1>4 DEF Unseen
<1>6. \A i \in 1..m : j[i].seq <= n  BY <1>3
<1> HIDE DEF u, seen
<1>7. u \in Seq(Events) /\ Len(u) = (IF m + 1 <= Len(j) THEN Len(j) - (m + 1) + 1 ELSE 0)
      /\ \A i \in 1..Len(j) - (m + 1) + 1 : u[i] = j[m + 1 + i - 1]
  <2>1. \A i \in (m + 1)..Len(j) : j[i] \in Events  BY <1>1
  <2>2. m + 1 \in Int /\ Len(j) \in Int  BY <1>1
  <2> QED  BY <1>5, <2>1, <2>2, SubSeqProperties
<1>8. m \in Nat /\ Len(j) = m + Len(u) /\ \A i \in 1..Len(u) : u[i] = j[m + i]
  <2>1. m \in Nat /\ m <= Len(j)  BY <1>1
  <2>2. Len(u) = Len(j) - m
    <3>1. CASE m + 1 <= Len(j)
      <4>1. Len(u) = Len(j) - (m + 1) + 1  BY <1>7, <3>1
      <4>2. Len(j) - (m + 1) + 1 = Len(j) - m  BY <1>1, <2>1
      <4> QED  BY <4>1, <4>2
    <3>2. CASE ~ (m + 1 <= Len(j))
      <4>1. Len(u) = 0  BY <1>7, <3>2
      <4>2. \A l \in Nat : m <= l /\ ~ (m + 1 <= l) => l - m = 0  BY <2>1
      <4>3. Len(j) \in Nat  BY <1>1
      <4> QED  BY <2>1, <3>2, <4>1, <4>2, <4>3
    <3> QED  BY <3>1, <3>2
  <2>3. ASSUME NEW i \in 1..Len(u) PROVE u[i] = j[m + i]
    <3>1. i \in 1..Len(j) - (m + 1) + 1 /\ m + 1 + i - 1 = m + i  BY <1>1, <2>1, <2>2
    <3> QED  BY <1>7, <3>1
  <2> QED  BY <1>1, <2>1, <2>2, <2>3
<1> QED  BY <1>6, <1>7, <1>8 DEF u

LEMMA InitGap == Init => Replaying /\ Reached /\ Skipless
<1> SUFFICES ASSUME Init PROVE Replaying /\ Reached /\ Skipless  OBVIOUS
<1>1. Replaying
  BY ConstantsAssumption DEF Init, Replaying, Unlocked
<1>2. Reached  BY DEF Init, Reached, NoCursor
<1>3. Skipless
  <2>1. \A k \in Keys : DOMAIN journal[k] = {}  BY DEF Init
  <2> QED  BY <2>1 DEF Skipless
<1> QED  BY <1>1, <1>2, <1>3

LEMMA GapTypes ==
    ASSUME TypeOK, NEW c \in Clients
    PROVE  /\ queue[c] \in Seq(Events) /\ Len(queue[c]) \in Nat
           /\ DOMAIN queue[c] = 1..Len(queue[c])
           /\ \A i \in DOMAIN queue[c] : /\ queue[c][i] \in Events /\ queue[c][i].seq \in Nat
                                         /\ Key(queue[c][i]) \in Keys
           /\ log[c] \in Seq(Events) /\ Len(log[c]) \in Nat /\ DOMAIN log[c] = 1..Len(log[c])
<1>1. queue[c] \in Seq(Events) /\ log[c] \in Seq(Events)  BY HubTypes
<1> QED  BY <1>1, LenProperties, ElementOfSeq, EventFields

\* Replacing or ending a session's runtime empties journals and no queue.
LEMMA ForgetGap ==
    ASSUME GapInv, NEW s \in Sessions, Forget(s),
           UNCHANGED <<epoch, phase, queue, lock, cursor, log, emitted, cut, drops>>
    PROVE  Replaying' /\ Reached' /\ Skipless'
<1>1. Replaying /\ Reached /\ Skipless  BY DEF GapInv
<1>2. \A k \in Keys : journal'[k] = journal[k] \/ journal'[k] = <<>>  BY DEF Forget
<1>3. Skipless'
  <2> SUFFICES ASSUME NEW c \in Clients, NEW k \in Keys, <<c, k>> \notin cut,
                      NEW i \in DOMAIN journal'[k]
               PROVE  /\ NotPassed(cursor[c][k], epoch, log[c], journal'[k][i])
                      /\ NotOvertaken(queue[c], log[c], k, journal'[k][i])
                      /\ Attends(c, k)
                         => Ahead(queue[c], log[c], journal'[k][i], Len(queue[c]) + 1)
    BY DEF Skipless, NotPassed, NotOvertaken, Ahead, Given, Attends, Key
  <2>1. journal'[k] # <<>>  OBVIOUS
  <2>2. journal'[k] = journal[k]  BY <1>2, <2>1
  <2> QED  BY <1>1, <2>2 DEF Skipless
<1> QED  BY <1>1, <1>3 DEF Replaying, Reached, Key

LEMMA HandshakeGap ==
    ASSUME GapInv, NEW c \in Clients, Connect(c) \/ Subscribe(c) \/ SubscribeDone(c)
    PROVE  Replaying' /\ Reached' /\ Skipless'
<1>1. TypeOK /\ Replaying /\ Reached /\ Skipless  BY DEF GapInv, HubInv
<1>2. UNCHANGED <<epoch, journal, emitted, queue, cursor, log, cut>>
  BY DEF Connect, Subscribe, SubscribeDone, hubVars
<1>3. \A d \in Clients : d # c => phase'[d] = phase[d]
  BY <1>1 DEF Connect, Subscribe, SubscribeDone, TypeOK
<1>4. Replaying'
  <2>1. CASE Connect(c)
    <3>1. phase[c] = "down" /\ phase'[c] = "greeted" /\ lock' = lock
      BY <1>1, <2>1 DEF Connect, TypeOK
    <3>2. lock.holder # c  BY <1>1, <3>1 DEF Replaying
    <3> QED  BY <1>1, <1>2, <1>3, <3>1, <3>2 DEF Replaying, Key
  <2>2. CASE Subscribe(c)
    <3>1. phase[c] = "greeted" /\ phase'[c] = "live" /\ lock.holder = NoClient
          /\ lock' = [holder |-> c, keys |-> {k \in Keys : journal[k] # <<>>}]
      BY <1>1, <2>2 DEF Subscribe, HubFree, TypeOK
    <3>2. queue[c] = <<>> /\ lock'.holder = c  BY <1>1, <3>1 DEF Replaying
    <3>3. DOMAIN queue[c] = {}  BY <3>2
    <3> QED  BY <1>1, <1>2, <1>3, <3>1, <3>2, <3>3 DEF Replaying, Key
  <2>3. CASE SubscribeDone(c)
    <3>1. lock'.holder = NoClient /\ phase' = phase  BY <2>3 DEF SubscribeDone, Unlocked
    <3> QED  BY <1>1, <1>2, <3>1, BoundTypes DEF Replaying
  <2> QED  BY <2>1, <2>2, <2>3
\* A journal that was not attended to before, but is now, is empty.
<1>5. ASSUME NEW d \in Clients, NEW k \in Keys, Attends(d, k)', NEW i \in DOMAIN journal[k]
      PROVE  Attends(d, k)
  <2>1. CASE Connect(c)
    BY <1>1, <1>3, <1>5, <2>1 DEF Attends, Connect, TypeOK
  <2>2. CASE Subscribe(c)
    <3>1. phase'[c] = "live" /\ lock.holder = NoClient /\ lock'.holder = c
          /\ lock'.keys = {x \in Keys : journal[x] # <<>>}
      BY <1>1, <2>2 DEF Subscribe, HubFree, TypeOK
    <3>2. journal[k] # <<>>  BY <1>5
    <3>3. d # c  BY <1>5, <3>1, <3>2 DEF Attends
    <3> QED  BY <1>3, <1>5, <3>1, <3>3, BoundTypes DEF Attends
  <2>3. CASE SubscribeDone(c)
    <3>1. lock.holder = c /\ lock.keys = {} /\ phase' = phase  BY <2>3 DEF SubscribeDone
    <3> QED  BY <1>5, <3>1 DEF Attends
  <2> QED  BY <2>1, <2>2, <2>3
<1>6. Skipless'
  <2> SUFFICES ASSUME NEW d \in Clients, NEW k \in Keys, <<d, k>> \notin cut,
                      NEW i \in DOMAIN journal[k]
               PROVE  /\ NotPassed(cursor[d][k], epoch, log[d], journal[k][i])
                      /\ NotOvertaken(queue[d], log[d], k, journal[k][i])
                      /\ Attends(d, k)'
                         => Ahead(queue[d], log[d], journal[k][i], Len(queue[d]) + 1)
    BY <1>2 DEF Skipless, NotPassed, NotOvertaken, Ahead, Given, Key
  <2> QED  BY <1>1, <1>5 DEF Skipless
<1>7. Reached'  BY <1>1, <1>2 DEF Reached, Key
<1> QED  BY <1>4, <1>6, <1>7

\* A connection that ends drops its queue, and its client attends to nothing.
LEMMA HangupGap ==
    ASSUME GapInv, NEW c \in Clients, CloseKicked(c) \/ Disconnect(c)
    PROVE  Replaying' /\ Reached' /\ Skipless'
<1>1. TypeOK /\ Replaying /\ Reached /\ Skipless  BY DEF GapInv, HubInv
<1>2. UNCHANGED <<epoch, journal, emitted, lock, cursor, log, cut>>
  BY DEF CloseKicked, Disconnect, hubVars
<1>3. /\ \A d \in Clients : d # c => phase'[d] = phase[d] /\ queue'[d] = queue[d]
      /\ phase'[c] = "down" /\ queue'[c] = <<>>
  BY <1>1 DEF CloseKicked, Disconnect, Hangup, TypeOK
<1>4. lock.holder # c
  <2>1. CASE CloseKicked(c)  BY <1>1, <2>1 DEF CloseKicked, Replaying
  <2>2. CASE Disconnect(c)  BY <2>2 DEF Disconnect
  <2> QED  BY <2>1, <2>2
<1>5. Replaying'  BY <1>1, <1>2, <1>3, <1>4 DEF Replaying, Key
<1>6. Reached'  BY <1>1, <1>2 DEF Reached, Key
<1>7. Skipless'
  <2> SUFFICES ASSUME NEW d \in Clients, NEW k \in Keys, <<d, k>> \notin cut,
                      NEW i \in DOMAIN journal[k]
               PROVE  /\ NotPassed(cursor[d][k], epoch, log[d], journal[k][i])
                      /\ NotOvertaken(queue'[d], log[d], k, journal[k][i])
                      /\ Attends(d, k)'
                         => Ahead(queue'[d], log[d], journal[k][i], Len(queue'[d]) + 1)
    BY <1>2 DEF Skipless, NotPassed, NotOvertaken, Ahead, Given, Key
  <2>1. CASE d = c
    <3>1. ~ Attends(d, k)'  BY <1>3, <2>1 DEF Attends
    <3>2. NotOvertaken(queue'[d], log[d], k, journal[k][i])
      BY <1>3, <2>1 DEF NotOvertaken
    <3> QED  BY <1>1, <3>1, <3>2 DEF Skipless
  <2>2. CASE d # c
    <3>1. queue'[d] = queue[d] /\ Attends(d, k)' = Attends(d, k)
      BY <1>2, <1>3, <2>2 DEF Attends
    <3> QED  BY <1>1, <3>1 DEF Skipless
  <2> QED  BY <2>1, <2>2
<1> QED  BY <1>5, <1>6, <1>7

LEMMA RestartGap == ASSUME GapInv, RestartDaemon PROVE Replaying' /\ Reached' /\ Skipless'
<1>1. TypeOK /\ Cursors /\ Reached  BY DEF GapInv, HubInv
<1>2. Replaying'  BY BoundTypes DEF Replaying, RestartDaemon, Unlocked
<1>3. \A k \in Keys : DOMAIN journal'[k] = {}  BY DEF RestartDaemon
<1>4. Skipless'  BY <1>3 DEF Skipless
<1>5. epoch \in Nat /\ epoch' = epoch + 1 /\ UNCHANGED <<cursor, emitted>>
  BY <1>1, HubTypes DEF RestartDaemon
<1>6. \A c \in Clients, k \in Keys : cursor[c][k].epoch \in Nat /\ cursor[c][k].epoch <= epoch
  BY <1>1, HubTypes DEF Cursors
<1>7. Reached'
  <2>1. \A c \in Clients, k \in Keys : cursor'[c][k].epoch # epoch'  BY <1>5, <1>6
  <2> QED  BY <1>1, <1>5, <2>1 DEF Reached
<1> QED  BY <1>2, <1>4, <1>7

\* An event is journaled above every cursor and every queue of its runtime, and
\* goes to every client that attends, behind what that client was given.
LEMMA EmitGap ==
    ASSUME GapInv, NEW s \in Sessions, NEW r \in Runtimes, NEW replayable \in BOOLEAN,
           Emit(s, r, replayable)
    PROVE  Replaying' /\ Reached' /\ Skipless'
<1> DEFINE k == <<s, r>>
           e == [session |-> s, runtime |-> r, epoch |-> epoch, seq |-> nextSeq[k] + 1]
<1>1. TypeOK /\ Published /\ Journals /\ Queues /\ Replaying /\ Reached /\ Skipless
  BY DEF GapInv, HubInv
<1>2. /\ active[s] = r /\ lock.holder = NoClient
      /\ journal' = IF replayable THEN [journal EXCEPT ![k] = Journaled(@, e)] ELSE journal
      /\ Broadcast(e) /\ emitted' = emitted \cup {e}
      /\ UNCHANGED <<epoch, active, lock, cursor, log, cut>>
  BY DEF Emit, Current, HubFree
<1>3. k \in Keys /\ k[1] = s /\ k[2] = r /\ nextSeq[k] \in Nat /\ journal[k] \in Seq(Events)
      /\ Len(journal[k]) <= JournalCap
  BY <1>1, HubTypes DEF Keys, Journals
<1>4. e \in Events /\ Key(e) = k /\ e.epoch = epoch /\ e.seq = nextSeq[k] + 1
  BY <1>1, <1>3, HubTypes DEF Events, Key
<1> HIDE DEF e
\* Nothing published before is above the new event.
<1>5. ASSUME NEW p \in emitted, Key(p) = k, p.epoch = epoch PROVE p.seq \in Nat /\ p.seq < e.seq
  <2>1. p \in Events /\ p.session = s /\ p.runtime = r
    BY <1>1, <1>5 DEF TypeOK, Key
  <2>2. p.seq <= nextSeq[k] /\ p.seq \in Nat
    BY <1>1, <1>2, <1>5, <2>1, EventFields DEF Published
  <2> QED  BY <1>3, <1>4, <2>2
<1>6. ASSUME NEW c \in Clients
      PROVE  /\ Registered(c) /\ ~Full(c) => queue'[c] = Append(queue[c], e)
             /\ ~ (Registered(c) /\ ~Full(c)) => queue'[c] = queue[c]
             /\ phase'[c] = IF Registered(c) /\ Full(c) THEN "kicked" ELSE phase[c]
  BY <1>2 DEF Broadcast
<1>7. lock' = lock /\ \A c \in Clients : lock.holder # c  BY <1>2, BoundTypes
<1>8. Replaying'
  <2> SUFFICES ASSUME NEW c \in Clients, phase'[c] \in {"down", "greeted"}
               PROVE  queue'[c] = <<>>
    BY <1>7 DEF Replaying
  <2>1. phase[c] = phase'[c] /\ ~Registered(c)  BY <1>6 DEF Registered
  <2> QED  BY <1>1, <1>6, <2>1 DEF Replaying
<1>9. Reached'
  <2>1. e.seq >= 1  BY <1>3, <1>4
  <2> QED  BY <1>1, <1>2, <2>1 DEF Reached, Key
\* The queue is the old one, or the old one and e.
<1>10. ASSUME NEW c \in Clients
       PROVE  /\ queue[c] \in Seq(Events) /\ Len(queue[c]) \in Nat
              /\ DOMAIN queue[c] = 1..Len(queue[c]) /\ DOMAIN queue'[c] = 1..Len(queue'[c])
              /\ \A i \in DOMAIN queue[c] : i \in DOMAIN queue'[c] /\ queue'[c][i] = queue[c][i]
              /\ \/ Len(queue'[c]) = Len(queue[c]) /\ ~ (Registered(c) /\ ~Full(c))
                 \/ /\ Len(queue'[c]) = Len(queue[c]) + 1 /\ queue'[c][Len(queue[c]) + 1] = e
                    /\ Registered(c)
  <2>1. queue[c] \in Seq(Events) /\ Len(queue[c]) \in Nat /\ DOMAIN queue[c] = 1..Len(queue[c])
    BY <1>1, GapTypes
  <2>2. CASE Registered(c) /\ ~Full(c)
    <3>1. queue'[c] = Append(queue[c], e)  BY <1>6, <2>2
    <3> DEFINE q == queue'[c]
    <3>2. q \in Seq(Events) /\ Len(q) = Len(queue[c]) + 1 /\ q[Len(queue[c]) + 1] = e
          /\ \A i \in 1..Len(queue[c]) : q[i] = queue[c][i]
      BY <1>4, <2>1, <3>1, AppendProperties
    <3>3. DOMAIN q = 1..Len(q)  BY <3>2, LenProperties
    <3> HIDE DEF q
    <3>4. \A i \in DOMAIN queue[c] : i \in DOMAIN q /\ q[i] = queue[c][i]
      BY <2>1, <3>2, <3>3
    <3> QED  BY <2>1, <2>2, <3>2, <3>3, <3>4 DEF q
  <2>3. CASE ~ (Registered(c) /\ ~Full(c))
    <3>1. queue'[c] = queue[c]  BY <1>6, <2>3
    <3> QED  BY <2>1, <2>3, <3>1
  <2> QED  BY <2>2, <2>3
<1>11. ASSUME NEW c \in Clients, NEW x \in Keys, <<c, x>> \notin cut, NEW f,
              \E i \in DOMAIN journal[x] : f = journal[x][i]
       PROVE  /\ NotPassed(cursor[c][x], epoch, log[c], f)
              /\ NotOvertaken(queue'[c], log[c], x, f)
              /\ Attends(c, x)' => Ahead(queue'[c], log[c], f, Len(queue'[c]) + 1)
  <2>1. /\ NotPassed(cursor[c][x], epoch, log[c], f)
        /\ NotOvertaken(queue[c], log[c], x, f)
        /\ Attends(c, x) => Ahead(queue[c], log[c], f, Len(queue[c]) + 1)
    BY <1>1, <1>11 DEF Skipless
  <2>2. \A n : Ahead(queue[c], log[c], f, n) => Ahead(queue'[c], log[c], f, n)
    BY <1>10 DEF Ahead
  <2>3. NotOvertaken(queue'[c], log[c], x, f)
    <3> SUFFICES ASSUME NEW i \in DOMAIN queue'[c], Key(queue'[c][i]) = x,
                        f.seq < queue'[c][i].seq
                 PROVE  Ahead(queue'[c], log[c], f, i)
      BY DEF NotOvertaken
    <3>1. CASE i \in DOMAIN queue[c]
      <4>1. queue'[c][i] = queue[c][i]  BY <1>10, <3>1
      <4> QED  BY <2>1, <2>2, <3>1, <4>1 DEF NotOvertaken
    <3>2. CASE i \notin DOMAIN queue[c]
      <4>1. Registered(c) /\ i = Len(queue[c]) + 1  BY <1>10, <3>2
      <4>2. Attends(c, x)  BY <1>7, <4>1 DEF Attends, Registered
      <4> QED  BY <2>1, <2>2, <4>1, <4>2
    <3> QED  BY <3>1, <3>2
  <2>4. ASSUME Attends(c, x)' PROVE Ahead(queue'[c], log[c], f, Len(queue'[c]) + 1)
    <3>1. phase'[c] = "live"  BY <2>4 DEF Attends
    <3>2. phase[c] = "live"  BY <1>6, <3>1
    <3>3. Attends(c, x)  BY <1>7, <3>2 DEF Attends
    <3>4. Ahead(queue'[c], log[c], f, Len(queue[c]) + 1)  BY <2>1, <2>2, <3>3
    <3>5. Len(queue'[c]) \in Nat /\ Len(queue[c]) <= Len(queue'[c])  BY <1>10
    <3>6. \A i \in DOMAIN queue'[c] : i < Len(queue[c]) + 1 => i < Len(queue'[c]) + 1
      BY <1>10, <3>5
    <3> QED  BY <3>4, <3>6 DEF Ahead
  <2> QED  BY <2>1, <2>3, <2>4
<1>12. ASSUME NEW c \in Clients
       PROVE  /\ NotPassed(cursor[c][k], epoch, log[c], e)
              /\ NotOvertaken(queue'[c], log[c], k, e)
              /\ Attends(c, k)' => Ahead(queue'[c], log[c], e, Len(queue'[c]) + 1)
  <2>1. NotPassed(cursor[c][k], epoch, log[c], e)
    <3> SUFFICES ASSUME cursor[c][k].epoch = epoch, e.seq <= cursor[c][k].seq PROVE FALSE
      BY DEF NotPassed
    <3>1. PICK p \in emitted : Key(p) = k /\ p.epoch = epoch /\ p.seq = cursor[c][k].seq
      BY <1>1, <1>3 DEF Reached
    <3>2. p.seq \in Nat /\ p.seq < e.seq  BY <1>5, <3>1
    <3> QED  BY <1>3, <1>4, <3>1, <3>2
  <2>2. NotOvertaken(queue'[c], log[c], k, e)
    <3> SUFFICES ASSUME NEW i \in DOMAIN queue'[c], Key(queue'[c][i]) = k,
                        e.seq < queue'[c][i].seq
                 PROVE  FALSE
      BY DEF NotOvertaken
    <3>1. CASE i \in DOMAIN queue[c]
      <4>1. queue[c][i] \in emitted /\ queue[c][i].epoch = epoch /\ queue'[c][i] = queue[c][i]
        BY <1>1, <1>10, <3>1 DEF Queues
      <4>2. queue[c][i].seq \in Nat /\ queue[c][i].seq < e.seq  BY <1>5, <4>1
      <4> QED  BY <1>3, <1>4, <4>1, <4>2
    <3>2. CASE i \notin DOMAIN queue[c]
      <4>1. queue'[c][i] = e  BY <1>10, <3>2
      <4> QED  BY <1>3, <1>4, <4>1
    <3> QED  BY <3>1, <3>2
  <2>3. ASSUME Attends(c, k)' PROVE Ahead(queue'[c], log[c], e, Len(queue'[c]) + 1)
    <3>1. phase'[c] = "live"  BY <2>3 DEF Attends
    <3>2. Registered(c) /\ ~Full(c)  BY <1>6, <3>1 DEF Registered
    <3>3. Len(queue'[c]) = Len(queue[c]) + 1 /\ queue'[c][Len(queue[c]) + 1] = e
      BY <1>10, <3>2
    <3>4. Len(queue'[c]) \in DOMAIN queue'[c] /\ Len(queue'[c]) < Len(queue'[c]) + 1
      BY <1>10, <3>3
    <3> QED  BY <3>3, <3>4 DEF Ahead
  <2> QED  BY <2>1, <2>2, <2>3
<1>13. ASSUME NEW x \in Keys, NEW i \in DOMAIN journal'[x]
       PROVE  \/ \E p \in DOMAIN journal[x] : journal'[x][i] = journal[x][p]
              \/ x = k /\ journal'[x][i] = e
  <2>1. CASE x # k \/ ~replayable
    <3>1. journal'[x] = journal[x]  BY <1>1, <1>2, <2>1 DEF TypeOK
    <3> QED  BY <1>13, <3>1
  <2>2. CASE x = k /\ replayable
    <3> DEFINE j == journal[k]
               new == Journaled(j, e)
    <3>1. journal'[x] = new  BY <1>1, <1>2, <1>3, <2>2 DEF TypeOK
    <3>2. new \in Seq(Events)
          /\ \E d \in Nat : /\ Len(new) + d = Len(j) + 1
                            /\ \A n \in 1..Len(new) :
                                  new[n] = IF n + d = Len(j) + 1 THEN e ELSE j[n + d]
      BY <1>3, <1>4, JournaledIsSuffix
    <3>3. Len(j) \in Nat /\ DOMAIN j = 1..Len(j)  BY <1>3, LenProperties
    <3>4. Len(new) \in Nat /\ DOMAIN new = 1..Len(new)  BY <3>2, LenProperties
    <3> HIDE DEF new
    <3>5. PICK d \in Nat : /\ Len(new) + d = Len(j) + 1
                           /\ \A n \in 1..Len(new) :
                                 new[n] = IF n + d = Len(j) + 1 THEN e ELSE j[n + d]
      BY <3>2
    <3>6. i \in 1..Len(new)  BY <1>13, <3>1, <3>4
    <3>7. CASE i + d = Len(j) + 1  BY <2>2, <3>1, <3>5, <3>6, <3>7
    <3>8. CASE i + d # Len(j) + 1
      <4>1. new[i] = j[i + d]  BY <3>5, <3>6, <3>8
      <4>2. i + d \in 1..Len(j)
        <5> HIDE DEF j
        <5> QED  BY <3>3, <3>4, <3>5, <3>6, <3>8
      <4> QED  BY <2>2, <3>1, <3>3, <4>1, <4>2
    <3> QED  BY <3>7, <3>8
  <2> QED  BY <2>1, <2>2
<1>14. Skipless'
  <2> SUFFICES ASSUME NEW c \in Clients, NEW x \in Keys, <<c, x>> \notin cut,
                      NEW i \in DOMAIN journal'[x]
               PROVE  /\ NotPassed(cursor[c][x], epoch, log[c], journal'[x][i])
                      /\ NotOvertaken(queue'[c], log[c], x, journal'[x][i])
                      /\ Attends(c, x)'
                         => Ahead(queue'[c], log[c], journal'[x][i], Len(queue'[c]) + 1)
    BY <1>2 DEF Skipless, NotPassed, NotOvertaken, Ahead, Given, Key
  <2> DEFINE f == journal'[x][i]
  <2>1. CASE \E p \in DOMAIN journal[x] : f = journal[x][p]
    <3> HIDE DEF f
    <3> QED  BY <1>11, <2>1 DEF f
  <2>2. CASE x = k /\ f = e  BY <1>12, <2>2
  <2> QED  BY <1>13, <2>1, <2>2
<1> QED  BY <1>8, <1>9, <1>14

\* A replay that fits queues, in order, all that the client may lack of the
\* journal; one that does not fit is marked as cut for every journal left.
LEMMA ReplayGap ==
    ASSUME GapInv, NEW c \in Clients, NEW k \in Keys, ReplayJournal(c, k)
    PROVE  Replaying' /\ Reached' /\ Skipless'
<1> DEFINE n == ResumeFrom(c, k)
           u == Unseen(journal[k], n)
           t == Fitting(queue[c], u)
           old == queue[c]
           new == queue'[c]
<1>1. TypeOK /\ Journals /\ Replaying /\ Reached /\ Skipless  BY DEF GapInv, HubInv
<1>2. /\ lock.holder = c /\ k \in lock.keys
      /\ queue' = [queue EXCEPT ![c] = old \o t]
      /\ lock' = IF Len(t) < Len(u) THEN [lock EXCEPT !.keys = {}]
                                    ELSE [lock EXCEPT !.keys = @ \ {k}]
      /\ cut' = IF Len(t) < Len(u) THEN cut \cup ({c} \X lock.keys) ELSE cut
      /\ UNCHANGED <<epoch, journal, emitted, phase, cursor, log>>
  BY DEF ReplayJournal, hubVars
<1>3. /\ n \in Nat /\ old \in Seq(Events) /\ Len(old) \in Nat /\ Len(old) <= QueueCap
      /\ DOMAIN old = 1..Len(old) /\ journal[k] \in Seq(Events) /\ DOMAIN journal[k] = 1..Len(journal[k])
      /\ Len(journal[k]) \in Nat
  BY <1>1, HubTypes, LenProperties DEF ResumeFrom, TypeOK
<1>4. (cursor[c][k].epoch = epoch /\ n = cursor[c][k].seq) \/ n = 0  BY DEF ResumeFrom
<1> HIDE DEF n
<1>5. /\ t \in Seq(Events) /\ \A i \in 1..Len(t) : \E p \in 1..Len(journal[k]) : t[i] = journal[k][p]
  BY <1>3, ReplayedPart
<1>6. u \in Seq(Events) /\ Len(u) \in Nat
  <2>1. \A a, b \in DOMAIN journal[k] : a < b => journal[k][a].seq < journal[k][b].seq
    BY <1>1 DEF Journals
  <2> QED  BY <1>3, <2>1, UnseenIsSuffix, LenProperties
<1>7. Len(t) \in Nat  BY <1>5, LenProperties
<1>8. ~ (Len(t) < Len(u)) => t = u
  <2> SUFFICES ASSUME Len(u) > QueueCap - Len(old) PROVE Len(t) < Len(u)  BY DEF Fitting
  <2> DEFINE room == QueueCap - Len(old)
  <2>1. room \in Nat  BY <1>3, BoundTypes
  <2>2. t = SubSeq(u, 1, room)  BY DEF Fitting
  <2>3. \A i \in 1..room : u[i] \in Events  BY <1>6, <2>1, ElementOfSeq
  <2> HIDE DEF room, t, u
  <2>4. Len(t) = IF 1 <= room THEN room - 1 + 1 ELSE 0
    BY <2>1, <2>2, <2>3, SubSeqProperties
  <2> QED  BY <1>6, <2>1, <2>4 DEF room
<1> HIDE DEF t, u
<1>9. /\ DOMAIN new = 1..Len(new) /\ Len(new) = Len(old) + Len(t)
      /\ \A i \in 1..Len(old) : new[i] = old[i]
      /\ \A i \in 1..Len(t) : new[Len(old) + i] = t[i]
  <2>1. new = old \o t  BY <1>1, <1>2 DEF TypeOK
  <2>2. new \in Seq(Events) /\ Len(new) = Len(old) + Len(t)
        /\ \A i \in 1..Len(old) + Len(t) :
              new[i] = IF i <= Len(old) THEN old[i] ELSE t[i - Len(old)]
    BY <1>3, <1>5, <2>1, ConcatProperties
  <2>3. DOMAIN new = 1..Len(new)  BY <2>2, LenProperties
  <2>4. \A i \in 1..Len(t) : Len(old) + i \in 1..Len(old) + Len(t) /\ ~ (Len(old) + i <= Len(old))
                             /\ Len(old) + i - Len(old) = i
    BY <1>3, <1>7
  <2>5. \A i \in 1..Len(old) : i \in 1..Len(old) + Len(t) /\ i <= Len(old)  BY <1>3, <1>7
  <2> HIDE DEF new, old
  <2> QED  BY <2>2, <2>3, <2>4, <2>5
<1>10. \A i \in 1..Len(t) : Key(t[i]) = k
  <2>1. \A p \in 1..Len(journal[k]) : Key(journal[k][p]) = k  BY <1>1, <1>3 DEF Journals
  <2> QED  BY <1>5, <2>1
<1>11. \A i \in 1..Len(new) : \/ i \in 1..Len(old)
                              \/ i - Len(old) \in 1..Len(t) /\ i = Len(old) + (i - Len(old))
  BY <1>3, <1>7, <1>9
<1>12. \A d \in Clients : d # c => queue'[d] = queue[d]  BY <1>1, <1>2 DEF TypeOK
<1>13. lock'.holder = c /\ lock'.keys = (IF Len(t) < Len(u) THEN {} ELSE lock.keys \ {k})
  BY <1>1, <1>2 DEF TypeOK
<1> HIDE DEF new, old
<1>14. Replaying'
  <2>1. ASSUME NEW i \in DOMAIN new PROVE Key(new[i]) \notin lock'.keys
    <3>1. CASE i \in 1..Len(old)
      <4>1. Key(old[i]) \notin lock.keys  BY <1>1, <1>2, <1>3, <3>1 DEF Replaying, old
      <4> QED  BY <1>9, <1>13, <3>1, <4>1
    <3>2. CASE i - Len(old) \in 1..Len(t) /\ i = Len(old) + (i - Len(old))
      <4>1. Key(new[i]) = k  BY <1>9, <1>10, <3>2
      <4> QED  BY <1>13, <4>1
    <3> QED  BY <1>9, <1>11, <2>1, <3>1, <3>2
  <2>2. phase[c] = "live"  BY <1>1, <1>2 DEF Replaying
  <2> SUFFICES ASSUME NEW d \in Clients
               PROVE  /\ lock'.holder = d =>
                            /\ phase[d] = "live"
                            /\ \A i \in DOMAIN queue'[d] : Key(queue'[d][i]) \notin lock'.keys
                      /\ phase[d] \in {"down", "greeted"} => queue'[d] = <<>>
    BY <1>2 DEF Replaying, Key
  <2>3. CASE d = c  BY <2>1, <2>2, <2>3 DEF new
  <2>4. CASE d # c  BY <1>1, <1>12, <1>13, <2>4 DEF Replaying
  <2> QED  BY <2>3, <2>4
<1>15. Reached'  BY <1>1, <1>2 DEF Reached, Key
\* A journal this step does not replay: its events keep their places.
<1>16. ASSUME NEW x \in Keys, x # k, <<c, x>> \notin cut, x \notin lock'.keys => x \notin lock.keys,
              NEW f, \E i \in DOMAIN journal[x] : f = journal[x][i]
       PROVE  /\ NotPassed(cursor[c][x], epoch, log[c], f)
              /\ NotOvertaken(new, log[c], x, f)
              /\ Attends(c, x)' => Ahead(new, log[c], f, Len(new) + 1)
  <2>1. /\ NotPassed(cursor[c][x], epoch, log[c], f)
        /\ NotOvertaken(old, log[c], x, f)
        /\ Attends(c, x) => Ahead(old, log[c], f, Len(old) + 1)
    BY <1>1, <1>16 DEF Skipless, old
  <2>2. \A m : Ahead(old, log[c], f, m) => Ahead(new, log[c], f, m)
    <3>1. \A i \in DOMAIN old : i \in DOMAIN new /\ new[i] = old[i]  BY <1>3, <1>7, <1>9
    <3> QED  BY <3>1 DEF Ahead
  <2>3. NotOvertaken(new, log[c], x, f)
    <3> SUFFICES ASSUME NEW i \in DOMAIN new, Key(new[i]) = x, f.seq < new[i].seq
                 PROVE  Ahead(new, log[c], f, i)
      BY DEF NotOvertaken
    <3>1. CASE i \in 1..Len(old)
      <4>1. new[i] = old[i] /\ i \in DOMAIN old  BY <1>3, <1>9, <3>1
      <4> QED  BY <2>1, <2>2, <4>1 DEF NotOvertaken
    <3>2. CASE i - Len(old) \in 1..Len(t) /\ i = Len(old) + (i - Len(old))
      <4>1. Key(new[i]) = k  BY <1>9, <1>10, <3>2
      <4> QED  BY <1>16, <4>1
    <3> QED  BY <1>9, <1>11, <3>1, <3>2
  <2>4. ASSUME Attends(c, x)' PROVE Ahead(new, log[c], f, Len(new) + 1)
    <3>1. phase[c] = "live" /\ x \notin lock'.keys  BY <1>2, <1>13, <2>4 DEF Attends
    <3>2. Attends(c, x)  BY <1>16, <3>1 DEF Attends
    <3>3. Ahead(new, log[c], f, Len(old) + 1)  BY <2>1, <2>2, <3>2
    <3>4. \A i \in DOMAIN new : i < Len(old) + 1 => i < Len(new) + 1  BY <1>3, <1>7, <1>9
    <3> QED  BY <3>3, <3>4 DEF Ahead
  <2> QED  BY <2>1, <2>3, <2>4
\* The journal replayed: what was not queued now is below the cursor.
<1>17. ASSUME ~ (Len(t) < Len(u)), <<c, k>> \notin cut, NEW a \in DOMAIN journal[k]
       PROVE  /\ NotPassed(cursor[c][k], epoch, log[c], journal[k][a])
              /\ NotOvertaken(new, log[c], k, journal[k][a])
              /\ Ahead(new, log[c], journal[k][a], Len(new) + 1)
  <2> DEFINE j == journal[k]
             f == j[a]
  <2>1. \A p, b \in DOMAIN j : p < b => j[p].seq < j[b].seq  BY <1>1 DEF Journals
  <2>2. /\ j \in Seq(Events) /\ a \in 1..Len(j) /\ Len(j) \in Nat /\ DOMAIN j = 1..Len(j)
        /\ \A p \in 1..Len(j) : j[p].seq \in Nat
    BY <1>3, ElementOfSeq, EventFields
  <2>3. NotPassed(cursor[c][k], epoch, log[c], f)  BY <1>1, <1>17 DEF Skipless
  <2>4. f.seq \in Nat /\ f.seq >= 1
    <3>1. f \in emitted  BY <1>1 DEF Journals
    <3> QED  BY <1>1, <2>2, <3>1 DEF Reached
  <2> HIDE DEF j
  <2>5. PICK m \in Nat : /\ Len(j) = m + Len(t) /\ \A i \in 1..m : j[i].seq <= n
                         /\ \A i \in 1..Len(t) : t[i] = j[m + i]
    <3>1. \E m \in Nat :
             /\ u \in Seq(Events) /\ Len(j) = m + Len(u) /\ \A i \in 1..m : j[i].seq <= n
             /\ \A i \in 1..Len(u) : u[i] = j[m + i]
      BY <1>3, <2>1, <2>2, UnseenIsSuffix DEF u, j
    <3> QED  BY <1>8, <1>17, <3>1
  <2>6. CASE a <= m
    <3>1. f.seq <= n  BY <2>2, <2>5, <2>6
    <3>2. n # 0  BY <1>3, <2>4, <3>1
    <3>3. cursor[c][k].epoch = epoch /\ f.seq <= cursor[c][k].seq  BY <1>4, <3>1, <3>2
    <3>4. Given(log[c], f)  BY <2>3, <3>3 DEF NotPassed
    <3> QED  BY <2>3, <3>4 DEF NotOvertaken, Ahead, j
  <2>7. CASE ~ (a <= m)
    <3> DEFINE at == Len(old) + (a - m)
    <3>1. a - m \in 1..Len(t) /\ m + (a - m) = a  BY <1>7, <2>2, <2>5, <2>7
    <3>2. new[at] = f /\ at \in DOMAIN new /\ at < Len(new) + 1
      <4>1. new[at] = t[a - m] /\ t[a - m] = j[a]  BY <1>9, <2>5, <3>1
      <4>2. at \in 1..Len(new) /\ at < Len(new) + 1  BY <1>3, <1>7, <1>9, <3>1
      <4> QED  BY <1>9, <4>1, <4>2
    <3>3. Ahead(new, log[c], f, Len(new) + 1)
      <4> HIDE DEF at
      <4> QED  BY <3>2 DEF Ahead
    <3>4. ASSUME NEW i \in DOMAIN new, Key(new[i]) = k, f.seq < new[i].seq
          PROVE  Ahead(new, log[c], f, i)
      <4>1. i \notin 1..Len(old)
        <5>1. \A b \in DOMAIN old : Key(old[b]) # k  BY <1>1, <1>2 DEF Replaying, old
        <5> QED  BY <1>3, <1>9, <3>4, <5>1
      <4> DEFINE b == i - Len(old)
      <4>2. b \in 1..Len(t) /\ i = Len(old) + b  BY <1>9, <1>11, <4>1
      <4>3. new[i] = t[b] /\ t[b] = j[m + b]  BY <1>9, <2>5, <4>2
      <4>4. m + b \in 1..Len(j)  BY <1>7, <2>2, <2>5, <4>2
      <4>5. a < m + b
        <5> SUFFICES ASSUME ~ (a < m + b) PROVE FALSE  OBVIOUS
        <5>1. m + b \in Nat /\ (m + b = a \/ m + b < a)  BY <2>2, <4>4
        <5>2. j[m + b].seq \in Nat /\ j[m + b].seq <= f.seq  BY <2>1, <2>2, <4>4, <5>1
        <5> QED  BY <2>4, <3>4, <4>3, <5>2
      <4>6. at < i
        <5>1. b \in Nat  BY <4>2
        <5> HIDE DEF b
        <5> QED  BY <1>3, <2>2, <2>5, <4>2, <4>5, <5>1
      <4> HIDE DEF at
      <4> QED  BY <3>2, <4>6 DEF Ahead
    <3> QED  BY <2>3, <3>3, <3>4 DEF NotOvertaken, j
  <2> QED  BY <2>6, <2>7, <2>2, <2>5
<1>18. Skipless'
  <2> SUFFICES ASSUME NEW d \in Clients, NEW x \in Keys, <<d, x>> \notin cut',
                      NEW i \in DOMAIN journal[x]
               PROVE  /\ NotPassed(cursor[d][x], epoch, log[d], journal[x][i])
                      /\ NotOvertaken(queue'[d], log[d], x, journal[x][i])
                      /\ Attends(d, x)'
                         => Ahead(queue'[d], log[d], journal[x][i], Len(queue'[d]) + 1)
    BY <1>2 DEF Skipless, NotPassed, NotOvertaken, Ahead, Given, Key
  <2>1. <<d, x>> \notin cut  BY <1>2
  <2>2. CASE d # c
    <3>1. queue'[d] = queue[d]  BY <1>12, <2>2
    <3>2. Attends(d, x)' => Attends(d, x)  BY <1>2, <2>2 DEF Attends
    <3> QED  BY <1>1, <2>1, <3>1, <3>2 DEF Skipless
  <2>3. CASE d = c /\ x # k
    <3>1. x \notin lock'.keys => x \notin lock.keys
      <4>1. CASE Len(t) < Len(u)
        <5>1. <<c, x>> \notin {c} \X lock.keys  BY <1>2, <2>3, <4>1
        <5> QED  BY <5>1
      <4>2. CASE ~ (Len(t) < Len(u))  BY <1>13, <2>3, <4>2
      <4> QED  BY <4>1, <4>2
    <3> QED  BY <1>16, <2>1, <2>3, <3>1 DEF new
  <2>4. CASE d = c /\ x = k
    <3>1. ~ (Len(t) < Len(u))
      <4>1. <<c, k>> \in {c} \X lock.keys  BY <1>2
      <4> QED  BY <1>2, <2>4, <4>1
    <3> QED  BY <1>17, <2>1, <2>4, <3>1 DEF new
  <2> QED  BY <2>2, <2>3, <2>4
<1> QED  BY <1>14, <1>15, <1>18

\* What is delivered leaves the queue for the log, or was given before.
LEMMA DeliverGap ==
    ASSUME GapInv, NEW c \in Clients, Deliver(c)
    PROVE  Replaying' /\ Reached' /\ Skipless'
<1> DEFINE e == Head(queue[c])
           k == Key(e)
           old == queue[c]
           new == Tail(old)
<1>1. TypeOK /\ Journals /\ Queues /\ Replaying /\ Reached /\ Skipless  BY DEF GapInv, HubInv
<1>2. /\ phase[c] \in {"live", "kicked"} /\ lock.holder # c /\ old # <<>>
      /\ queue' = [queue EXCEPT ![c] = new]
      /\ IF Accepts(c, e) THEN cursor' = Advance(c, e) /\ log' = [log EXCEPT ![c] = Append(@, e)]
                          ELSE UNCHANGED <<cursor, log>>
      /\ UNCHANGED <<epoch, journal, emitted, phase, lock, cut>>
  BY DEF Deliver, hubVars
<1>3. /\ old \in Seq(Events) /\ Len(old) \in Nat /\ Len(old) >= 1 /\ DOMAIN old = 1..Len(old)
      /\ e = old[1] /\ 1 \in DOMAIN old
  <2>1. old \in Seq(Events) /\ Len(old) \in Nat /\ DOMAIN old = 1..Len(old)  BY <1>1, GapTypes
  <2>2. Len(old) # 0  BY <1>2, <2>1, EmptySeq
  <2> QED  BY <2>1, <2>2
<1>4. /\ Len(new) = Len(old) - 1 /\ DOMAIN new = 1..Len(new)
      /\ \A i \in DOMAIN new : i + 1 \in DOMAIN old /\ new[i] = old[i + 1]
      /\ \A i \in DOMAIN old : i = 1 \/ (i - 1 \in DOMAIN new /\ new[i - 1] = old[i])
  <2>1. new \in Seq(Events) /\ Len(new) = Len(old) - 1
        /\ \A i \in 1..Len(new) : new[i] = old[i + 1]
    BY <1>2, <1>3, HeadTailProperties
  <2>2. DOMAIN new = 1..Len(new)  BY <2>1, LenProperties
  <2> HIDE DEF new, old
  <2>3. \A i \in 1..Len(new) : i + 1 \in 1..Len(old)  BY <1>3, <2>1
  <2>4. \A i \in 1..Len(old) : i = 1 \/ (i - 1 \in 1..Len(new) /\ (i - 1) + 1 = i)  BY <1>3, <2>1
  <2> QED  BY <1>3, <2>1, <2>2, <2>3, <2>4
<1>5. /\ queue'[c] = new
      /\ \A d \in Clients : d # c => /\ queue'[d] = queue[d] /\ log'[d] = log[d]
                                     /\ \A x \in Keys : cursor'[d][x] = cursor[d][x]
  BY <1>1, <1>2 DEF TypeOK, Advance
<1> HIDE DEF old, new, e
<1>6. e \in emitted /\ e.epoch = epoch /\ e \in Events
  <2>1. 1 \in DOMAIN queue[c] /\ e = queue[c][1]  BY <1>3 DEF old
  <2> QED  BY <1>1, <2>1 DEF Queues, TypeOK
<1>7. k \in Keys /\ e.seq \in Nat  BY <1>6, EventFields
<1>8. \A x \in Keys : \/ cursor'[c][x] = cursor[c][x]
                      \/ /\ Accepts(c, e) /\ x = k
                         /\ cursor'[c][x] = [epoch |-> epoch, seq |-> e.seq]
  BY <1>1, <1>2, <1>6, <1>7 DEF Advance, TypeOK
\* The log grows by e, or stays and e was covered.
<1>9. /\ \A f : Given(log[c], f) => Given(log'[c], f)
      /\ Given(log'[c], e) \/ (cursor[c][k].epoch = epoch /\ e.seq <= cursor[c][k].seq)
  <2>1. CASE Accepts(c, e)
    <3>1. log'[c] = Append(log[c], e)  BY <1>1, <1>2, <2>1 DEF TypeOK
    <3>2. log[c] \in Seq(Events) /\ Len(log[c]) \in Nat /\ DOMAIN log[c] = 1..Len(log[c])
      BY <1>1, GapTypes
    <3> DEFINE l == log'[c]
    <3>3. /\ l \in Seq(Events) /\ Len(l) = Len(log[c]) + 1 /\ l[Len(log[c]) + 1] = e
          /\ \A i \in 1..Len(log[c]) : l[i] = log[c][i]
      BY <1>6, <3>1, <3>2, AppendProperties
    <3>4. DOMAIN l = 1..Len(l)  BY <3>3, LenProperties
    <3> HIDE DEF l
    <3>5. Len(log[c]) + 1 \in DOMAIN l /\ \A i \in DOMAIN log[c] : i \in DOMAIN l
      BY <3>2, <3>3, <3>4
    <3>6. Given(l, e)  BY <3>3, <3>5 DEF Given
    <3>7. ASSUME NEW f, Given(log[c], f) PROVE Given(l, f)  BY <3>2, <3>3, <3>5, <3>7 DEF Given
    <3> QED  BY <3>6, <3>7 DEF l
  <2>2. CASE ~ Accepts(c, e)
    <3>1. log'[c] = log[c]  BY <1>2, <2>2
    <3>2. cursor[c][k].epoch = epoch /\ e.seq <= cursor[c][k].seq
      BY <1>6, <2>2 DEF Accepts
    <3> QED  BY <3>1, <3>2
  <2> QED  BY <2>1, <2>2
<1>10. Replaying'
  <2> SUFFICES ASSUME NEW d \in Clients
               PROVE  /\ lock.holder = d =>
                            /\ phase[d] = "live"
                            /\ \A i \in DOMAIN queue'[d] : Key(queue'[d][i]) \notin lock.keys
                      /\ phase[d] \in {"down", "greeted"} => queue'[d] = <<>>
    BY <1>2 DEF Replaying, Key
  <2>1. CASE d = c  BY <1>2, <2>1
  <2>2. CASE d # c  BY <1>1, <1>5, <2>2 DEF Replaying
  <2> QED  BY <2>1, <2>2
<1>11. Reached'
  <2> SUFFICES ASSUME NEW d \in Clients, NEW x \in Keys, cursor'[d][x].epoch = epoch
               PROVE  \E f \in emitted : Key(f) = x /\ f.epoch = epoch
                                         /\ f.seq = cursor'[d][x].seq
    BY <1>1, <1>2 DEF Reached, Key
  <2>1. CASE cursor'[d][x] = cursor[d][x]  BY <1>1, <2>1 DEF Reached
  <2>2. CASE cursor'[d][x] # cursor[d][x]
    <3>1. d = c /\ x = k /\ cursor'[d][x].seq = e.seq  BY <1>5, <1>8, <2>2
    <3> QED  BY <1>6, <3>1
  <2> QED  BY <2>1, <2>2
<1>12. ASSUME NEW x \in Keys, <<c, x>> \notin cut, NEW i \in DOMAIN journal[x]
       PROVE  /\ NotPassed(cursor'[c][x], epoch, log'[c], journal[x][i])
              /\ NotOvertaken(new, log'[c], x, journal[x][i])
              /\ Attends(c, x) => Ahead(new, log'[c], journal[x][i], Len(new) + 1)
  <2> DEFINE f == journal[x][i]
  <2>1. /\ NotPassed(cursor[c][x], epoch, log[c], f)
        /\ NotOvertaken(old, log[c], x, f)
        /\ Attends(c, x) => Ahead(old, log[c], f, Len(old) + 1)
    BY <1>1, <1>12 DEF Skipless, old
  <2>2. f \in emitted /\ f \in Events /\ Key(f) = x /\ f.epoch = epoch
    BY <1>1 DEF Journals, TypeOK
  <2> HIDE DEF f
  <2>3. f = e => Given(log'[c], f)
    <3> SUFFICES ASSUME f = e PROVE Given(log'[c], f)  OBVIOUS
    <3>1. x = k  BY <2>2
    <3> QED  BY <1>9, <2>1, <3>1 DEF NotPassed
  \* Positions move by one.
  <2>4. ASSUME NEW m \in Nat, Ahead(old, log[c], f, m + 1) PROVE Ahead(new, log'[c], f, m)
    <3>1. CASE Given(log[c], f)  BY <1>9, <3>1 DEF Ahead
    <3>2. CASE \E a \in DOMAIN old : a < m + 1 /\ old[a] = f
      <4>1. PICK a \in DOMAIN old : a < m + 1 /\ old[a] = f  BY <3>2
      <4>2. CASE a = 1  BY <1>3, <2>3, <4>1, <4>2 DEF Ahead
      <4>3. CASE a # 1
        <5>1. a - 1 \in DOMAIN new /\ new[a - 1] = f  BY <1>4, <4>1, <4>3
        <5>2. a - 1 < m  BY <1>3, <4>1
        <5> QED  BY <5>1, <5>2 DEF Ahead
      <4> QED  BY <4>2, <4>3
    <3> QED  BY <2>4, <3>1, <3>2 DEF Ahead
  <2>5. NotPassed(cursor'[c][x], epoch, log'[c], f)
    <3> SUFFICES ASSUME cursor'[c][x].epoch = epoch, f.seq <= cursor'[c][x].seq
                 PROVE  Given(log'[c], f)
      BY DEF NotPassed
    <3>1. CASE cursor'[c][x] = cursor[c][x]  BY <1>9, <2>1, <3>1 DEF NotPassed
    <3>2. CASE cursor'[c][x] # cursor[c][x]
      <4>1. x = k /\ f.seq <= e.seq /\ f.seq \in Nat  BY <1>8, <2>2, <3>2, EventFields
      <4>2. CASE f.seq = e.seq
        <5>1. f.session = e.session /\ f.runtime = e.runtime  BY <2>2, <4>1 DEF Key
        <5>2. f = e  BY <1>6, <2>2, <4>2, <5>1 DEF Events
        <5> QED  BY <2>3, <5>2
      <4>3. CASE f.seq # e.seq
        <5>1. Ahead(old, log[c], f, 1)
          BY <1>3, <1>7, <2>1, <4>1, <4>3 DEF NotOvertaken
        <5>2. \A a \in DOMAIN old : ~ (a < 1)  BY <1>3
        <5>3. Given(log[c], f)  BY <5>1, <5>2 DEF Ahead
        <5> QED  BY <1>9, <5>3
      <4> QED  BY <4>2, <4>3
    <3> QED  BY <3>1, <3>2
  <2>6. NotOvertaken(new, log'[c], x, f)
    <3> SUFFICES ASSUME NEW a \in DOMAIN new, Key(new[a]) = x, f.seq < new[a].seq
                 PROVE  Ahead(new, log'[c], f, a)
      BY DEF NotOvertaken
    <3>1. a + 1 \in DOMAIN old /\ new[a] = old[a + 1] /\ a \in Nat  BY <1>4
    <3>2. Ahead(old, log[c], f, a + 1)  BY <2>1, <3>1 DEF NotOvertaken
    <3> QED  BY <2>4, <3>1, <3>2
  <2>7. ASSUME Attends(c, x) PROVE Ahead(new, log'[c], f, Len(new) + 1)
    <3>1. Len(new) + 1 \in Nat /\ Len(old) + 1 = Len(new) + 1 + 1  BY <1>3, <1>4
    <3>2. Ahead(old, log[c], f, Len(new) + 1 + 1)  BY <2>1, <2>7, <3>1
    <3> QED  BY <2>4, <3>1, <3>2
  <2> QED  BY <2>5, <2>6, <2>7 DEF f
<1>13. Skipless'
  <2> SUFFICES ASSUME NEW d \in Clients, NEW x \in Keys, <<d, x>> \notin cut,
                      NEW i \in DOMAIN journal[x]
               PROVE  /\ NotPassed(cursor'[d][x], epoch, log'[d], journal[x][i])
                      /\ NotOvertaken(queue'[d], log'[d], x, journal[x][i])
                      /\ Attends(d, x)
                         => Ahead(queue'[d], log'[d], journal[x][i], Len(queue'[d]) + 1)
    BY <1>2 DEF Skipless, NotPassed, NotOvertaken, Ahead, Given, Key, Attends
  <2>1. CASE d = c  BY <1>5, <1>12, <2>1
  <2>2. CASE d # c
    <3>1. queue'[d] = queue[d] /\ log'[d] = log[d] /\ cursor'[d][x] = cursor[d][x]
      BY <1>5, <2>2
    <3> QED  BY <1>1, <3>1 DEF Skipless
  <2> QED  BY <2>1, <2>2
<1> QED  BY <1>10, <1>11, <1>13

LEMMA NextGap == GapInv /\ [Next]_vars => GapInv'
<1> SUFFICES ASSUME GapInv, [Next]_vars PROVE Replaying' /\ Reached' /\ Skipless'
  BY NextHub DEF GapInv
<1>1. ASSUME NEW s \in Sessions, BeginRuntime(s) PROVE Replaying' /\ Reached' /\ Skipless'
  BY <1>1, ForgetGap DEF BeginRuntime
<1>2. ASSUME NEW s \in Sessions, NEW r \in Runtimes \cup {NoRuntime}, EndRuntime(s, r)
      PROVE  Replaying' /\ Reached' /\ Skipless'
  BY <1>2, ForgetGap DEF EndRuntime
<1>3. ASSUME NEW s \in Sessions, NEW r \in Runtimes, NEW replayable \in BOOLEAN,
             Emit(s, r, replayable)
      PROVE  Replaying' /\ Reached' /\ Skipless'
  BY <1>3, EmitGap
<1>4. ASSUME NEW c \in Clients, ClientStep(c) PROVE Replaying' /\ Reached' /\ Skipless'
  BY <1>4, HandshakeGap, ReplayGap, DeliverGap, HangupGap DEF ClientStep
<1>5. ASSUME NEW c \in Clients, Disconnect(c) PROVE Replaying' /\ Reached' /\ Skipless'
  BY <1>5, HangupGap
<1>6. CASE RestartDaemon  BY <1>6, RestartGap
<1>7. CASE UNCHANGED vars
  <2>1. Replaying /\ Reached /\ Skipless  BY DEF GapInv
  <2>2. UNCHANGED <<epoch, journal, emitted, phase, queue, lock, cursor, log, cut>>
    BY <1>7 DEF vars
  <2>3. Replaying'  BY <2>1, <2>2 DEF Replaying, Key
  <2>4. Reached'  BY <2>1, <2>2 DEF Reached, Key
  <2>5. Skipless'
    BY <2>1, <2>2 DEF Skipless, NotPassed, NotOvertaken, Ahead, Given, Attends, Key
  <2> QED  BY <2>3, <2>4, <2>5
<1> QED  BY <1>1, <1>2, <1>3, <1>4, <1>5, <1>6, <1>7 DEF Next

\* A cursor that has passed a journaled event was given it, whatever was
\* kicked, replayed and resumed, and however small journal and queue are,
\* unless a full queue cut the replay of that journal short.
THEOREM NoGap == Spec => []NoSilentGap
<1>1. Init => GapInv  BY InitHub, InitGap DEF GapInv
<1>2. GapInv => NoSilentGap
  <2> SUFFICES ASSUME GapInv, NEW c \in Clients, NEW k \in Keys, NEW i \in DOMAIN journal[k],
                      cursor[c][k].epoch = journal[k][i].epoch,
                      journal[k][i].seq <= cursor[c][k].seq, <<c, k>> \notin cut
               PROVE  journal[k][i] \in Delivered(c)
    BY DEF NoSilentGap
  <2>1. journal[k][i].epoch = epoch  BY DEF GapInv, HubInv, Journals
  <2>2. Given(log[c], journal[k][i])  BY <2>1 DEF GapInv, Skipless, NotPassed
  <2> QED  BY <2>2 DEF Given, Delivered
<1> QED  BY <1>1, <1>2, NextGap, PTL DEF Spec
=============================================================================
