-------------------------- MODULE SupervisorProofs --------------------------
(***************************************************************************)
(* Proofs about what the daemon supervisor hands over.  SessionHandoff,    *)
(* for any number of events, connections and daemon processes: the type    *)
(* invariant, that the desktop gets each event once and in order, that no  *)
(* event a cursor has passed is just gone, and that an exit is reported    *)
(* only when there was one.  SettingsWriter, in the second half, for any   *)
(* number of documents, queued updates and losses: the type invariant,     *)
(* that the supervisor's memory of what is persisted is true of a managed  *)
(* daemon, and that no update is forgotten between the UI thread and the   *)
(* writer.                                                                 *)
(***************************************************************************)
EXTENDS SessionHandoff, SettingsWriter, SequenceTheorems, TLAPS

Early == {"registering", "subscribing"}
Ascending(q) == \A i, j \in DOMAIN q : i < j => q[i] < q[j]
Below(q, n) == \A i \in DOMAIN q : q[i] <= n
Above(q, n) == \A i \in DOMAIN q : q[i] > n

Types == TypeOK /\ (~up => process < MaxProcesses)

\* Connections are opened one after the other, and only the last one can talk to
\* the present daemon.
Born ==
    /\ client <= target /\ candidate <= target
    /\ \A c \in Connections :
        /\ life[c] = "unborn" <=> c > target
        /\ c > target => cursor[c] = 0 /\ buffer[c] = <<>>
        /\ c <= target => owner[c] \in 1..process
        /\ c # target /\ life[c] = "open" => owner[c] < process

\* The adapter takes connections in the order in which they were opened, and
\* never one twice.
Succession ==
    /\ \A i \in DOMAIN updates : updates[i] <= target /\ client <= updates[i]
    /\ \A i, j \in DOMAIN updates : i < j => updates[i] <= updates[j]
    /\ pc = "attaching" =>
          client < candidate /\ \A i \in DOMAIN updates : candidate <= updates[i]

\* A connection to the first daemon starts where the one before it stopped.
Resumed ==
    \A c, d \in Connections : c < d /\ d <= target /\ owner[d] = 1 => cursor[c] <= cursor[d]

\* What a connection holds lies between the cursors of those before it and its
\* own; it holds nothing in a subscription before there is one.
Contents ==
    /\ \A c \in Connections :
        /\ Ascending(inbox[c]) /\ Below(inbox[c], cursor[c])
        /\ Ascending(buffer[c]) /\ Below(buffer[c], cursor[c])
        /\ Len(buffer[c]) <= cursor[c]
        /\ c > client \/ (c = client /\ pc \in Early) => inbox[c] = <<>> /\ sender[c] = "none"
        /\ sender[c] = "held" => buffer[c] = <<>>
    /\ \A c, d \in Connections :
        c < d => Above(inbox[d], cursor[c]) /\ Above(buffer[d], cursor[c])

\* What the desktop got was on its connection, or on an earlier one, and lies
\* below what its subscription still holds.
Given ==
    /\ Ascending(forwarded)
    /\ \A i \in DOMAIN forwarded : \E c \in Connections :
          c <= client /\ (pc \in Early => c < client) /\ forwarded[i] <= cursor[c]
    /\ pc = "forwarding" =>
          \A i \in DOMAIN forwarded : Above(inbox[client], forwarded[i])

HandoffInv == Types /\ Born /\ Succession /\ Resumed /\ Contents /\ Given

----------------------------------------------------------------------------
(* Sequences *)

LEMMA Appended ==
    ASSUME NEW S, NEW q \in Seq(S), NEW n \in S
    PROVE  /\ Append(q, n) \in Seq(S) /\ Len(Append(q, n)) = Len(q) + 1
           /\ DOMAIN Append(q, n) = 1..(Len(q) + 1) /\ DOMAIN q = 1..Len(q)
           /\ \A i \in 1..Len(q) : Append(q, n)[i] = q[i]
           /\ Append(q, n)[Len(q) + 1] = n
OBVIOUS

LEMMA Shortened ==
    ASSUME NEW S, NEW q \in Seq(S), q # <<>>
    PROVE  /\ Tail(q) \in Seq(S) /\ Len(Tail(q)) = Len(q) - 1
           /\ DOMAIN Tail(q) = 1..(Len(q) - 1) /\ DOMAIN q = 1..Len(q) /\ Len(q) > 0
           /\ \A i \in 1..(Len(q) - 1) : Tail(q)[i] = q[i + 1]
           /\ Head(q) = q[1] /\ Head(q) \in S
OBVIOUS

LEMMA Constants ==
    /\ ReplayCursor \in Nat /\ MaxSeq \in Nat /\ BufferCap \in Nat \ {0}
    /\ MaxProcesses \in Nat \ {0} /\ MaxDrops \in Nat /\ MaxTimeouts \in Nat
    /\ Locals \subseteq BOOLEAN /\ ReplayCursor <= MaxSeq
BY ConstantsAssumption

\* An event above all of a sequence, appended to it.
LEMMA AppendAscends ==
    ASSUME NEW q \in Seq(Seqs), NEW n \in Seqs, Ascending(q), Below(q, n - 1)
    PROVE  /\ Ascending(Append(q, n)) /\ Below(Append(q, n), n)
           /\ \A m \in Nat : m < n /\ Above(q, m) => Above(Append(q, n), m)
<1> DEFINE r == Append(q, n)
           k == Len(q)
<1>1. /\ DOMAIN r = 1..(k + 1) /\ DOMAIN q = 1..k /\ r[k + 1] = n /\ k \in Nat
      /\ \A i \in 1..k : r[i] = q[i] /\ q[i] \in Nat /\ q[i] <= n - 1
  BY Appended, Constants DEF Below, Seqs
<1>2. n \in Nat  BY Constants DEF Seqs
<1> HIDE DEF r, k
<1>3. Ascending(r)  BY <1>1, <1>2 DEF Ascending
<1>4. Below(r, n)  BY <1>1, <1>2 DEF Below
<1>5. \A m \in Nat : m < n /\ Above(q, m) => Above(r, m)  BY <1>1, <1>2 DEF Above
<1> QED  BY <1>3, <1>4, <1>5 DEF r

LEMMA TailAscends ==
    ASSUME NEW q \in Seq(Seqs), q # <<>>, Ascending(q), NEW n \in Nat, Below(q, n)
    PROVE  /\ Ascending(Tail(q)) /\ Below(Tail(q), n) /\ Above(Tail(q), Head(q))
           /\ \A m \in Nat : Above(q, m) => Above(Tail(q), m) /\ Head(q) > m
<1> DEFINE r == Tail(q)
           k == Len(q)
<1>1. /\ DOMAIN r = 1..(k - 1) /\ DOMAIN q = 1..k /\ k \in Nat /\ k > 0 /\ Head(q) = q[1]
      /\ \A i \in 1..(k - 1) : r[i] = q[i + 1]
  BY Shortened
<1> HIDE DEF r, k
<1>2. \A i \in 1..(k - 1) : i + 1 \in 1..k /\ 1 < i + 1 /\ 1 \in 1..k  BY <1>1
<1>3. \A i, j \in 1..(k - 1) : i < j => i + 1 < j + 1  BY <1>1
<1>4. Ascending(r)  BY <1>1, <1>2, <1>3 DEF Ascending
<1>5. Below(r, n)  BY <1>1, <1>2 DEF Below
<1>6. \A i \in 1..(k - 1) : q[1] < q[i + 1]  BY <1>1, <1>2 DEF Ascending
<1>7. \A i \in 1..k : q[i] \in Nat  BY <1>1, Constants DEF Seqs, k
<1>8. Above(r, Head(q))  BY <1>1, <1>2, <1>6, <1>7 DEF Above
<1>9. \A m \in Nat : Above(q, m) => Above(r, m) /\ Head(q) > m  BY <1>1, <1>2 DEF Above
<1> QED  BY <1>4, <1>5, <1>8, <1>9 DEF r

LEMMA BufferedAscends ==
    ASSUME NEW q \in Seq(Seqs), NEW n \in Seqs, Ascending(q), Below(q, n - 1),
           Len(q) <= BufferCap, Len(q) <= n - 1
    PROVE  /\ Buffered(q, n) \in Seq(Seqs) /\ Len(Buffered(q, n)) <= BufferCap
           /\ Len(Buffered(q, n)) <= n
           /\ Ascending(Buffered(q, n)) /\ Below(Buffered(q, n), n)
           /\ \A m \in Nat : m < n /\ Above(q, m) => Above(Buffered(q, n), m)
<1>0. n \in Nat /\ n - 1 \in Nat /\ Len(q) \in Nat  BY Constants DEF Seqs
<1>1. CASE Len(q) < BufferCap
  <2>1. Buffered(q, n) = Append(q, n)  BY <1>1 DEF Buffered
  <2>2. Len(Append(q, n)) = Len(q) + 1 /\ Append(q, n) \in Seq(Seqs)  BY Appended
  <2>3. Len(Append(q, n)) <= BufferCap /\ Len(Append(q, n)) <= n
    BY <1>0, <1>1, <2>2, Constants
  <2> QED  BY <2>1, <2>2, <2>3, AppendAscends
<1>2. CASE ~(Len(q) < BufferCap)
  <2>1. q # <<>>  BY <1>0, <1>2, Constants
  <2>2. Tail(q) \in Seq(Seqs) /\ Len(Tail(q)) = Len(q) - 1  BY <2>1, Shortened
  <2>3. /\ Ascending(Tail(q)) /\ Below(Tail(q), n - 1)
        /\ \A m \in Nat : Above(q, m) => Above(Tail(q), m)
    BY <1>0, <2>1, TailAscends
  <2>4. Buffered(q, n) = Append(Tail(q), n)  BY <1>2 DEF Buffered
  <2>5. Append(Tail(q), n) \in Seq(Seqs) /\ Len(Append(Tail(q), n)) = Len(Tail(q)) + 1
    BY <2>2, Appended
  <2>6. Len(Append(Tail(q), n)) <= BufferCap /\ Len(Append(Tail(q), n)) <= n
    BY <1>0, <2>2, <2>5
  <2>7. /\ Ascending(Append(Tail(q), n)) /\ Below(Append(Tail(q), n), n)
        /\ \A m \in Nat : m < n /\ Above(Tail(q), m) => Above(Append(Tail(q), n), m)
    BY <2>2, <2>3, AppendAscends
  <2> QED  BY <2>3, <2>4, <2>5, <2>6, <2>7
<1> QED  BY <1>1, <1>2

----------------------------------------------------------------------------
LEMMA InitHandoff == Init => HandoffInv
<1> SUFFICES ASSUME Init PROVE HandoffInv  OBVIOUS
<1>1. 1 \in Connections /\ 0 \in 0..MaxSeq  BY Constants DEF Connections
<1>2. Types
  <2>1. /\ <<>> \in Seq(Seqs) /\ <<>> \in Seq(Connections) /\ Len(<<>>) = 0
        /\ 1 \in 1..MaxProcesses /\ 0 \in 0..MaxProcesses /\ 0 <= BufferCap
        /\ 0 \in 0..MaxDrops /\ 0 \in 0..MaxTimeouts /\ ReplayCursor \in 0..MaxSeq
    BY Constants
  <2>2. /\ process \in 1..MaxProcesses /\ up \in BOOLEAN
        /\ emitted \in 0..MaxSeq /\ exited \in BOOLEAN
        /\ cursor \in [Connections -> 0..MaxSeq]
    BY <1>1, <2>1 DEF Init
  <2>6. /\ life \in [Connections -> {"unborn", "open", "closing", "dead"}]
        /\ owner \in [Connections -> 0..MaxProcesses]
    BY <2>1 DEF Init
  <2>3. /\ buffer \in [Connections -> Seq(Seqs)] /\ inbox \in [Connections -> Seq(Seqs)]
        /\ \A c \in Connections : Len(buffer[c]) <= BufferCap
    BY <2>1 DEF Init
  <2>4. /\ sender \in [Connections -> {"none", "held", "dropped"}]
        /\ local \in Locals /\ target \in Connections /\ monitor \in {"idle", "publishing"}
        /\ updates \in Seq(Connections)
        /\ pc \in {"registering", "subscribing", "forwarding", "waiting", "attaching", "ended"}
        /\ client \in Connections /\ candidate \in Connections
        /\ forwarded \in Seq(Seqs) /\ reported \in BOOLEAN
        /\ missed \subseteq Connections /\ overrun \subseteq Seqs
        /\ drops \in 0..MaxDrops /\ timeouts \in 0..MaxTimeouts
    BY <1>1, <2>1 DEF Init
  <2>5. up  BY DEF Init
  <2> QED  BY <2>2, <2>3, <2>4, <2>5, <2>6 DEF Types, TypeOK
<1>3. Born /\ Succession /\ Resumed
  BY <1>1, Constants DEF Init, Born, Succession, Resumed, Connections
<1>4. Contents /\ Given
  BY <1>1, Constants DEF Init, Contents, Given, Ascending, Below, Above, Early, Connections
<1> QED  BY <1>2, <1>3, <1>4 DEF HandoffInv

\* The conjuncts depend on few variables each.
LEMMA Unmoved ==
    ASSUME HandoffInv
    PROVE  /\ UNCHANGED <<process, target, client, candidate, life, cursor, buffer, owner>> => Born'
           /\ UNCHANGED <<target, client, candidate, updates, pc>> => Succession'
           /\ UNCHANGED <<target, owner, cursor>> => Resumed'
           /\ UNCHANGED <<client, pc, cursor, inbox, buffer, sender>> => Contents'
           /\ UNCHANGED <<client, pc, cursor, inbox, forwarded>> => Given'
BY DEF HandoffInv, Born, Succession, Resumed, Contents, Given

LEMMA Naturals ==
    ASSUME HandoffInv
    PROVE  /\ process \in Nat /\ emitted \in Nat /\ target \in Nat /\ client \in Nat
           /\ Connections \subseteq Nat /\ Seqs \subseteq Nat
           /\ \A c \in Connections : cursor[c] \in Nat /\ owner[c] \in Nat
           /\ \A c \in Connections : inbox[c] \in Seq(Seqs) /\ buffer[c] \in Seq(Seqs)
           /\ forwarded \in Seq(Seqs) /\ updates \in Seq(Connections)
           /\ \A i \in DOMAIN forwarded : forwarded[i] \in Seqs
           /\ \A i \in DOMAIN updates : updates[i] \in Connections
<1>1. Connections \subseteq Nat /\ Seqs \subseteq Nat  BY Constants DEF Connections, Seqs
<1>2. /\ process \in Nat /\ emitted \in Nat /\ target \in Nat /\ client \in Nat
      /\ \A c \in Connections : cursor[c] \in Nat /\ owner[c] \in Nat
  BY <1>1, Constants DEF HandoffInv, Types, TypeOK
<1>3. /\ \A c \in Connections : inbox[c] \in Seq(Seqs) /\ buffer[c] \in Seq(Seqs)
      /\ forwarded \in Seq(Seqs) /\ updates \in Seq(Connections)
  BY DEF HandoffInv, Types, TypeOK
<1>4. /\ \A i \in DOMAIN forwarded : forwarded[i] \in Seqs
      /\ \A i \in DOMAIN updates : updates[i] \in Connections
  BY <1>3
<1> QED  BY <1>1, <1>2, <1>3, <1>4

----------------------------------------------------------------------------
(* The daemon and the socket threads *)

LEMMA DaemonKeeps ==
    ASSUME HandoffInv, (\E last \in BOOLEAN : Emit(last)) \/ StopDaemon \/ RestartService
    PROVE  HandoffInv'
<1> USE DEF connectionVars, supervisorVars, adapterVars
<1>1. CASE \E last \in BOOLEAN : Emit(last)
  <2>1. Types'  BY <1>1, Constants, SMTT(30) DEF Emit, HandoffInv, Types, TypeOK
  <2> QED  BY <1>1, <2>1, Unmoved DEF Emit, HandoffInv
<1>2. CASE StopDaemon
  <2>1. Types'  BY <1>2, Constants DEF StopDaemon, HandoffInv, Types, TypeOK
  <2> QED  BY <1>2, <2>1, Unmoved DEF StopDaemon, HandoffInv
<1>3. CASE RestartService
  <2>1. Types'  BY <1>3, Constants, SMTT(30) DEF RestartService, HandoffInv, Types, TypeOK
  <2>2. Born'  BY <1>3, Naturals DEF RestartService, HandoffInv, Born
  <2> QED  BY <1>3, <2>1, <2>2, Unmoved DEF RestartService, HandoffInv
<1> QED  BY <1>1, <1>2, <1>3

LEMMA LossKeeps ==
    ASSUME HandoffInv, NEW c \in Connections, LoseDaemon(c) \/ Drop(c) \/ DropSubscriptions(c)
    PROVE  HandoffInv'
<1> USE DEF daemonVars, supervisorVars, adapterVars
<1>1. CASE LoseDaemon(c) \/ Drop(c)
  <2>1. /\ life' = [life EXCEPT ![c] = "closing"] /\ life[c] = "open"
        /\ UNCHANGED <<daemonVars, owner, cursor, buffer, overrun, sender, inbox, supervisorVars,
                       adapterVars, timeouts>>
    BY <1>1 DEF LoseDaemon, Drop, Lose
  <2>4. drops' \in 0..MaxDrops
    <3>1. drops' = drops \/ (drops < MaxDrops /\ drops' = drops + 1)
      BY <1>1 DEF LoseDaemon, Drop
    <3>2. drops \in 0..MaxDrops  BY DEF HandoffInv, Types, TypeOK
    <3> QED  BY <3>1, <3>2, Constants
  <2>2. Types'  BY <2>1, <2>4 DEF HandoffInv, Types, TypeOK
  <2>3. Born'  BY <2>1 DEF HandoffInv, Types, TypeOK, Born
  <2> QED  BY <2>1, <2>2, <2>3, Unmoved DEF HandoffInv
<1>2. CASE DropSubscriptions(c)
  <2>1. Types'  BY <1>2 DEF DropSubscriptions, HandoffInv, Types, TypeOK
  <2>2. Born'  BY <1>2 DEF DropSubscriptions, HandoffInv, Types, TypeOK, Born
  <2>3. Contents'  BY <1>2 DEF DropSubscriptions, HandoffInv, Types, TypeOK, Contents
  <2> QED  BY <1>2, <2>1, <2>2, <2>3, Unmoved DEF DropSubscriptions, HandoffInv
<1> QED  BY <1>1, <1>2

\* An event comes through the supervisor's connection, above all cursors.
LEMMA DeliverKeeps == ASSUME HandoffInv, NEW c \in Connections, Deliver(c) PROVE HandoffInv'
<1> DEFINE n == cursor[c] + 1
<1>1. c = target /\ owner[c] = 1 /\ n \in Seqs /\ n \in 0..MaxSeq /\ n \in Nat
  <2>1. c = target  BY Naturals DEF Deliver, HandoffInv, Born
  <2>2. owner[c] = 1  BY DEF Deliver, Held
  <2>3. cursor[c] < emitted  BY DEF Deliver
  <2>4. emitted \in 0..MaxSeq /\ cursor[c] \in 0..MaxSeq  BY DEF HandoffInv, Types, TypeOK
  <2> QED  BY <2>1, <2>2, <2>3, <2>4, Constants DEF Seqs
<1>2. /\ cursor' = [cursor EXCEPT ![c] = n]
      /\ UNCHANGED <<daemonVars, life, owner, sender, supervisorVars, adapterVars, drops, timeouts>>
  BY DEF Deliver
<1>3. /\ cursor'[c] = n /\ \A d \in Connections : d # c => cursor'[d] = cursor[d]
      /\ cursor' \in [Connections -> 0..MaxSeq]
  BY <1>1, <1>2 DEF HandoffInv, Types, TypeOK
<1>4. /\ inbox[c] \in Seq(Seqs) /\ buffer[c] \in Seq(Seqs) /\ Len(buffer[c]) <= BufferCap
      /\ Ascending(inbox[c]) /\ Below(inbox[c], n - 1) /\ Ascending(buffer[c])
      /\ Below(buffer[c], n - 1) /\ Len(buffer[c]) <= n - 1
  <2>1. n - 1 = cursor[c]  BY Naturals
  <2> QED  BY <2>1, Naturals DEF HandoffInv, Types, TypeOK, Contents
\* The connection's lists after the step.
<1>5. /\ inbox' \in [Connections -> Seq(Seqs)] /\ buffer' \in [Connections -> Seq(Seqs)]
      /\ \A d \in Connections : d # c => inbox'[d] = inbox[d] /\ buffer'[d] = buffer[d]
      /\ Ascending(inbox'[c]) /\ Below(inbox'[c], n) /\ Ascending(buffer'[c])
      /\ Below(buffer'[c], n) /\ Len(buffer'[c]) <= n /\ Len(buffer'[c]) <= BufferCap
      /\ \A m \in Nat : m < n /\ Above(inbox[c], m) => Above(inbox'[c], m)
      /\ \A m \in Nat : m < n /\ Above(buffer[c], m) => Above(buffer'[c], m)
      /\ sender[c] # "held" => inbox'[c] = inbox[c]
      /\ sender[c] = "held" => buffer'[c] = buffer[c]
  <2>1. CASE sender[c] = "held"
    <3>1. inbox' = [inbox EXCEPT ![c] = Append(@, n)] /\ buffer' = buffer
      BY <2>1 DEF Deliver
    <3>2. Append(inbox[c], n) \in Seq(Seqs)  BY <1>1, <1>4, Appended
    <3>3. /\ inbox'[c] = Append(inbox[c], n) /\ inbox' \in [Connections -> Seq(Seqs)]
          /\ \A d \in Connections : d # c => inbox'[d] = inbox[d]
      BY <3>1, <3>2 DEF HandoffInv, Types, TypeOK
    <3>4. /\ Ascending(inbox'[c]) /\ Below(inbox'[c], n)
          /\ \A m \in Nat : m < n /\ Above(inbox[c], m) => Above(inbox'[c], m)
      BY <1>1, <1>4, <3>3, AppendAscends
    <3>5. Below(buffer[c], n) /\ Len(buffer[c]) <= n
      BY <1>1, <1>4, Naturals, SMTT(30) DEF Below
    <3> QED  BY <1>4, <2>1, <3>1, <3>3, <3>4, <3>5 DEF HandoffInv, Types, TypeOK
  <2>2. CASE sender[c] # "held"
    <3>1. buffer' = [buffer EXCEPT ![c] = Buffered(@, n)] /\ inbox' = inbox
      BY <2>2 DEF Deliver
    <3>2. /\ Buffered(buffer[c], n) \in Seq(Seqs) /\ Len(Buffered(buffer[c], n)) <= BufferCap
          /\ Len(Buffered(buffer[c], n)) <= n
          /\ Ascending(Buffered(buffer[c], n)) /\ Below(Buffered(buffer[c], n), n)
          /\ \A m \in Nat : m < n /\ Above(buffer[c], m) => Above(Buffered(buffer[c], n), m)
      BY <1>1, <1>4, BufferedAscends
    <3>3. /\ buffer'[c] = Buffered(buffer[c], n) /\ buffer' \in [Connections -> Seq(Seqs)]
          /\ \A d \in Connections : d # c => buffer'[d] = buffer[d]
      BY <3>1, <3>2 DEF HandoffInv, Types, TypeOK
    <3>4. Below(inbox[c], n)  BY <1>1, <1>4, Naturals, SMTT(30) DEF Below
    <3> QED  BY <1>4, <2>2, <3>1, <3>2, <3>3, <3>4 DEF HandoffInv, Types, TypeOK
  <2> QED  BY <2>1, <2>2
<1>12. overrun' \subseteq Seqs
  <2>1. Elements(buffer[c]) \subseteq Seqs  BY Naturals DEF Elements
  <2>2. overrun \subseteq Seqs  BY DEF HandoffInv, Types, TypeOK
  <2>3. overrun' = overrun \/ overrun' \subseteq overrun \cup Elements(buffer[c])
    BY DEF Deliver
  <2> QED  BY <2>1, <2>2, <2>3
<1> HIDE DEF n
<1>6. Types'
  BY <1>2, <1>3, <1>5, <1>12 DEF HandoffInv, Types, TypeOK, daemonVars, supervisorVars, adapterVars
<1>7. Born'
  <2>1. /\ process' = process /\ target' = target /\ client' = client /\ candidate' = candidate
        /\ life' = life /\ owner' = owner
    BY <1>2 DEF daemonVars, supervisorVars, adapterVars
  <2>2. \A d \in Connections : d > target => cursor'[d] = 0 /\ buffer'[d] = <<>>
    <3>1. \A d \in Connections : d > target => d # c  BY <1>1, Naturals
    <3>2. \A d \in Connections : d > target => cursor[d] = 0 /\ buffer[d] = <<>>
      BY DEF HandoffInv, Born
    <3> QED  BY <1>3, <1>5, <3>1, <3>2
  <2> QED  BY <2>1, <2>2 DEF HandoffInv, Born
<1>8. Resumed'
  BY <1>1, <1>2, <1>3, Naturals, SMTT(30) DEF HandoffInv, Resumed, supervisorVars, n
<1>9. Contents'
  <2>1. client \in Nat /\ client <= c  BY <1>1, Naturals DEF HandoffInv, Born
  <2>2. \A d \in Connections : d < c => cursor[d] < n
    BY <1>1, Naturals, SMTT(30) DEF HandoffInv, Resumed, n
  <2>3. \A d \in Connections : c < d => inbox[d] = <<>> /\ buffer[d] = <<>>
    BY <1>1, <2>1, Naturals DEF HandoffInv, Born, Contents
  <2>4. \A d \in Connections :
          /\ Ascending(inbox'[d]) /\ Below(inbox'[d], cursor'[d])
          /\ Ascending(buffer'[d]) /\ Below(buffer'[d], cursor'[d])
          /\ Len(buffer'[d]) <= cursor'[d]
    BY <1>3, <1>5 DEF HandoffInv, Contents
  <2>5. \A d \in Connections :
          /\ d > client \/ (d = client /\ pc \in Early) => inbox'[d] = <<>> /\ sender[d] = "none"
          /\ sender[d] = "held" => buffer'[d] = <<>>
    BY <1>5 DEF HandoffInv, Contents
  <2>6. \A d, e \in Connections :
          d < e => Above(inbox'[e], cursor'[d]) /\ Above(buffer'[e], cursor'[d])
    <3> SUFFICES ASSUME NEW d \in Connections, NEW e \in Connections, d < e
                 PROVE  Above(inbox'[e], cursor'[d]) /\ Above(buffer'[e], cursor'[d])
      OBVIOUS
    <3>1. Above(inbox[e], cursor[d]) /\ Above(buffer[e], cursor[d])  BY DEF HandoffInv, Contents
    <3>2. CASE e = c
      <4>1. cursor'[d] = cursor[d] /\ cursor[d] \in Nat /\ cursor[d] < n
        BY <1>3, <2>2, <3>2, Naturals
      <4> QED  BY <1>5, <3>1, <3>2, <4>1
    <3>3. CASE d = c
      <4>1. e # c /\ inbox[e] = <<>> /\ buffer[e] = <<>>  BY <2>3, <3>3, Naturals
      <4>2. inbox'[e] = <<>> /\ buffer'[e] = <<>>  BY <1>5, <4>1
      <4> QED  BY <4>2 DEF Above
    <3> QED  BY <1>3, <1>5, <3>1, <3>2, <3>3
  <2> QED  BY <1>2, <2>4, <2>5, <2>6 DEF Contents, adapterVars
<1>10. Given'
  <2>1. \A d \in Connections : cursor[d] <= cursor'[d]
    <3>1. cursor[c] <= n  BY Naturals DEF n
    <3>2. \A d \in Connections : cursor[d] <= cursor[d]  BY Naturals
    <3> QED  BY <1>3, <3>1, <3>2
  <2>2. \A i \in DOMAIN forwarded : \E d \in Connections :
          d <= client /\ (pc \in Early => d < client) /\ forwarded[i] <= cursor'[d]
    <3> SUFFICES ASSUME NEW i \in DOMAIN forwarded
                 PROVE  \E d \in Connections :
                          d <= client /\ (pc \in Early => d < client) /\ forwarded[i] <= cursor'[d]
      OBVIOUS
    <3>1. PICK d \in Connections :
             d <= client /\ (pc \in Early => d < client) /\ forwarded[i] <= cursor[d]
      BY DEF HandoffInv, Given
    <3>2. forwarded[i] <= cursor'[d]  BY <1>3, <2>1, <3>1, Naturals
    <3> QED  BY <3>1, <3>2
  <2>3. ASSUME pc = "forwarding", NEW i \in DOMAIN forwarded
        PROVE  Above(inbox'[client], forwarded[i])
    <3>1. Above(inbox[client], forwarded[i])  BY <2>3 DEF HandoffInv, Given
    <3>2. PICK d \in Connections : d <= client /\ forwarded[i] <= cursor[d]
      BY <2>3 DEF HandoffInv, Given
    <3>3. CASE client = c
      <4>1. cursor[d] <= cursor[c]
        BY <1>1, <3>2, <3>3, Naturals, SMTT(30) DEF HandoffInv, Resumed
      <4>2. forwarded[i] \in Nat /\ forwarded[i] < n
        BY <1>1, <3>2, <4>1, Naturals DEF n
      <4> QED  BY <1>5, <3>1, <3>3, <4>2
    <3>4. CASE client # c  BY <1>5, <3>1, <3>4 DEF HandoffInv, Types, TypeOK
    <3> QED  BY <3>3, <3>4
  <2> QED  BY <1>2, <2>2, <2>3 DEF HandoffInv, Given, adapterVars
<1>11. Succession'  BY <1>2, Unmoved DEF adapterVars, supervisorVars
<1> QED  BY <1>6, <1>7, <1>8, <1>9, <1>10, <1>11 DEF HandoffInv

----------------------------------------------------------------------------
(* The supervisor *)

\* A replacement holds nothing yet, and starts from a cursor that none before
\* it has passed, if it talks to the first daemon.
LEMMA ReplaceKeeps ==
    ASSUME HandoffInv, NEW c \in Connections, NEW n \in 0..MaxSeq, Replace(c, n),
           process' \in 1..MaxProcesses, process <= process', up',
           life[target] = "open" => process < process',
           process' = 1 => \A d \in Connections : d <= target => cursor[d] <= n
    PROVE  HandoffInv'
<1>1. c = target + 1 /\ life[c] = "unborn"
  <2>1. c > target /\ \A d \in Connections : d < c => d <= target
    <3>1. \A d \in Connections : life[d] = "unborn" <=> d > target  BY DEF HandoffInv, Born
    <3>2. \A d \in Connections : ~(d > target) => d <= target  BY Naturals
    <3> QED  BY <3>1, <3>2 DEF Replace
  <2>2. target + 1 \in Connections  BY <2>1, Constants, Naturals DEF Connections
  <2>3. life[c] = "unborn"  BY DEF Replace
  <2>4. ~(target + 1 < c)  BY <2>1, <2>2, Naturals
  <2> QED  BY <2>1, <2>2, <2>3, <2>4, Naturals
<1>2. /\ life' = [life EXCEPT ![c] = "open"] /\ owner' = [owner EXCEPT ![c] = process']
      /\ cursor' = [cursor EXCEPT ![c] = n] /\ target' = c /\ monitor' = "publishing"
      /\ UNCHANGED <<emitted, exited, buffer, overrun, sender, inbox, local, updates, pc, client,
                     candidate, forwarded, reported, drops, timeouts>>
      /\ missed' \subseteq missed \cup {target}
  BY DEF Replace
<1>3. /\ cursor'[c] = n /\ owner'[c] = process' /\ life'[c] = "open"
      /\ \A d \in Connections :
            d # c => cursor'[d] = cursor[d] /\ owner'[d] = owner[d] /\ life'[d] = life[d]
  BY <1>2 DEF HandoffInv, Types, TypeOK
<1>4. Types'
  <2>1. life' \in [Connections -> {"unborn", "open", "closing", "dead"}]
    BY <1>2 DEF HandoffInv, Types, TypeOK
  <2>2. owner' \in [Connections -> 0..MaxProcesses]
    <3>1. process' \in 0..MaxProcesses  BY Constants
    <3> QED  BY <1>2, <3>1 DEF HandoffInv, Types, TypeOK
  <2>3. cursor' \in [Connections -> 0..MaxSeq]
    BY <1>2 DEF HandoffInv, Types, TypeOK
  <2> QED  BY <1>2, <2>1, <2>2, <2>3 DEF HandoffInv, Types, TypeOK
<1>5. Born'
  <2>1. client' <= target' /\ candidate' <= target'
    BY <1>1, <1>2, Naturals DEF HandoffInv, Born, Types, TypeOK, Connections
  <2> SUFFICES ASSUME NEW d \in Connections
               PROVE  /\ life'[d] = "unborn" <=> d > target'
                      /\ d > target' => cursor'[d] = 0 /\ buffer'[d] = <<>>
                      /\ d <= target' => owner'[d] \in 1..process'
                      /\ d # target' /\ life'[d] = "open" => owner'[d] < process'
    BY <2>1 DEF Born
  <2>2. CASE d = c  BY <1>1, <1>2, <1>3, <2>2, Naturals
  <2>3. CASE d # c
    <3>1. d > target' <=> d > target  BY <1>1, <1>2, <2>3, Naturals
    <3>2. d <= target' <=> d <= target  BY <1>1, <1>2, <2>3, Naturals
    <3>3. d <= target => owner[d] \in 1..process'
      BY Naturals DEF HandoffInv, Born
    <3>4. life[d] = "open" => owner[d] < process'
      <4>1. CASE d = target  BY <3>3, <4>1, Naturals DEF HandoffInv, Born
      <4>2. CASE d # target  BY <4>2, Naturals DEF HandoffInv, Born
      <4> QED  BY <4>1, <4>2
    <3> QED  BY <1>2, <1>3, <2>3, <3>1, <3>2, <3>3, <3>4 DEF HandoffInv, Born
  <2> QED  BY <2>2, <2>3
<1>6. Succession'
  <2>1. \A i \in DOMAIN updates : updates[i] <= target'
    <3>1. \A i \in DOMAIN updates : updates[i] <= target /\ updates[i] \in Nat
      BY Naturals DEF HandoffInv, Succession
    <3> QED  BY <1>1, <1>2, <3>1, Naturals
  <2> QED  BY <1>2, <2>1 DEF HandoffInv, Succession
<1>7. Resumed'
  <2> SUFFICES ASSUME NEW d \in Connections, NEW e \in Connections, d < e, e <= target',
                      owner'[e] = 1
               PROVE  cursor'[d] <= cursor'[e]
    BY DEF Resumed
  <2>1. d # c /\ d <= target  BY <1>1, <1>2, Naturals
  <2>2. CASE e = c  BY <1>3, <2>1, <2>2
  <2>3. CASE e # c  BY <1>1, <1>2, <1>3, <2>1, <2>3, Naturals DEF HandoffInv, Resumed
  <2> QED  BY <2>2, <2>3
<1>8. \A d \in Connections : d >= c => inbox[d] = <<>> /\ buffer[d] = <<>>
  BY <1>1, Naturals DEF HandoffInv, Born, Contents
<1>9. Contents'
  <2>1. ASSUME NEW d \in Connections, NEW e \in Connections, d < e
        PROVE  Above(inbox'[e], cursor'[d]) /\ Above(buffer'[e], cursor'[d])
    <3>1. CASE d = c
      <4>1. inbox'[e] = <<>> /\ buffer'[e] = <<>>  BY <1>2, <1>8, <2>1, <3>1, Naturals
      <4> QED  BY <4>1 DEF Above
    <3>2. CASE d # c  BY <1>2, <1>3, <2>1, <3>2 DEF HandoffInv, Contents
    <3> QED  BY <3>1, <3>2
  <2>2. ASSUME NEW d \in Connections
        PROVE  /\ Ascending(inbox'[d]) /\ Below(inbox'[d], cursor'[d])
               /\ Ascending(buffer'[d]) /\ Below(buffer'[d], cursor'[d])
               /\ Len(buffer'[d]) <= cursor'[d]
    <3>1. CASE d = c
      <4>1. inbox'[d] = <<>> /\ buffer'[d] = <<>> /\ n \in Nat
        BY <1>2, <1>8, <3>1, Naturals, Constants
      <4> QED  BY <1>3, <3>1, <4>1 DEF Ascending, Below
    <3>2. CASE d # c  BY <1>2, <1>3, <3>2 DEF HandoffInv, Contents
    <3> QED  BY <3>1, <3>2
  <2>3. \A d \in Connections :
          /\ d > client' \/ (d = client' /\ pc' \in Early) => inbox'[d] = <<>> /\ sender'[d] = "none"
          /\ sender'[d] = "held" => buffer'[d] = <<>>
    BY <1>2 DEF HandoffInv, Contents
  <2> QED  BY <2>1, <2>2, <2>3 DEF Contents
<1>10. Given'
  <2>1. client # c /\ \A d \in Connections : d <= client => d # c
    BY <1>1, Naturals DEF HandoffInv, Born
  <2>2. \A i \in DOMAIN forwarded : \E d \in Connections :
          d <= client /\ (pc \in Early => d < client) /\ forwarded[i] <= cursor'[d]
    BY <1>3, <2>1 DEF HandoffInv, Given
  <2> QED  BY <1>2, <2>2 DEF HandoffInv, Given
<1> QED  BY <1>4, <1>5, <1>6, <1>7, <1>9, <1>10 DEF HandoffInv

LEMMA MonitorKeeps == ASSUME HandoffInv, MonitorStep PROVE HandoffInv'
<1>1. CASE Publish
  <2>1. /\ monitor' = "idle"
        /\ updates' = updates \/ updates' = Append(updates, target)
        /\ UNCHANGED <<daemonVars, connectionVars, local, target, adapterVars, drops, timeouts>>
    BY <1>1 DEF Publish
  <2>0. updates \in Seq(Connections) /\ target \in Connections
    BY DEF HandoffInv, Types, TypeOK
  <2>2. updates' \in Seq(Connections)  BY <2>0, <2>1
  <2>3. Types'
    BY <2>1, <2>2 DEF HandoffInv, Types, TypeOK, daemonVars, connectionVars, adapterVars
  <2>4. Succession'
    <3>1. CASE updates' = updates
      BY <2>1, <3>1, Unmoved DEF adapterVars
    <3>2. CASE updates' = Append(updates, target)
      <4>1. /\ DOMAIN updates' = 1..(Len(updates) + 1) /\ DOMAIN updates = 1..Len(updates)
            /\ updates'[Len(updates) + 1] = target /\ Len(updates) \in Nat
            /\ \A i \in 1..Len(updates) : updates'[i] = updates[i]
        BY <2>0, <3>2, Appended
      <4>2. client <= target /\ candidate <= target /\ target <= target
        BY Naturals DEF HandoffInv, Born
      <4>3. \A i \in DOMAIN updates' : i \in DOMAIN updates \/ i = Len(updates) + 1
        BY <4>1
      <4>4. \A i \in DOMAIN updates' : updates'[i] <= target /\ client <= updates'[i]
        BY <4>1, <4>2, <4>3 DEF HandoffInv, Succession
      <4>5. \A i, j \in DOMAIN updates' : i < j => updates'[i] <= updates'[j]
        BY <4>1, <4>2, <4>3, <4>4 DEF HandoffInv, Succession
      <4>6. pc = "attaching" =>
              client < candidate /\ \A i \in DOMAIN updates' : candidate <= updates'[i]
        BY <4>1, <4>2, <4>3 DEF HandoffInv, Succession
      <4> QED  BY <2>1, <4>4, <4>5, <4>6 DEF Succession, adapterVars
    <3> QED  BY <2>1, <3>1, <3>2
  <2> QED  BY <2>1, <2>3, <2>4, Unmoved DEF HandoffInv, daemonVars, connectionVars, adapterVars
<1>2. CASE \E c \in Connections : Reconnect(c)
  <2>1. PICK c \in Connections : Reconnect(c)  BY <1>2
  <2>2. cursor[target] \in 0..MaxSeq /\ process \in 1..MaxProcesses
    BY DEF HandoffInv, Types, TypeOK
  <2>3. life[target] # "open"  BY <2>1 DEF Reconnect, Disconnected
  <2>4. ASSUME process = 1, NEW d \in Connections, d <= target PROVE cursor[d] <= cursor[target]
    <3>1. target \in Connections  BY DEF HandoffInv, Types, TypeOK
    <3>2. owner[target] \in 1..process /\ target <= target
      BY <3>1, Naturals DEF HandoffInv, Born
    <3>3. CASE d = target  BY <3>3, Naturals
    <3>4. CASE d # target
      <4>1. d < target /\ owner[target] = 1  BY <2>4, <3>1, <3>2, <3>4, Naturals
      <4> QED  BY <3>1, <3>2, <4>1 DEF HandoffInv, Resumed
    <3> QED  BY <3>3, <3>4
  <2> QED  BY <2>1, <2>2, <2>3, <2>4, Naturals, ReplaceKeeps, SMTT(30) DEF Reconnect, ResumeFrom
<1>3. CASE \E c \in Connections : Respawn(c)
  <2>1. PICK c \in Connections : Respawn(c)  BY <1>3
  <2>2. process' = process + 1 /\ up' /\ Replace(c, 0) /\ ~up  BY <2>1 DEF Respawn
  <2>3. process \in 1..MaxProcesses /\ process < MaxProcesses
    BY <2>2 DEF HandoffInv, Types, TypeOK
  <2>4. /\ process' \in 1..MaxProcesses /\ process' # 1 /\ process < process'
        /\ process <= process' /\ 0 \in 0..MaxSeq
    BY <2>2, <2>3, Constants
  <2> QED  BY <2>2, <2>4, ReplaceKeeps
<1> QED  BY <1>1, <1>2, <1>3 DEF MonitorStep

----------------------------------------------------------------------------
(* The adapter *)

LEMMA RegisterKeeps == ASSUME HandoffInv, Register PROVE HandoffInv'
<1>1. /\ pc = "registering" /\ pc' = "subscribing" /\ updates' = <<target>>
      /\ UNCHANGED <<daemonVars, connectionVars, local, target, monitor, client, candidate,
                     forwarded, reported, missed, drops, timeouts>>
  BY DEF Register
<1>2. <<target>> \in Seq(Connections)
  <2>1. target \in Connections  BY DEF HandoffInv, Types, TypeOK
  <2> QED  BY <2>1
<1>3. Types'
  BY <1>1, <1>2 DEF HandoffInv, Types, TypeOK, daemonVars, connectionVars
<1>4. Succession'
  <2>1. client <= target /\ target <= target  BY Naturals DEF HandoffInv, Born
  <2>2. DOMAIN <<target>> = {1} /\ <<target>>[1] = target  OBVIOUS
  <2> QED  BY <1>1, <2>1, <2>2 DEF Succession
<1>5. Contents'  BY <1>1 DEF HandoffInv, Contents, Early, connectionVars
<1>6. Given'  BY <1>1 DEF HandoffInv, Given, Early, connectionVars
<1> QED  BY <1>1, <1>3, <1>4, <1>5, <1>6, Unmoved DEF HandoffInv, daemonVars, connectionVars

LEMMA SubscribeKeeps == ASSUME HandoffInv, Subscribe PROVE HandoffInv'
<1>1. /\ pc = "subscribing" /\ pc' = "forwarding" /\ client \in Connections
      /\ sender' = [sender EXCEPT ![client] = "held"]
      /\ inbox' = [inbox EXCEPT ![client] = buffer[client]]
      /\ buffer' = [buffer EXCEPT ![client] = <<>>]
      /\ UNCHANGED <<daemonVars, life, owner, cursor, overrun, supervisorVars, client, candidate,
                     forwarded, reported, missed, drops, timeouts>>
  BY DEF Subscribe, Drained, HandoffInv, Types, TypeOK
<1>2. buffer[client] \in Seq(Seqs) /\ <<>> \in Seq(Seqs) /\ Len(<<>>) = 0
  BY <1>1, Naturals
<1>3. /\ sender' \in [Connections -> {"none", "held", "dropped"}]
      /\ inbox' \in [Connections -> Seq(Seqs)] /\ buffer' \in [Connections -> Seq(Seqs)]
      /\ \A c \in Connections : Len(buffer'[c]) <= BufferCap
      /\ inbox'[client] = buffer[client] /\ buffer'[client] = <<>>
      /\ \A c \in Connections : c # client =>
            inbox'[c] = inbox[c] /\ buffer'[c] = buffer[c] /\ sender'[c] = sender[c]
  BY <1>1, <1>2, Constants DEF HandoffInv, Types, TypeOK
<1>4. Types'
  BY <1>1, <1>3 DEF HandoffInv, Types, TypeOK, daemonVars, supervisorVars
<1>5. Born'
  BY <1>1, <1>3 DEF HandoffInv, Born, daemonVars, supervisorVars
<1>6. Contents'
  <2>1. ASSUME NEW c \in Connections
        PROVE  /\ Ascending(inbox'[c]) /\ Below(inbox'[c], cursor[c])
               /\ Ascending(buffer'[c]) /\ Below(buffer'[c], cursor[c])
               /\ Len(buffer'[c]) <= cursor[c]
    <3>1. CASE c = client
      <4>1. Ascending(<<>>) /\ Below(<<>>, cursor[c]) /\ Len(<<>>) <= cursor[c]
        BY Naturals DEF Ascending, Below
      <4> QED  BY <1>3, <3>1, <4>1 DEF HandoffInv, Contents
    <3>2. CASE c # client  BY <1>3, <3>2 DEF HandoffInv, Contents
    <3> QED  BY <3>1, <3>2
  <2>2. \A c \in Connections :
          /\ c > client => inbox'[c] = <<>> /\ sender'[c] = "none"
          /\ sender'[c] = "held" => buffer'[c] = <<>>
    BY <1>1, <1>3, Naturals DEF HandoffInv, Contents
  <2>3. ASSUME NEW c \in Connections, NEW d \in Connections, c < d
        PROVE  Above(inbox'[d], cursor[c]) /\ Above(buffer'[d], cursor[c])
    <3>1. CASE d = client
      <4>1. Above(<<>>, cursor[c])  BY DEF Above
      <4> QED  BY <1>3, <2>3, <3>1, <4>1 DEF HandoffInv, Contents
    <3>2. CASE d # client  BY <1>3, <2>3, <3>2 DEF HandoffInv, Contents
    <3> QED  BY <3>1, <3>2
  <2> QED  BY <1>1, <2>1, <2>2, <2>3 DEF Contents, Early
<1>7. Given'
  <2>1. ASSUME NEW i \in DOMAIN forwarded
        PROVE  /\ \E c \in Connections : c <= client /\ forwarded[i] <= cursor[c]
               /\ Above(inbox'[client], forwarded[i])
    <3>1. PICK c \in Connections : c < client /\ forwarded[i] <= cursor[c]
      BY <1>1, <2>1 DEF HandoffInv, Given, Early
    <3>2. Above(buffer[client], cursor[c])  BY <1>1, <3>1 DEF HandoffInv, Contents
    <3>3. \A j \in DOMAIN buffer[client] : buffer[client][j] \in Nat
      BY <1>2, Naturals
    <3>4. forwarded[i] \in Nat /\ cursor[c] \in Nat  BY <2>1, Naturals
    <3>5. Above(buffer[client], forwarded[i])  BY <3>1, <3>2, <3>3, <3>4 DEF Above
    <3> QED  BY <1>1, <1>3, <3>1, <3>5, Naturals
  <2> QED  BY <1>1, <2>1 DEF HandoffInv, Given, Early
<1>8. Succession'  BY <1>1 DEF HandoffInv, Succession, supervisorVars
<1> QED  BY <1>1, <1>4, <1>5, <1>6, <1>7, <1>8, Unmoved
         DEF HandoffInv, daemonVars, supervisorVars

\* The subscription is given up, and nothing of it remains.
LEMMA UnsubscribeKeeps ==
    ASSUME HandoffInv, sender' = sender \/ Unsubscribe, pc' \notin Early, pc \notin Early,
           UNCHANGED <<buffer, cursor, client>>,
           inbox' \in [Connections -> Seq(Seqs)],
           \A c \in Connections : c # client => inbox'[c] = inbox[c],
           \/ inbox'[client] = inbox[client]
           \/ inbox[client] # <<>> /\ inbox'[client] = Tail(inbox[client])
    PROVE  Contents' /\ sender' \in [Connections -> {"none", "held", "dropped"}]
<1>1. client \in Connections /\ inbox[client] \in Seq(Seqs) /\ cursor[client] \in Nat
  BY Naturals DEF HandoffInv, Types, TypeOK
<1>2. /\ sender' \in [Connections -> {"none", "held", "dropped"}]
      /\ \A c \in Connections :
            sender'[c] = sender[c] \/ (c = client /\ sender'[c] = "none")
  BY <1>1 DEF Unsubscribe, HandoffInv, Types, TypeOK
<1>3. /\ Ascending(inbox'[client]) /\ Below(inbox'[client], cursor[client])
      /\ \A m \in Nat : Above(inbox[client], m) => Above(inbox'[client], m)
  <2>1. Ascending(inbox[client]) /\ Below(inbox[client], cursor[client])
    BY <1>1 DEF HandoffInv, Contents
  <2>2. CASE inbox'[client] = inbox[client]  BY <2>1, <2>2
  <2>3. CASE inbox[client] # <<>> /\ inbox'[client] = Tail(inbox[client])
    BY <1>1, <2>1, <2>3, TailAscends
  <2> QED  BY <2>2, <2>3
<1>4. \A c \in Connections :
        /\ Ascending(inbox'[c]) /\ Below(inbox'[c], cursor[c])
        /\ \A m \in Nat : Above(inbox[c], m) => Above(inbox'[c], m)
  BY <1>3 DEF HandoffInv, Contents
<1>5. \A c \in Connections :
        /\ c > client => inbox'[c] = <<>> /\ sender'[c] = "none"
        /\ sender'[c] = "held" => buffer[c] = <<>>
  BY <1>1, <1>2, Naturals DEF HandoffInv, Contents
<1>6. \A c, d \in Connections :
        c < d => Above(inbox'[d], cursor[c]) /\ Above(buffer[d], cursor[c])
  BY <1>4, Naturals DEF HandoffInv, Contents
<1>7. Contents'
  BY <1>4, <1>5, <1>6 DEF HandoffInv, Contents
<1> QED  BY <1>2, <1>7

LEMMA ForwardKeeps == ASSUME HandoffInv, Forward PROVE HandoffInv'
<1> DEFINE n == Head(inbox[client])
<1>1. /\ pc = "forwarding" /\ pc' \in {"forwarding", "ended"}
      /\ inbox[client] # <<>> /\ inbox' = [inbox EXCEPT ![client] = Tail(@)]
      /\ sender' = sender \/ Unsubscribe
      /\ forwarded' = IF n > ReplayCursor THEN Append(forwarded, n) ELSE forwarded
      /\ reported' \in BOOLEAN
      /\ UNCHANGED <<daemonVars, life, owner, cursor, buffer, overrun, supervisorVars, client,
                     candidate, missed, drops, timeouts>>
  BY DEF Forward, HandoffInv, Types, TypeOK
<1>2. client \in Connections /\ inbox[client] \in Seq(Seqs) /\ forwarded \in Seq(Seqs)
  BY Naturals DEF HandoffInv, Types, TypeOK
<1>3. /\ Tail(inbox[client]) \in Seq(Seqs) /\ n \in Seqs /\ n = inbox[client][1]
      /\ 1 \in DOMAIN inbox[client]
  BY <1>1, <1>2, Shortened
<1>4. /\ inbox' \in [Connections -> Seq(Seqs)] /\ inbox'[client] = Tail(inbox[client])
      /\ \A c \in Connections : c # client => inbox'[c] = inbox[c]
  BY <1>1, <1>2, <1>3 DEF HandoffInv, Types, TypeOK
<1>5. Contents' /\ sender' \in [Connections -> {"none", "held", "dropped"}]
  <2>1. pc \notin Early /\ pc' \notin Early  BY <1>1 DEF Early
  <2> QED  BY <1>1, <1>4, <2>1, UnsubscribeKeeps
<1>6. Append(forwarded, n) \in Seq(Seqs)  BY <1>2, <1>3, Appended
<1>7. Types'
  BY <1>1, <1>4, <1>5, <1>6 DEF HandoffInv, Types, TypeOK, daemonVars, supervisorVars
<1>8. n \in Nat /\ n <= cursor[client] /\ cursor[client] \in Nat
  BY <1>2, <1>3, Naturals DEF HandoffInv, Contents, Below
<1>9. Above(Tail(inbox[client]), n)
      /\ \A m \in Nat : Above(inbox[client], m) => Above(Tail(inbox[client]), m) /\ n > m
  BY <1>1, <1>2, <1>8, TailAscends DEF HandoffInv, Contents
<1> HIDE DEF n
<1>10. Given'
  <2>1. ASSUME NEW i \in DOMAIN forwarded
        PROVE  /\ forwarded[i] < n /\ Above(inbox'[client], forwarded[i])
               /\ \E c \in Connections : c <= client /\ forwarded[i] <= cursor[c]
    <3>1. Above(inbox[client], forwarded[i]) /\ forwarded[i] \in Nat
      BY <1>1, <2>1, Naturals DEF HandoffInv, Given
    <3>2. \E c \in Connections : c <= client /\ forwarded[i] <= cursor[c]
      BY <2>1 DEF HandoffInv, Given
    <3> QED  BY <1>4, <1>9, <3>1, <3>2
  <2>2. \A i \in DOMAIN forwarded' :
          \/ i \in DOMAIN forwarded /\ forwarded'[i] = forwarded[i]
          \/ forwarded'[i] = n /\ i = Len(forwarded) + 1 /\ DOMAIN forwarded = 1..Len(forwarded)
    BY <1>1, <1>2, <1>3, Appended
  <2>3. Ascending(forwarded')
    <3>1. Len(forwarded) \in Nat  BY <1>2
    <3> QED  BY <2>1, <2>2, <3>1 DEF HandoffInv, Given, Ascending
  <2>4. client <= client  BY <1>2, Naturals
  <2>5. \A i \in DOMAIN forwarded' : \E c \in Connections :
          c <= client /\ forwarded'[i] <= cursor[c]
    BY <1>2, <1>8, <2>1, <2>2, <2>4
  <2>6. \A i \in DOMAIN forwarded' : Above(inbox'[client], forwarded'[i])
    BY <1>4, <1>9, <2>1, <2>2
  <2> QED  BY <1>1, <2>3, <2>5, <2>6 DEF Given, Early
<1>11. Succession'
  BY <1>1 DEF HandoffInv, Succession, supervisorVars
<1> QED  BY <1>1, <1>5, <1>7, <1>10, <1>11, Unmoved DEF HandoffInv, daemonVars, supervisorVars

\* Steps that move the adapter from one wait to the next.
LEMMA MoveKeeps ==
    ASSUME HandoffInv, SeeClosed \/ TakeUpdate \/ AttachAnswered \/ AttachFails \/ CloseHandle
    PROVE  HandoffInv'
<1> USE DEF daemonVars, connectionVars, supervisorVars
<1>1. CASE SeeClosed
  <2>1. /\ pc = "forwarding" /\ pc' = "waiting" /\ Unsubscribe
        /\ UNCHANGED <<daemonVars, life, owner, cursor, buffer, overrun, inbox, supervisorVars,
                       client, candidate, forwarded, reported, missed, drops, timeouts>>
    BY <1>1 DEF SeeClosed
  <2>2. Contents' /\ sender' \in [Connections -> {"none", "held", "dropped"}]
    <3>1. inbox' \in [Connections -> Seq(Seqs)]  BY <2>1 DEF HandoffInv, Types, TypeOK
    <3> QED  BY <2>1, <3>1, UnsubscribeKeeps DEF Early
  <2>3. Types'  BY <2>1, <2>2 DEF HandoffInv, Types, TypeOK
  <2>4. Succession' /\ Given'  BY <2>1 DEF HandoffInv, Succession, Given, Early
  <2> QED  BY <2>1, <2>2, <2>3, <2>4, Unmoved DEF HandoffInv
<1>2. CASE TakeUpdate
  <2>1. /\ pc = "waiting" /\ updates # <<>> /\ updates' = Tail(updates)
        /\ \/ pc' = pc /\ candidate' = candidate
           \/ pc' = "attaching" /\ candidate' = Head(updates) /\ Head(updates) # client
        /\ UNCHANGED <<daemonVars, connectionVars, local, target, monitor, client, forwarded,
                       reported, missed, drops, timeouts>>
    BY <1>2 DEF TakeUpdate, Same
  <2>2. updates \in Seq(Connections)  BY Naturals
  <2>3. /\ Tail(updates) \in Seq(Connections) /\ Head(updates) \in Connections
        /\ Head(updates) = updates[1] /\ Len(updates) \in Nat /\ Len(updates) > 0
        /\ DOMAIN Tail(updates) = 1..(Len(updates) - 1) /\ DOMAIN updates = 1..Len(updates)
        /\ \A i \in 1..(Len(updates) - 1) : Tail(updates)[i] = updates[i + 1]
    BY <2>1, <2>2, Shortened
  <2>4. Types'  BY <2>1, <2>3 DEF HandoffInv, Types, TypeOK
  <2>5. /\ 1 \in DOMAIN updates
        /\ \A i \in DOMAIN Tail(updates) :
              i + 1 \in DOMAIN updates /\ 1 < i + 1 /\ Tail(updates)[i] = updates[i + 1]
        /\ \A i, j \in DOMAIN Tail(updates) : i < j => i + 1 < j + 1
    BY <2>3
  <2>6. /\ \A i \in DOMAIN Tail(updates) : Tail(updates)[i] <= target /\ client <= Tail(updates)[i]
        /\ \A i, j \in DOMAIN Tail(updates) : i < j => Tail(updates)[i] <= Tail(updates)[j]
        /\ \A i \in DOMAIN Tail(updates) : Head(updates) <= Tail(updates)[i]
    BY <2>3, <2>5 DEF HandoffInv, Succession
  <2>7. Head(updates) <= target /\ client <= Head(updates)
    BY <2>3, <2>5 DEF HandoffInv, Succession
  <2>8. candidate' <= target /\ (pc' = "attaching" => candidate' = Head(updates) /\ client < candidate')
    BY <2>1, <2>3, <2>7, Naturals DEF HandoffInv, Born
  <2>9. Born'  BY <2>1, <2>8 DEF HandoffInv, Born
  <2>10. Succession'  BY <2>1, <2>6, <2>8 DEF Succession
  <2>11. Contents' /\ Given'  BY <2>1 DEF HandoffInv, Contents, Given, Early
  <2> QED  BY <2>1, <2>4, <2>9, <2>10, <2>11, Unmoved DEF HandoffInv
\* The adapter goes on to its candidate, to subscribe or to wait.
<1>3. ASSUME pc = "attaching", pc' \in {"subscribing", "waiting"}, client' = candidate,
             reported' = reported, timeouts' \in 0..MaxTimeouts, missed' \subseteq Connections,
             UNCHANGED <<daemonVars, connectionVars, supervisorVars, candidate, forwarded, drops>>
      PROVE  HandoffInv'
  <2>1. /\ client < candidate /\ client \in Nat /\ candidate \in Connections
        /\ candidate \in Nat /\ \A i \in DOMAIN updates : candidate <= updates[i]
    BY <1>3, Naturals DEF HandoffInv, Types, TypeOK, Succession
  <2>2. Types'  BY <1>3, <2>1 DEF HandoffInv, Types, TypeOK
  <2>3. Born'  BY <1>3 DEF HandoffInv, Born
  <2>4. Succession'  BY <1>3, <2>1 DEF HandoffInv, Succession
  <2>5. \A c \in Connections : c > candidate \/ c = candidate => c > client
    BY <2>1, Naturals
  <2>6. Contents'  BY <1>3, <2>5 DEF HandoffInv, Contents
  <2>7. Given'
    <3>1. \A c \in Connections : c <= client => c <= candidate /\ c < candidate
      BY <2>1, Naturals
    <3>2. \A i \in DOMAIN forwarded : \E c \in Connections : c <= client /\ forwarded[i] <= cursor[c]
      BY DEF HandoffInv, Given
    <3> QED  BY <1>3, <3>1, <3>2 DEF HandoffInv, Given
  <2> QED  BY <1>3, <2>2, <2>3, <2>4, <2>6, <2>7, Unmoved DEF HandoffInv
\* It ends.
<1>4. ASSUME pc' = "ended", pc \notin Early, reported' \in BOOLEAN,
             UNCHANGED <<daemonVars, connectionVars, supervisorVars, client, candidate, forwarded,
                         missed, drops, timeouts>>
      PROVE  HandoffInv'
  <2>1. Types'  BY <1>4 DEF HandoffInv, Types, TypeOK
  <2>2. Succession' /\ Contents' /\ Given'
    BY <1>4 DEF HandoffInv, Succession, Contents, Given, Early
  <2> QED  BY <1>4, <2>1, <2>2, Unmoved DEF HandoffInv
<1>5. CASE AttachAnswered
  <2>1. timeouts \in 0..MaxTimeouts  BY DEF HandoffInv, Types, TypeOK
  <2>4. missed \subseteq Connections  BY DEF HandoffInv, Types, TypeOK
  <2>2. CASE Held  BY <1>3, <1>5, <2>1, <2>2, <2>4 DEF AttachAnswered
  <2>3. CASE ~Held  BY <1>4, <1>5, <2>3 DEF AttachAnswered, Early
  <2> QED  BY <2>2, <2>3
<1>6. CASE AttachFails
  <2>1. timeouts \in 0..MaxTimeouts  BY DEF HandoffInv, Types, TypeOK
  <2>2. timeouts' \in 0..MaxTimeouts  BY <1>6, <2>1, Constants DEF AttachFails
  <2>3. missed' \subseteq Connections  BY <1>6 DEF AttachFails, HandoffInv, Types, TypeOK
  <2> QED  BY <1>3, <1>6, <2>2, <2>3 DEF AttachFails
<1>7. CASE CloseHandle
  <2>1. reported \in BOOLEAN  BY DEF HandoffInv, Types, TypeOK
  <2> QED  BY <1>4, <1>7, <2>1 DEF CloseHandle, Early
<1> QED  BY <1>1, <1>2, <1>5, <1>6, <1>7

LEMMA NextHandoff == HandoffInv /\ [Next]_vars => HandoffInv'
<1> SUFFICES ASSUME HandoffInv, [Next]_vars PROVE HandoffInv'  OBVIOUS
<1>1. CASE UNCHANGED vars
  <2>1. Types'
    BY <1>1 DEF vars, daemonVars, connectionVars, supervisorVars, adapterVars, HandoffInv, Types, TypeOK
  <2> QED  BY <1>1, <2>1, Unmoved
           DEF vars, daemonVars, connectionVars, supervisorVars, adapterVars, HandoffInv
<1> QED  BY <1>1, DaemonKeeps, LossKeeps, DeliverKeeps, MonitorKeeps, RegisterKeeps,
            SubscribeKeeps, ForwardKeeps, MoveKeeps
         DEF Next, SocketStep, AdapterStep

LEMMA HandoffSafety == Spec => []HandoffInv
BY InitHandoff, NextHandoff, PTL DEF Spec

\* Daemon, connections, supervisor and adapter are well typed.
THEOREM TypeCorrect == Spec => []TypeOK
<1>1. HandoffInv => TypeOK  BY DEF HandoffInv, Types
<1> QED  BY <1>1, HandoffSafety, PTL

\* The desktop gets the runtime's events in order and none twice.
THEOREM OrderForwarded == Spec => []ForwardedInOrder
<1>1. HandoffInv => ForwardedInOrder
  BY DEF HandoffInv, Given, Ascending, ForwardedInOrder
<1> QED  BY <1>1, HandoffSafety, PTL

\* Only a step of the adapter reports an exit, and it has a reason; reasons stay.
LEMMA NextExit == HandoffInv /\ ExitIsReal /\ [Next]_vars => ExitIsReal'
<1> SUFFICES ASSUME HandoffInv, ExitIsReal, [Next]_vars PROVE ExitIsReal'  OBVIOUS
<1> USE DEF ExitIsReal, daemonVars, connectionVars, supervisorVars, adapterVars
<1>1. CASE \/ (\E last \in BOOLEAN : Emit(last)) \/ StopDaemon \/ RestartService
           \/ MonitorStep
  <2>1. process \in Nat /\ process >= 1  BY DEF HandoffInv, Types, TypeOK
  <2>2. CASE (\E last \in BOOLEAN : Emit(last)) \/ StopDaemon \/ Publish
    BY <2>2 DEF Emit, StopDaemon, Publish
  <2>3. CASE RestartService \/ \E c \in Connections : Respawn(c)
    <3>1. process' = process + 1  BY <2>3 DEF RestartService, Respawn
    <3> QED  BY <2>1, <3>1
  <2>4. CASE \E c \in Connections : Reconnect(c)
    BY <2>4 DEF Reconnect, Replace
  <2> QED  BY <1>1, <2>2, <2>3, <2>4 DEF MonitorStep
<1>2. CASE UNCHANGED vars \/ \E c \in Connections : SocketStep(c) \/ Drop(c)
  BY <1>2 DEF vars, SocketStep, Deliver, LoseDaemon, Drop, Lose, DropSubscriptions
<1>3. CASE Forward
  BY <1>3 DEF Forward
<1>4. CASE AttachAnswered
  <2>1. process \in Nat /\ process >= 1  BY DEF HandoffInv, Types, TypeOK
  <2>2. CASE Held  BY <1>4, <2>2 DEF AttachAnswered
  <2>3. CASE ~Held
    <3>1. process # 1 /\ process' = process  BY <1>4, <2>3 DEF AttachAnswered, Held
    <3> QED  BY <2>1, <3>1
  <2> QED  BY <2>2, <2>3
<1>5. CASE Register \/ Subscribe \/ SeeClosed \/ TakeUpdate \/ AttachFails \/ CloseHandle
  BY <1>5 DEF Register, Subscribe, SeeClosed, TakeUpdate, AttachFails, CloseHandle
<1> QED  BY <1>1, <1>2, <1>3, <1>4, <1>5 DEF Next, AdapterStep

\* A reported exit is an exit, or the daemon that ran the runtime is gone.
THEOREM ExitReported == Spec => []ExitIsReal
<1>1. Init => ExitIsReal  BY DEF Init, ExitIsReal
<1> QED  BY <1>1, NextExit, HandoffSafety, PTL DEF Spec

----------------------------------------------------------------------------
(* What a cursor has passed *)

\* Where the adapter stands with the connections: it holds a subscription exactly
\* while it forwards, the connection it waits at is dead or was missed, and the
\* supervisor's connection is its own or will come to it.
Attached ==
    /\ pc = "forwarding" => sender[client] \in {"held", "dropped"}
    /\ \A c \in Connections :
        /\ sender[c] = "held" /\ pc # "ended" => c = client /\ pc = "forwarding"
        /\ sender[c] = "dropped" => life[c] = "dead"
    /\ pc \in {"waiting", "attaching"} => life[client] = "dead" \/ client \in missed
    /\ target = client \/ Awaited(target) \/ target \in missed \/ pc = "ended"
    /\ pc = "registering" => updates = <<>>

\* Event n is not lost: the desktop still gets it, or one of the exceptions holds.
Kept(n) ==
    \/ pc = "ended"
    \/ Underway(n)
    \/ n \in overrun
    \/ \E d \in missed : n \in Elements(buffer[d])

LEMMA AppendElements ==
    ASSUME NEW S, NEW q \in Seq(S), NEW n \in S
    PROVE  Elements(Append(q, n)) = Elements(q) \cup {n}
<1>1. /\ DOMAIN Append(q, n) = 1..(Len(q) + 1) /\ DOMAIN q = 1..Len(q)
      /\ \A i \in 1..Len(q) : Append(q, n)[i] = q[i]
      /\ Append(q, n)[Len(q) + 1] = n /\ Len(q) \in Nat
  BY Appended
<1>2. Len(q) + 1 \in DOMAIN Append(q, n) /\ DOMAIN q \subseteq DOMAIN Append(q, n)  BY <1>1
<1>3. \A i \in DOMAIN Append(q, n) : i \in DOMAIN q \/ i = Len(q) + 1  BY <1>1
<1> QED  BY <1>1, <1>2, <1>3 DEF Elements

LEMMA TailElements ==
    ASSUME NEW S, NEW q \in Seq(S), q # <<>>
    PROVE  Elements(q) = Elements(Tail(q)) \cup {Head(q)}
<1>1. /\ DOMAIN Tail(q) = 1..(Len(q) - 1) /\ DOMAIN q = 1..Len(q) /\ Head(q) = q[1]
      /\ \A i \in 1..(Len(q) - 1) : Tail(q)[i] = q[i + 1]
      /\ Len(q) \in Nat /\ Len(q) > 0
  BY Shortened
<1>2. \A i \in DOMAIN q : i = 1 \/ (i - 1 \in DOMAIN Tail(q) /\ q[i] = Tail(q)[i - 1])
  BY <1>1
<1>3. 1 \in DOMAIN q /\ \A i \in DOMAIN Tail(q) : i + 1 \in DOMAIN q /\ Tail(q)[i] = q[i + 1]
  BY <1>1
<1>4. ASSUME NEW i \in DOMAIN q  PROVE q[i] \in Elements(Tail(q)) \cup {Head(q)}
  <2>1. CASE i = 1  BY <1>1, <2>1
  <2>2. CASE i - 1 \in DOMAIN Tail(q) /\ q[i] = Tail(q)[i - 1]  BY <2>2 DEF Elements
  <2> QED  BY <1>2, <2>1, <2>2
<1>5. Head(q) \in Elements(q) /\ Elements(Tail(q)) \subseteq Elements(q)
  BY <1>1, <1>3 DEF Elements
<1>6. Elements(q) \subseteq Elements(Tail(q)) \cup {Head(q)}  BY <1>4 DEF Elements
<1> QED  BY <1>5, <1>6

LEMMA Endpoints ==
    ASSUME HandoffInv
    PROVE  /\ client \in Connections /\ target \in Connections /\ candidate \in Connections
           /\ updates \in Seq(Connections) /\ forwarded \in Seq(Seqs)
           /\ DOMAIN sender = Connections /\ DOMAIN life = Connections
           /\ DOMAIN inbox = Connections /\ DOMAIN buffer = Connections
           /\ \A c \in Connections : inbox[c] \in Seq(Seqs) /\ buffer[c] \in Seq(Seqs)
BY DEF HandoffInv, Types, TypeOK

\* Where the adapter stands depends on few variables, and a dead connection
\* stays dead.
LEMMA StillAttached ==
    ASSUME Attached,
           UNCHANGED <<pc, client, candidate, target, monitor, updates, sender, missed>>,
           \A c \in Connections : life[c] = "dead" => life'[c] = "dead", client \in Connections
    PROVE  Attached'
BY DEF Attached, Awaited

LEMMA NextAttached == HandoffInv /\ Attached /\ [Next]_vars => Attached'
<1> SUFFICES ASSUME HandoffInv, Attached, [Next]_vars PROVE Attached'  OBVIOUS
<1> USE DEF daemonVars, connectionVars, supervisorVars, adapterVars
<1>1. CASE \/ (\E last \in BOOLEAN : Emit(last)) \/ StopDaemon \/ RestartService
           \/ UNCHANGED vars \/ \E c \in Connections : Deliver(c)
  <2>1. UNCHANGED <<pc, client, candidate, target, monitor, updates, sender, missed, life>>
    BY <1>1 DEF Emit, StopDaemon, RestartService, Deliver, vars
  <2> QED  BY <2>1, StillAttached, Endpoints
<1>2. CASE \E c \in Connections : LoseDaemon(c) \/ Drop(c)
  <2>1. PICK c \in Connections : LoseDaemon(c) \/ Drop(c)  BY <1>2
  <2>2. /\ life' = [life EXCEPT ![c] = "closing"] /\ life[c] = "open"
        /\ UNCHANGED <<pc, client, candidate, target, monitor, updates, sender, missed>>
    BY <2>1 DEF LoseDaemon, Drop, Lose
  <2>3. \A d \in Connections : life[d] = "dead" => life'[d] = "dead"  BY <2>2, Endpoints
  <2> QED  BY <2>2, <2>3, StillAttached, Endpoints
<1>3. CASE \E c \in Connections : DropSubscriptions(c)
  <2>1. PICK c \in Connections : DropSubscriptions(c)  BY <1>3
  <2>2. /\ life'[c] = "dead" /\ sender'[c] = IF sender[c] = "held" THEN "dropped" ELSE sender[c]
        /\ \A d \in Connections : d # c => life'[d] = life[d] /\ sender'[d] = sender[d]
        /\ UNCHANGED <<pc, client, candidate, target, monitor, updates, missed>>
    BY <2>1, Endpoints DEF DropSubscriptions
  <2>3. pc = "forwarding" => sender'[client] \in {"held", "dropped"}
    BY <2>2, Endpoints DEF Attached
  <2>4. \A d \in Connections :
            /\ sender'[d] = "held" /\ pc # "ended" => d = client /\ pc = "forwarding"
            /\ sender'[d] = "dropped" => life'[d] = "dead"
    BY <2>2 DEF Attached
  <2>5. pc \in {"waiting", "attaching"} => life'[client] = "dead" \/ client \in missed
    BY <2>2, Endpoints DEF Attached
  <2> QED  BY <2>2, <2>3, <2>4, <2>5 DEF Attached, Awaited
\* A replacement is about to be published.
<1>4. CASE \E c \in Connections : Reconnect(c) \/ Respawn(c)
  <2>1. PICK c \in Connections : Reconnect(c) \/ Respawn(c)  BY <1>4
  <2>2. /\ target' = c /\ monitor' = "publishing" /\ missed \subseteq missed'
        /\ life' = [life EXCEPT ![c] = "open"] /\ life[c] = "unborn"
        /\ UNCHANGED <<pc, client, candidate, updates, sender>>
    BY <2>1 DEF Reconnect, Respawn, Replace
  <2>3. c > target /\ client <= target  BY <2>2 DEF HandoffInv, Born
  <2>4. c # client  BY <2>3, Naturals
  <2>5. pc = "ended" \/ Awaited(target)'  BY <2>2, <2>4 DEF Awaited
  <2>6. \A d \in Connections : life[d] = "dead" => life'[d] = "dead"  BY <2>2, Endpoints
  <2> QED  BY <2>2, <2>5, <2>6, Endpoints DEF Attached
<1>5. CASE Publish
  <2>1. /\ updates' = IF pc = "registering" THEN updates ELSE Append(updates, target)
        /\ UNCHANGED <<pc, client, candidate, target, sender, missed, life>>
    BY <1>5 DEF Publish
  <2>2. Elements(Append(updates, target)) = Elements(updates) \cup {target}
    BY Endpoints, AppendElements
  <2>3. target = client \/ Awaited(target)' \/ target \in missed \/ pc = "ended"
    BY <2>1, <2>2 DEF Awaited
  <2> QED  BY <2>1, <2>3 DEF Attached
<1>6. CASE Register
  <2>1. /\ pc = "registering" /\ pc' = "subscribing" /\ updates' = <<target>>
        /\ UNCHANGED <<client, candidate, target, sender, missed, life>>
    BY <1>6 DEF Register
  <2>2. target \in Elements(<<target>>)
    <3>1. 1 \in DOMAIN <<target>> /\ <<target>>[1] = target  OBVIOUS
    <3> QED  BY <3>1 DEF Elements
  <2>3. target = client \/ Awaited(target)'  BY <2>1, <2>2 DEF Awaited
  <2> QED  BY <2>1, <2>3 DEF Attached
<1>7. CASE Subscribe
  <2>1. /\ pc = "subscribing" /\ pc' = "forwarding" /\ sender'[client] = "held"
        /\ \A d \in Connections : d # client => sender'[d] = sender[d]
        /\ UNCHANGED <<client, candidate, target, monitor, updates, missed, life>>
    BY <1>7, Endpoints DEF Subscribe
  <2>2. target = client \/ Awaited(target)' \/ target \in missed
    BY <2>1 DEF Attached, Awaited
  <2> QED  BY <2>1, <2>2 DEF Attached
<1>8. CASE Forward \/ SeeClosed
  <2>1. /\ pc = "forwarding" /\ UNCHANGED <<client, candidate, target, monitor, updates, missed, life>>
        /\ \/ pc' = "forwarding" /\ sender' = sender
           \/ pc' = "ended" /\ Unsubscribe
           \/ pc' = "waiting" /\ Unsubscribe /\ sender[client] = "dropped"
    BY <1>8 DEF Forward, SeeClosed
  <2>2. CASE sender' = sender  BY <2>1, <2>2, Endpoints DEF Attached, Awaited
  <2>3. CASE pc' \in {"ended", "waiting"} /\ Unsubscribe
    <3>1. sender'[client] = "none" /\ \A d \in Connections : d # client => sender'[d] = sender[d]
      BY <2>3, Endpoints DEF Unsubscribe
    <3>2. target = client \/ Awaited(target)' \/ target \in missed \/ pc' = "ended"
      BY <2>1, <2>3 DEF Attached, Awaited
    <3>3. \A d \in Connections :
              /\ sender'[d] = "held" /\ pc' # "ended" => d = client /\ pc' = "forwarding"
              /\ sender'[d] = "dropped" => life[d] = "dead"
      BY <2>1, <3>1 DEF Attached
    <3>4. pc' = "waiting" => life[client] = "dead"  BY <2>1, Endpoints DEF Attached
    <3> QED  BY <2>1, <2>3, <3>1, <3>2, <3>3, <3>4 DEF Attached
  <2> QED  BY <2>1, <2>2, <2>3
<1>9. CASE TakeUpdate
  <2>1. /\ pc = "waiting" /\ updates # <<>> /\ updates' = Tail(updates)
        /\ \/ Head(updates) = client /\ pc' = pc /\ candidate' = candidate
           \/ Head(updates) # client /\ pc' = "attaching" /\ candidate' = Head(updates)
        /\ UNCHANGED <<client, target, monitor, sender, missed, life>>
    BY <1>9 DEF TakeUpdate, Same
  <2>2. Elements(updates) = Elements(updates') \cup {Head(updates)}
    BY <2>1, Endpoints, TailElements
  <2>3. target = client \/ Awaited(target)' \/ target \in missed
    BY <2>1, <2>2 DEF Attached, Awaited
  <2> QED  BY <2>1, <2>3 DEF Attached
<1>10. CASE AttachAnswered
  <2>1. /\ pc = "attaching"
        /\ \/ pc' = "subscribing" /\ client' = candidate
           \/ pc' = "ended" /\ client' = client
        /\ UNCHANGED <<candidate, target, monitor, updates, sender, missed, life>>
    BY <1>10 DEF AttachAnswered
  <2>2. target = client' \/ Awaited(target)' \/ target \in missed \/ pc' = "ended"
    <3>1. pc' = "subscribing" => target # client
      BY <2>1, Naturals, Endpoints DEF HandoffInv, Succession, Born
    <3> QED  BY <2>1, <3>1 DEF Attached, Awaited
  <2> QED  BY <2>1, <2>2 DEF Attached
<1>11. CASE AttachFails
  <2>1. /\ pc = "attaching" /\ pc' = "waiting" /\ client' = candidate
        /\ missed' = missed \cup {candidate}
        /\ UNCHANGED <<candidate, target, monitor, updates, sender, life>>
    BY <1>11 DEF AttachFails
  <2>2. target = client' \/ Awaited(target)' \/ target \in missed'
    <3>1. target # client  BY <2>1, Naturals, Endpoints DEF HandoffInv, Succession, Born
    <3> QED  BY <2>1, <3>1 DEF Attached, Awaited
  <2> QED  BY <2>1, <2>2 DEF Attached
<1>12. CASE CloseHandle
  <2>1. /\ pc \in {"forwarding", "waiting"} /\ pc' = "ended"
        /\ UNCHANGED <<client, target, updates, sender, missed, life>>
    BY <1>12 DEF CloseHandle
  <2> QED  BY <2>1 DEF Attached
<1> QED
  BY <1>1, <1>2, <1>3, <1>4, <1>5, <1>6, <1>7, <1>8, <1>9, <1>10, <1>11, <1>12
  DEF Next, SocketStep, MonitorStep, AdapterStep


\* What a step leaves alone: an event that is kept stays kept.
LEMMA StillKept ==
    ASSUME NEW n, Kept(n), client \in Connections,
           UNCHANGED <<pc, client, candidate, target, monitor, updates, forwarded, inbox, buffer,
                       overrun, missed>>
    PROVE  Kept(n)'
BY DEF Kept, Underway, Awaited

\* The next event of a connection goes where the adapter will get it, and one it
\* pushes out of a full buffer is recorded.
LEMMA DeliverAccounts ==
    ASSUME HandoffInv, Attached, NEW c \in Connections, Deliver(c), NEW n, n = cursor[c] + 1
    PROVE  /\ \A m : Kept(m) => Kept(m)'
           /\ \A d \in Connections : d # c => cursor'[d] = cursor[d]
           /\ cursor'[c] = n /\ Kept(n)'
<1>1. n \in Seqs /\ cursor[c] \in Nat
  <2>1. cursor[c] < emitted  BY DEF Deliver
  <2>2. emitted \in 0..MaxSeq /\ cursor[c] \in 0..MaxSeq  BY DEF HandoffInv, Types, TypeOK
  <2> QED  BY <2>1, <2>2, Constants DEF Seqs
<1>2. /\ cursor'[c] = n /\ \A d \in Connections : d # c => cursor'[d] = cursor[d]
      /\ UNCHANGED <<pc, client, candidate, target, monitor, updates, forwarded, missed>>
  BY DEF Deliver, HandoffInv, Types, TypeOK, supervisorVars, adapterVars
<1>3. inbox[c] \in Seq(Seqs) /\ buffer[c] \in Seq(Seqs)  BY Naturals
<1>4. c = target /\ life[c] = "open"
  BY Naturals DEF Deliver, Held, HandoffInv, Born
<1>5. /\ overrun \subseteq overrun'
      /\ \A d \in Connections : Elements(inbox[d]) \subseteq Elements(inbox'[d])
      /\ \A d \in Connections : Elements(buffer[d]) \subseteq Elements(buffer'[d]) \cup overrun'
      /\ IF sender[c] = "held" THEN n \in Elements(inbox'[c]) ELSE n \in Elements(buffer'[c])
  <2>1. CASE sender[c] = "held"
    <3>1. inbox' = [inbox EXCEPT ![c] = Append(@, n)] /\ UNCHANGED <<buffer, overrun>>
      BY <2>1 DEF Deliver
    <3>2. /\ inbox'[c] = Append(inbox[c], n)
          /\ \A d \in Connections : d # c => inbox'[d] = inbox[d]
      BY <3>1, Endpoints
    <3>3. Elements(inbox'[c]) = Elements(inbox[c]) \cup {n}
      BY <1>1, <1>3, <3>2, AppendElements
    <3> QED  BY <2>1, <3>1, <3>2, <3>3
  <2>2. CASE sender[c] # "held"
    <3>1. /\ buffer' = [buffer EXCEPT ![c] = Buffered(@, n)] /\ inbox' = inbox
          /\ overrun' = overrun \cup (Elements(buffer[c]) \ Elements(Buffered(buffer[c], n)))
      BY <2>2 DEF Deliver
    <3>2. /\ buffer'[c] = Buffered(buffer[c], n)
          /\ \A d \in Connections : d # c => buffer'[d] = buffer[d]
      BY <3>1, Endpoints
    <3>3. n \in Elements(Buffered(buffer[c], n))
      <4>1. CASE Len(buffer[c]) < BufferCap
        <5>1. Elements(Append(buffer[c], n)) = Elements(buffer[c]) \cup {n}
          BY <1>1, <1>3, AppendElements
        <5> QED  BY <4>1, <5>1 DEF Buffered
      <4>2. CASE ~(Len(buffer[c]) < BufferCap)
        <5>1. buffer[c] # <<>>  BY <4>2, Constants
        <5>2. Tail(buffer[c]) \in Seq(Seqs)  BY <1>3, <5>1, Shortened
        <5>4. PICK q \in Seq(Seqs) : q = Tail(buffer[c])  BY <5>2
        <5>3. Elements(Append(q, n)) = Elements(q) \cup {n}  BY <1>1, AppendElements
        <5> QED  BY <4>2, <5>3, <5>4 DEF Buffered
      <4> QED  BY <4>1, <4>2
    <3> QED  BY <2>2, <3>1, <3>2, <3>3
  <2> QED  BY <2>1, <2>2
<1>6. Kept(n)'
  <2>1. CASE pc = "ended"  BY <1>2, <2>1 DEF Kept
  <2>2. CASE pc # "ended" /\ sender[c] = "held"
    <3>1. c = client /\ pc = "forwarding"  BY <2>2 DEF Attached
    <3> QED  BY <1>2, <1>5, <2>2, <3>1 DEF Kept, Underway
  <2>3. CASE pc # "ended" /\ sender[c] # "held"
    <3>1. n \in Elements(buffer'[c])  BY <1>5, <2>3
    <3>2. CASE c = client
      <4>1. pc # "forwarding"  BY <1>4, <2>3, <3>2 DEF Attached
      <4>2. pc \in {"registering", "subscribing"} \/ client \in missed
        <5>1. pc \in {"registering", "subscribing", "waiting", "attaching"}
          BY <2>3, <4>1 DEF HandoffInv, Types, TypeOK
        <5> QED  BY <1>4, <3>2, <5>1 DEF Attached
      <4>3. Awaited(c)' \/ c \in missed'  BY <1>2, <3>2, <4>2 DEF Awaited
      <4> QED  BY <3>1, <4>3 DEF Kept, Underway
    <3>3. CASE c # client
      <4>1. Awaited(c) \/ c \in missed  BY <1>4, <2>3, <3>3 DEF Attached
      <4>2. Awaited(c)' \/ c \in missed'  BY <1>2, <4>1 DEF Awaited
      <4> QED  BY <3>1, <4>2 DEF Kept, Underway
    <3> QED  BY <3>2, <3>3
  <2> QED  BY <2>1, <2>2, <2>3
<1>7. ASSUME NEW m, Kept(m) PROVE Kept(m)'
  <2>1. \A d \in Connections : Awaited(d) => Awaited(d)'  BY <1>2 DEF Awaited
  <2>2. CASE pc = "ended" \/ m \in overrun \/ m \in Elements(forwarded)
    BY <1>2, <1>5, <2>2 DEF Kept, Underway
  <2>3. CASE pc = "forwarding" /\ m \in Elements(inbox[client])
    BY <1>2, <1>5, <2>3, Endpoints DEF Kept, Underway
  <2>4. CASE \E d \in Connections : Awaited(d) /\ m \in Elements(buffer[d])
    BY <1>2, <1>5, <2>1, <2>4 DEF Kept, Underway
  <2>5. CASE \E d \in missed : m \in Elements(buffer[d])
    <3>1. missed \subseteq Connections  BY DEF HandoffInv, Types, TypeOK
    <3> QED  BY <1>2, <1>5, <2>5, <3>1 DEF Kept
  <2> QED  BY <1>7, <2>2, <2>3, <2>4, <2>5 DEF Kept, Underway
<1> QED  BY <1>2, <1>6, <1>7

\* A subscription takes what was buffered, and hands it to the desktop.
LEMMA SubscriptionAccounts ==
    ASSUME HandoffInv, NEW n \in Nat, n > ReplayCursor, Kept(n), Subscribe \/ Forward
    PROVE  Kept(n)'
<1> USE DEF daemonVars, supervisorVars
<1>0. missed \subseteq Connections  BY DEF HandoffInv, Types, TypeOK
<1>1. CASE Subscribe
  <2>1. /\ pc = "subscribing" /\ pc' = "forwarding" /\ inbox'[client] = buffer[client]
        /\ \A d \in Connections : d # client => buffer'[d] = buffer[d]
        /\ UNCHANGED <<forwarded, client, candidate, target, monitor, updates, overrun, missed>>
    BY <1>1, Endpoints DEF Subscribe, Drained
  <2>2. \A d \in Connections : d # client /\ Awaited(d) => Awaited(d)'  BY <2>1 DEF Awaited
  <2>3. CASE n \in overrun \/ n \in Elements(forwarded)  BY <2>1, <2>3 DEF Kept, Underway
  <2>4. CASE n \in Elements(buffer[client])  BY <2>1, <2>4 DEF Kept, Underway
  <2>5. CASE \E d \in Connections : d # client /\ Awaited(d) /\ n \in Elements(buffer[d])
    BY <2>1, <2>2, <2>5 DEF Kept, Underway
  <2>6. CASE \E d \in missed : d # client /\ n \in Elements(buffer[d])
    BY <1>0, <2>1, <2>6 DEF Kept
  <2> QED  BY <2>1, <2>3, <2>4, <2>5, <2>6 DEF Kept, Underway
<1>2. CASE Forward
  <2> DEFINE h == Head(inbox[client])
  <2>1. /\ pc = "forwarding" /\ pc' \in {"forwarding", "ended"}
        /\ inbox[client] # <<>> /\ inbox'[client] = Tail(inbox[client])
        /\ forwarded' = IF h > ReplayCursor THEN Append(forwarded, h) ELSE forwarded
        /\ UNCHANGED <<buffer, client, candidate, target, monitor, updates, overrun, missed>>
    BY <1>2, Endpoints DEF Forward
  <2>2. h \in Seqs  BY <2>1, Shortened, Endpoints
  <2>3. Elements(inbox[client]) = Elements(inbox'[client]) \cup {h}
    BY <2>1, TailElements, Endpoints
  <2>4. Elements(Append(forwarded, h)) = Elements(forwarded) \cup {h}
    BY <2>2, AppendElements, Endpoints
  <2> HIDE DEF h
  <2>5. CASE pc' = "ended"  BY <2>5 DEF Kept
  <2>6. CASE pc' = "forwarding"
    <3>1. \A d \in Connections : Awaited(d) => Awaited(d)'  BY <2>1, <2>6 DEF Awaited
    <3>2. CASE n \in Elements(forwarded)  BY <2>1, <2>4, <3>2 DEF Kept, Underway
    <3>3. CASE n \in Elements(inbox[client])
      BY <2>1, <2>3, <2>4, <2>6, <3>3 DEF Kept, Underway
    <3>4. CASE \E d \in Connections : Awaited(d) /\ n \in Elements(buffer[d])
      BY <2>1, <3>1, <3>4 DEF Kept, Underway
    <3>5. CASE n \in overrun \/ \E d \in missed : n \in Elements(buffer[d])
      BY <2>1, <3>5 DEF Kept
    <3> QED  BY <2>1, <3>2, <3>3, <3>4, <3>5 DEF Kept, Underway
  <2> QED  BY <2>1, <2>5, <2>6
<1> QED  BY <1>1, <1>2

\* As the supervisor and the adapter go from one connection to the next, one that
\* the adapter no longer awaits is missed.
LEMMA SuccessionAccounts ==
    ASSUME HandoffInv, Attached, NEW n, Kept(n),
           \/ \E c \in Connections : Reconnect(c) \/ Respawn(c)
           \/ Publish \/ Register \/ SeeClosed \/ TakeUpdate \/ AttachAnswered \/ AttachFails
           \/ CloseHandle
    PROVE  Kept(n)'
<1> USE DEF daemonVars, connectionVars, supervisorVars, adapterVars
<1>1. SUFFICES ASSUME pc' # "ended"
               PROVE  /\ UNCHANGED <<forwarded, buffer, overrun>> /\ missed \subseteq missed'
                      /\ pc = "forwarding" /\ inbox[client] # <<>> =>
                            pc' = "forwarding" /\ UNCHANGED <<client, inbox>>
                      /\ \A d \in Connections : Awaited(d) => Awaited(d)' \/ d \in missed'
                      /\ pc # "ended"
  <2>1. Elements(<<>>) = {}  BY DEF Elements
  <2> QED  BY <1>1, <2>1 DEF Kept, Underway
<1>2. CASE \E c \in Connections : Reconnect(c) \/ Respawn(c)
  <2>1. PICK c \in Connections : Reconnect(c) \/ Respawn(c)  BY <1>2
  <2>2. /\ monitor = "idle" /\ target' = c /\ monitor' = "publishing"
        /\ missed' = IF pc = "registering" /\ target # client THEN missed \cup {target} ELSE missed
        /\ UNCHANGED <<pc, client, candidate, updates, forwarded, inbox, buffer, overrun>>
    BY <2>1 DEF Reconnect, Respawn, Replace
  <2> QED  BY <1>1, <2>2 DEF Awaited
<1>3. CASE Publish
  <2>1. /\ updates' = IF pc = "registering" THEN updates ELSE Append(updates, target)
        /\ UNCHANGED <<pc, client, candidate, target, forwarded, inbox, buffer, overrun, missed>>
    BY <1>3 DEF Publish
  <2>2. Elements(Append(updates, target)) = Elements(updates) \cup {target}
    BY Endpoints, AppendElements
  <2> QED  BY <1>1, <2>1, <2>2 DEF Awaited
<1>4. CASE Register
  <2>1. /\ pc = "registering" /\ pc' = "subscribing" /\ updates' = <<target>>
        /\ UNCHANGED <<client, candidate, target, monitor, forwarded, inbox, buffer, overrun, missed>>
    BY <1>4 DEF Register
  <2>2. target \in Elements(<<target>>)
    <3>1. 1 \in DOMAIN <<target>> /\ <<target>>[1] = target  OBVIOUS
    <3> QED  BY <3>1 DEF Elements
  <2>3. Elements(updates) = {}  BY <2>1 DEF Attached, Elements
  <2> QED  BY <2>1, <2>2, <2>3 DEF Awaited
<1>5. CASE SeeClosed
  <2>1. /\ pc = "forwarding" /\ inbox[client] = <<>> /\ pc' = "waiting"
        /\ UNCHANGED <<client, candidate, target, monitor, updates, forwarded, inbox, buffer,
                       overrun, missed>>
    BY <1>5 DEF SeeClosed
  <2> QED  BY <2>1 DEF Awaited
<1>6. CASE TakeUpdate
  <2>1. /\ pc = "waiting" /\ updates # <<>> /\ updates' = Tail(updates)
        /\ \/ Head(updates) = client /\ pc' = pc /\ candidate' = candidate
           \/ Head(updates) # client /\ pc' = "attaching" /\ candidate' = Head(updates)
        /\ UNCHANGED <<client, target, monitor, forwarded, inbox, buffer, overrun, missed>>
    BY <1>6 DEF TakeUpdate, Same
  <2>2. Elements(updates) = Elements(updates') \cup {Head(updates)}
    BY <2>1, Endpoints, TailElements
  <2> QED  BY <2>1, <2>2 DEF Awaited
<1>7. CASE AttachAnswered
  <2>1. /\ pc = "attaching" /\ pc' = "subscribing" /\ client' = candidate
        /\ UNCHANGED <<candidate, target, monitor, updates, forwarded, inbox, buffer, overrun, missed>>
    BY <1>1, <1>7 DEF AttachAnswered
  <2> QED  BY <2>1 DEF Awaited
<1>8. CASE AttachFails
  <2>1. /\ pc = "attaching" /\ pc' = "waiting" /\ client' = candidate
        /\ missed' = missed \cup {candidate}
        /\ UNCHANGED <<candidate, target, monitor, updates, forwarded, inbox, buffer, overrun>>
    BY <1>8 DEF AttachFails
  <2> QED  BY <2>1 DEF Awaited
<1>9. CASE CloseHandle  BY <1>1, <1>9 DEF CloseHandle
<1> QED  BY <1>2, <1>3, <1>4, <1>5, <1>6, <1>7, <1>8, <1>9

LEMMA NextAccounted == HandoffInv /\ Attached /\ Accounted /\ [Next]_vars => Accounted'
<1> SUFFICES ASSUME HandoffInv, Attached, Accounted, [Next]_vars,
                    NEW c \in Connections, NEW n \in (ReplayCursor + 1)..cursor'[c]
             PROVE  Kept(n)'
  BY DEF Accounted, Kept
<1>0. n \in Nat /\ n > ReplayCursor
  BY Constants
<1>1. \A d \in Connections : n <= cursor[d] => Kept(n)
  <2> SUFFICES ASSUME NEW d \in Connections, n <= cursor[d] PROVE Kept(n)  OBVIOUS
  <2>1. n \in (ReplayCursor + 1)..cursor[d]  BY <1>0, Naturals, Constants
  <2> QED  BY <2>1 DEF Accounted, Kept
<1> USE DEF daemonVars, connectionVars, supervisorVars, adapterVars
<1>2. CASE \E d \in Connections : Deliver(d)
  <2>1. PICK d \in Connections : Deliver(d)  BY <1>2
  <2>2. PICK m : m = cursor[d] + 1  OBVIOUS
  <2>3. /\ \A k : Kept(k) => Kept(k)'
        /\ \A e \in Connections : e # d => cursor'[e] = cursor[e]
        /\ cursor'[d] = m /\ Kept(m)'
    BY <2>1, <2>2, DeliverAccounts
  <2>4. n <= cursor'[c]  BY <1>0, <2>2, <2>3, Naturals, Constants
  <2>5. CASE n <= cursor[c]  BY <1>0, <1>1, <2>3, <2>5
  <2>6. CASE ~(n <= cursor[c])
    <3>1. c = d  BY <2>3, <2>4, <2>6
    <3>2. n = m  BY <1>0, <2>2, <2>3, <2>4, <2>6, <3>1, Naturals
    <3> QED  BY <2>3, <3>2
  <2> QED  BY <2>5, <2>6
<1>3. CASE Subscribe \/ Forward
  <2>1. cursor' = cursor  BY <1>3 DEF Subscribe, Forward
  <2>2. n <= cursor[c]  BY <2>1, Naturals, Constants
  <2> QED  BY <1>0, <1>1, <1>3, <2>2, SubscriptionAccounts
\* A new connection resumes from the cursor of another, or from none.
<1>4. CASE \E d \in Connections : Reconnect(d) \/ Respawn(d)
  <2>1. PICK d \in Connections : Reconnect(d) \/ Respawn(d)  BY <1>4
  <2>3. \/ cursor' = [cursor EXCEPT ![d] = cursor[target]]
        \/ cursor' = [cursor EXCEPT ![d] = 0]
    BY <2>1 DEF Reconnect, Respawn, Replace, ResumeFrom
  <2>4. \E e \in Connections : n <= cursor[e]
    <3>1. /\ target \in Connections /\ DOMAIN cursor = Connections
          /\ cursor'[c] \in {cursor[c], cursor[target], 0}
      BY <2>3 DEF HandoffInv, Types, TypeOK
    <3>2. n <= cursor'[c] /\ n > 0  BY <1>0, <3>1, Naturals, Constants
    <3> QED  BY <1>0, <3>1, <3>2
  <2> QED  BY <1>1, <1>4, <2>4, SuccessionAccounts
<1>5. CASE \/ Publish \/ Register \/ SeeClosed \/ TakeUpdate \/ AttachAnswered \/ AttachFails
           \/ CloseHandle
  <2>1. cursor' = cursor
    BY <1>5
    DEF Publish, Register, SeeClosed, TakeUpdate, AttachAnswered, AttachFails, CloseHandle
  <2>2. n <= cursor[c]  BY <2>1, Naturals, Constants
  <2> QED  BY <1>1, <1>5, <2>2, SuccessionAccounts
<1>6. CASE \/ (\E last \in BOOLEAN : Emit(last)) \/ StopDaemon \/ RestartService \/ UNCHANGED vars
           \/ \E d \in Connections : LoseDaemon(d) \/ Drop(d) \/ DropSubscriptions(d)
  <2>1. UNCHANGED <<cursor, pc, client, candidate, target, monitor, updates, forwarded, inbox,
                    buffer, overrun, missed>>
    BY <1>6
    DEF Emit, StopDaemon, RestartService, vars, LoseDaemon, Drop, Lose, DropSubscriptions
  <2>2. n <= cursor[c]  BY <2>1, Naturals, Constants
  <2> QED  BY <1>1, <2>1, <2>2, StillKept, Endpoints
<1> QED  BY <1>2, <1>3, <1>4, <1>5, <1>6 DEF Next, SocketStep, MonitorStep, AdapterStep

\* What a cursor has passed reaches the desktop, or its adapter has ended, unless
\* a full buffer dropped it or the connection that buffered it was missed.
THEOREM PassedIsKept == Spec => []Accounted
<1>1. Init => Accounted /\ Attached
  BY Constants DEF Init, Accounted, Attached
<1> QED  BY <1>1, NextAttached, NextAccounted, HandoffSafety, PTL DEF Spec

----------------------------------------------------------------------------
(* The settings of the same supervisor: SettingsWriter                     *)

LEMMA DocumentTypes == Documents \subseteq Int /\ 0 \in Documents /\ None \notin Documents
BY WriterConstants DEF Documents, None

LEMMA InitWriterType == SettingsInit => SettingsTypeOK
<1> SUFFICES ASSUME SettingsInit PROVE SettingsTypeOK  OBVIOUS
<1>1. settingsUpdates \in Seq(Documents) /\ orphans \subseteq Documents
  BY DEF SettingsInit
<1>2. losses \in 0..MaxLosses  BY WriterConstants DEF SettingsInit
<1> QED  BY <1>1, <1>2, DocumentTypes DEF SettingsInit, SettingsTypeOK

\* What the writer takes is the last of a nonempty channel.
LEMMA LastUpdate ==
    ASSUME settingsUpdates \in Seq(Documents), settingsUpdates # <<>>
    PROVE  settingsUpdates[Len(settingsUpdates)] \in Documents
<1>1. Len(settingsUpdates) \in 1..Len(settingsUpdates)  BY EmptySeq
<1> QED  BY <1>1, ElementOfSeq

\* A loss keeps types, and sends back a writer that waits for an answer, unless
\* it has the answer.
LEMMA LostType == ASSUME SettingsTypeOK, Lost PROVE losses' \in 0..MaxLosses
BY WriterConstants DEF SettingsTypeOK, Lost

LEMMA FailType ==
    ASSUME SettingsTypeOK, Fail
    PROVE  /\ losses' \in 0..MaxLosses
           /\ \/ writerPc \in {"sent", "acked"} /\ writerPc' = "read"
              \/ writerPc # "sent" /\ writerPc' = writerPc
BY LostType DEF Fail, AfterError

LEMMA NextWriterType == SettingsTypeOK /\ [SettingsNext]_settingsVars => SettingsTypeOK'
<1> SUFFICES ASSUME SettingsTypeOK, [SettingsNext]_settingsVars PROVE SettingsTypeOK'  OBVIOUS
<1> USE DEF SettingsTypeOK, uiVars, refreshVars, writerVars, storeVars
<1>1. ASSUME NEW v \in Documents, UpdateSettings(v) PROVE SettingsTypeOK'
  BY <1>1 DEF UpdateSettings
<1>2. CASE Caller
  <2>1. CASE CheckPersisted  BY <2>1 DEF CheckPersisted
  <2>2. CASE QueueUpdate
    BY <2>2, AppendProperties DEF QueueUpdate, WithUpdate
  <2> QED  BY <1>2, <2>1, <2>2 DEF Caller
<1>3. CASE Writer
  <2>1. CASE Receive
    <3>1. writing' \in Documents  BY <2>1, LastUpdate DEF Receive
    <3> QED  BY <2>1, <3>1 DEF Receive
  <2>2. CASE ReadDesired  BY <2>2 DEF ReadDesired, Desired
  <2>3. CASE SendRequest  BY <2>3 DEF SendRequest, AfterError
  <2>4. CASE Acknowledged  BY <2>4 DEF Acknowledged
  <2> QED  BY <1>3, <2>1, <2>2, <2>3, <2>4 DEF Writer
<1>4. CASE Daemon
  BY <1>4 DEF Daemon, Execute, ExecuteOrphan
<1>5. CASE Supervisor
  <2>1. CASE RefreshClone  BY <2>1 DEF RefreshClone
  <2>2. CASE RefreshClear  BY <2>2 DEF RefreshClear
  <2>3. CASE RefreshSend  BY <2>3, AppendProperties DEF RefreshSend
  <2>4. CASE RemoteReconnects  BY <2>4 DEF RemoteReconnects
  <2> QED  BY <1>5, <2>1, <2>2, <2>3, <2>4 DEF Supervisor
<1>6. CASE Refuse  BY <1>6, LostType DEF Refuse, AfterError
<1>7. CASE Restart  BY <1>7, FailType DEF Restart
<1>8. CASE Disconnect  BY <1>8, FailType DEF Disconnect
<1>9. CASE UNCHANGED settingsVars  BY <1>9 DEF settingsVars
<1> QED  BY <1>1, <1>2, <1>3, <1>4, <1>5, <1>6, <1>7, <1>8, <1>9 DEF SettingsNext

\* Every reachable state of the writer, the UI thread and the supervisor is
\* well typed (process.rs, persist_settings and update_settings).
THEOREM WriterTypeCorrect == SettingsSpec => []SettingsTypeOK
<1>1. SettingsInit => SettingsTypeOK  BY InitWriterType
<1>2. SettingsTypeOK /\ [SettingsNext]_settingsVars => SettingsTypeOK'  BY NextWriterType
<1> QED  BY <1>1, <1>2, PTL DEF SettingsSpec

----------------------------------------------------------------------------
(* What the supervisor remembers                                           *)

\* While a managed daemon may still run a request of a dead connection, that
\* connection has no successor, and the writer retries on it; an acknowledgement
\* that has not been read yet is true; and what is remembered is true while the
\* writer waits.
Acked == managed => /\ orphans # {} => ~connected /\ writerPc \in {"read", "call"}
                    /\ writerPc = "acked" => stored = writing
                    /\ writerPc = "recv" /\ persisted # None => stored = persisted

PersistedInv == SettingsTypeOK /\ Acked

LEMMA NextPersisted == PersistedInv /\ [SettingsNext]_settingsVars => PersistedInv'
<1> SUFFICES ASSUME PersistedInv, [SettingsNext]_settingsVars PROVE Acked'
  BY NextWriterType DEF PersistedInv
<1>0. SettingsTypeOK /\ Acked  BY DEF PersistedInv
<1> USE DEF Acked, uiVars, refreshVars, writerVars, storeVars
<1>1. ASSUME NEW v \in Documents, UpdateSettings(v) PROVE Acked'
  BY <1>0, <1>1 DEF UpdateSettings
<1>2. CASE Caller  BY <1>0, <1>2 DEF Caller, CheckPersisted, QueueUpdate
<1>3. CASE Writer
  BY <1>0, <1>3 DEF Writer, Receive, ReadDesired, SendRequest, Acknowledged, AfterError
<1>4. CASE Daemon  BY <1>0, <1>4 DEF Daemon, Execute, ExecuteOrphan
<1>5. CASE Supervisor
  BY <1>0, <1>5 DEF Supervisor, RefreshClone, RefreshClear, RefreshSend, RemoteReconnects
<1>6. CASE Refuse  BY <1>0, <1>6, LostType DEF Refuse, AfterError
<1>7. CASE Restart  BY <1>0, <1>7, FailType DEF Restart
<1>8. CASE Disconnect  BY <1>0, <1>8, FailType DEF Disconnect
<1>9. CASE UNCHANGED settingsVars  BY <1>0, <1>9 DEF settingsVars
<1> QED  BY <1>1, <1>2, <1>3, <1>4, <1>5, <1>6, <1>7, <1>8, <1>9 DEF SettingsNext

\* What the supervisor remembers as persisted is what the managed daemon
\* stores, whenever the writer waits, however many restarts, connections closed by
\* a living daemon, late acknowledgements and refused writes came before
\* (process.rs, persist_settings and queue_settings_refresh).
THEOREM MemoryIsTrue == SettingsSpec => []PersistedIsStored
<1>1. SettingsInit => PersistedInv
  BY InitWriterType DEF PersistedInv, SettingsInit, Acked
<1>2. PersistedInv => PersistedIsStored
  BY DEF PersistedInv, Acked, PersistedIsStored
<1>3. PersistedInv /\ [SettingsNext]_settingsVars => PersistedInv'  BY NextPersisted
<1> QED  BY <1>1, <1>2, <1>3, PTL DEF SettingsSpec

----------------------------------------------------------------------------
(* What the writer will send                                               *)

\* With nothing left to queue or to take, the document that was acknowledged,
\* or that is being sent, is the last one.  A writer about to read the
\* settings needs no promise, and neither does a refresh: it only forgets.
LastIsSent ==
    ui = "idle" /\ settingsUpdates = <<>> /\ ~overlooked =>
        /\ writerPc = "recv" => persisted \in {None, settings}
        /\ writerPc \in {"call", "sent", "acked"} => writing = settings

SettledInv == SettingsTypeOK /\ LastIsSent

LEMMA NextSettled == SettledInv /\ [SettingsNext]_settingsVars => SettledInv'
<1> SUFFICES ASSUME SettledInv, [SettingsNext]_settingsVars PROVE LastIsSent'
  BY NextWriterType DEF SettledInv
<1>0. SettingsTypeOK /\ LastIsSent  BY DEF SettledInv
<1> USE DEF LastIsSent, uiVars, refreshVars, writerVars, storeVars
<1>1. ASSUME NEW v \in Documents, UpdateSettings(v) PROVE LastIsSent'
  BY <1>0, <1>1 DEF UpdateSettings
<1>2. CASE Caller
  <2>1. CASE CheckPersisted
    BY <1>0, <2>1 DEF CheckPersisted, AlreadyPersisted, SettingsTypeOK
  <2>2. CASE QueueUpdate
    <3>1. settingsUpdates' # <<>>
      BY <1>0, <2>2, AppendProperties DEF QueueUpdate, WithUpdate, SettingsTypeOK
    <3> QED  BY <3>1
  <2> QED  BY <1>2, <2>1, <2>2 DEF Caller
<1>3. CASE Writer
  BY <1>0, <1>3 DEF Writer, Receive, ReadDesired, Desired,
                    SendRequest, Acknowledged, AfterError, SettingsTypeOK
<1>4. CASE Daemon  BY <1>0, <1>4 DEF Daemon, Execute, ExecuteOrphan, SettingsTypeOK
<1>5. CASE Supervisor
  <2>1. CASE RefreshClone  BY <1>0, <2>1 DEF RefreshClone
  <2>2. CASE RefreshClear  BY <1>0, <2>2 DEF RefreshClear
  <2>3. CASE RefreshSend
    <3>1. settingsUpdates' # <<>>  BY <1>0, <2>3, AppendProperties DEF RefreshSend, SettingsTypeOK
    <3> QED  BY <3>1
  <2>4. CASE RemoteReconnects  BY <1>0, <2>4 DEF RemoteReconnects
  <2> QED  BY <1>5, <2>1, <2>2, <2>3, <2>4 DEF Supervisor
<1>6. CASE Refuse  BY <1>0, <1>6, LostType DEF Refuse, AfterError, SettingsTypeOK
<1>7. CASE Restart  BY <1>0, <1>7, FailType DEF Restart, SettingsTypeOK
<1>8. CASE Disconnect  BY <1>0, <1>8, FailType DEF Disconnect, SettingsTypeOK
<1>9. CASE UNCHANGED settingsVars  BY <1>0, <1>9 DEF settingsVars
<1> QED  BY <1>1, <1>2, <1>3, <1>4, <1>5, <1>6, <1>7, <1>8, <1>9 DEF SettingsNext

\* Once the UI thread, the writer and the supervisor are done, the document
\* that was acknowledged is the one the desktop holds: no update is lost
\* between update_settings and persist_settings, but for the one that is
\* overlooked (process.rs).
THEOREM NothingForgotten == SettingsSpec => []SettingsSettled
<1>1. SettingsInit => SettledInv
  BY InitWriterType DEF SettledInv, SettingsInit, LastIsSent
<1>2. SettledInv => SettingsSettled
  BY DEF SettledInv, LastIsSent, SettingsSettled
<1>3. SettledInv /\ [SettingsNext]_settingsVars => SettledInv'  BY NextSettled
<1> QED  BY <1>1, <1>2, <1>3, PTL DEF SettingsSpec
=============================================================================
