------------------------------ MODULE EventHub ------------------------------
(***************************************************************************)
(* The event path of the daemon: the hub that stamps provider events with  *)
(* a sequence number, journals and broadcasts them                         *)
(* (crates/insulator-core/src/server.rs), one connection per client with a *)
(* bounded outgoing queue, and the client's socket thread, which drops     *)
(* what it has already seen and remembers a cursor per runtime             *)
(* (crates/insulator-client/src/client.rs).                                *)
(*                                                                         *)
(* Abstractions.  A runtime id is a fresh UUID: here the next natural      *)
(* number, so that within one daemon process the order of ids is the order *)
(* of begin_runtime; a new process may see an old id again.  An event's    *)
(* payload is left out.  A TCP connection is a lossless FIFO that  *)
(* may break at any moment, so writing a message and the client reading it *)
(* are one step.  The hub's mutex makes every hub operation one step,      *)
(* except the replay of a subscription, which takes one step per journal   *)
(* while `lock' holds everybody else off.                                  *)
(***************************************************************************)
EXTENDS Integers, Sequences, FiniteSets

CONSTANTS Clients,       \* clients of the daemon (desktop, web, ...)
          Sessions,      \* task sessions
          NoClient,      \* not a client: the hub lock is free
          JournalCap,    \* MAX_REPLAY_EVENTS_PER_SESSION
          QueueCap,      \* MAX_QUEUED_MESSAGES_PER_SUBSCRIBER
          MaxRuntimes,   \* bound: runtimes one daemon process starts
          MaxEvents,     \* bound: events of all runtimes together
          MaxEpochs,     \* bound: daemon processes over the whole behaviour
          MaxDrops       \* bound: connections broken by the network

ASSUME ConstantsAssumption ==
    /\ NoClient \notin Clients
    /\ JournalCap \in Nat \ {0} /\ QueueCap \in Nat \ {0}
    /\ MaxRuntimes \in Nat /\ MaxEvents \in Nat
    /\ MaxEpochs \in Nat \ {0} /\ MaxDrops \in Nat

Runtimes == 1..MaxRuntimes
NoRuntime == 0
Keys == Sessions \X Runtimes       \* the (session_id, runtime_id) of the maps

Events == [session : Sessions, runtime : Runtimes, epoch : Nat, seq : Nat]
Key(e) == <<e.session, e.runtime>>

\* "down": no connection.  "greeted": the hellos were exchanged, the hub does
\* not know the subscriber yet.  "live": registered.  "kicked": removed from
\* the hub, the connection thread has not noticed.
Phases == {"down", "greeted", "live", "kicked"}

VARIABLES
    \* the daemon
    epoch,      \* Hub.epoch
    started,    \* how many runtime ids this daemon process has seen
    active,     \* HubState.active_runtimes
    nextSeq,    \* HubState.next_sequences, 0 when absent
    journal,    \* HubState.journal, empty when absent
    phase,      \* where each client's connection is
    queue,      \* the bounded outgoing channel of each connection
    lock,       \* [holder, keys]: the subscription being replayed, journals left
    \* the client
    cursor,     \* ClientInner.last_sequences, epoch 0 when absent
    log,        \* history: the events the client's socket thread let through
    \* history and bounds
    emitted,    \* history: every event ever given a sequence number
    cut,        \* history: replays of this daemon process that found a queue full
    drops       \* connections broken so far

hubVars == <<epoch, started, active, nextSeq, journal, emitted>>
vars == <<epoch, started, active, nextSeq, journal, phase, queue, lock, cursor,
          log, emitted, cut, drops>>

TypeOK ==
    /\ epoch \in 1..MaxEpochs
    /\ started \in 0..MaxRuntimes
    /\ active \in [Sessions -> Runtimes \cup {NoRuntime}]
    /\ nextSeq \in [Keys -> Nat]
    /\ journal \in [Keys -> Seq(Events)]
    /\ phase \in [Clients -> Phases]
    /\ queue \in [Clients -> Seq(Events)] /\ \A c \in Clients : Len(queue[c]) <= QueueCap
    /\ lock \in [holder : Clients \cup {NoClient}, keys : SUBSET Keys]
    /\ cursor \in [Clients -> [Keys -> [epoch : Nat, seq : Nat]]]
    /\ log \in [Clients -> Seq(Events)]
    /\ emitted \subseteq Events
    /\ cut \subseteq Clients \X Keys
    /\ drops \in 0..MaxDrops

Unlocked == [holder |-> NoClient, keys |-> {}]
NoCursor == [epoch |-> 0, seq |-> 0]

Init ==
    /\ epoch = 1
    /\ started = 0
    /\ active = [s \in Sessions |-> NoRuntime]
    /\ nextSeq = [k \in Keys |-> 0]
    /\ journal = [k \in Keys |-> <<>>]
    /\ phase = [c \in Clients |-> "down"]
    /\ queue = [c \in Clients |-> <<>>]
    /\ lock = Unlocked
    /\ cursor = [c \in Clients |-> [k \in Keys |-> NoCursor]]
    /\ log = [c \in Clients |-> <<>>]
    /\ emitted = {}
    /\ cut = {}
    /\ drops = 0

----------------------------------------------------------------------------
(* The hub *)

HubWithoutLock == TRUE                     \* mutant: replay and emission interleave
HubFree == lock.holder = NoClient

\* What begin_runtime and end_runtime both do to the maps of a session.
Forget(s) ==
    /\ nextSeq' = [k \in Keys |-> IF k[1] = s THEN 0 ELSE nextSeq[k]]
    /\ journal' = [k \in Keys |-> IF k[1] = s THEN <<>> ELSE journal[k]]

\* Start and OpenTerminal begin a runtime before the backend handles them.
BeginRuntime(s) ==
    /\ HubFree
    /\ started < MaxRuntimes
    /\ started' = started + 1
    /\ active' = [active EXCEPT ![s] = started + 1]
    /\ Forget(s)
    /\ UNCHANGED <<epoch, phase, queue, lock, cursor, log, emitted, cut, drops>>

\* A close or a failed start ends the runtime it names, and nothing when that
\* one was replaced; removing the session ends whatever runs (r = NoRuntime).
EndRuntime(s, r) ==
    /\ HubFree
    /\ r = NoRuntime \/ active[s] = r
    /\ active' = [active EXCEPT ![s] = NoRuntime]
    /\ Forget(s)
    /\ UNCHANGED <<epoch, started, phase, queue, lock, cursor, log, emitted, cut, drops>>

JournaledOneMore(j, e) ==                  \* mutant: trims one event too late
    IF Len(j) > JournalCap THEN Append(Tail(j), e) ELSE Append(j, e)

\* The journal keeps the newest JournalCap events.
Journaled(j, e) ==
    LET all == Append(j, e)
    IN  IF Len(all) > JournalCap THEN SubSeq(all, Len(all) - JournalCap + 1, Len(all))
                                 ELSE all

Registered(c) == phase[c] = "live"
Full(c) == Len(queue[c]) >= QueueCap

\* Every registered subscriber gets the message, or is kicked when its queue
\* is full.
Broadcast(e) ==
    /\ queue' = [c \in Clients |-> IF Registered(c) /\ ~Full(c)
                                     THEN Append(queue[c], e) ELSE queue[c]]
    /\ phase' = [c \in Clients |-> IF Registered(c) /\ Full(c)
                                     THEN "kicked" ELSE phase[c]]

CurrentOrReplaced(s, r) == r <= started    \* mutant: any runtime ever started may speak
Current(s, r) == active[s] = r

\* A forwarding thread of runtime r hands the hub an event: dropped unless r is
\* still the session's runtime.  Terminal output is not journaled.
Emit(s, r, replayable) ==
    /\ HubFree
    /\ Current(s, r)
    /\ Cardinality(emitted) < MaxEvents
    /\ LET k == <<s, r>>
           e == [session |-> s, runtime |-> r, epoch |-> epoch, seq |-> nextSeq[k] + 1]
       IN  /\ nextSeq' = [nextSeq EXCEPT ![k] = @ + 1]
           /\ journal' = IF replayable
                           THEN [journal EXCEPT ![k] = Journaled(@, e)]
                           ELSE journal
           /\ Broadcast(e)
           /\ emitted' = emitted \cup {e}
    /\ UNCHANGED <<epoch, started, active, lock, cursor, log, cut, drops>>

----------------------------------------------------------------------------
(* A connection *)

\* The client opens a socket and says hello with its cursors; the daemon
\* answers before it subscribes the connection.
Connect(c) ==
    /\ phase[c] = "down"
    /\ phase' = [phase EXCEPT ![c] = "greeted"]
    /\ UNCHANGED <<hubVars, queue, lock, cursor, log, cut, drops>>

\* Hub::subscribe takes the hub lock, registers the subscriber and starts to
\* replay the journals.
Subscribe(c) ==
    /\ HubFree
    /\ phase[c] = "greeted"
    /\ phase' = [phase EXCEPT ![c] = "live"]
    /\ lock' = [holder |-> c, keys |-> {k \in Keys : journal[k] # <<>>}]
    /\ UNCHANGED <<hubVars, queue, cursor, log, cut, drops>>

ResumeFromAnyEpoch(c, k) == cursor[c][k].seq   \* mutant: ignores the daemon process

\* The sequence a client resumes a runtime from: 0 without a cursor of this
\* daemon process.
ResumeFrom(c, k) == IF cursor[c][k].epoch = epoch THEN cursor[c][k].seq ELSE 0

\* The journaled events above n.  A journal is in sequence order, so they are
\* what follows the ones at or below n.
Unseen(j, n) ==
    SubSeq(j, Cardinality({i \in DOMAIN j : j[i].seq <= n}) + 1, Len(j))

\* The longest part of what must be replayed that the queue has room for.
Fitting(q, j) == IF Len(j) > QueueCap - Len(q) THEN SubSeq(j, 1, QueueCap - Len(q)) ELSE j

\* One journal of the map, in the map's arbitrary order.  A full queue ends the
\* whole replay, and the subscriber stays registered.
ReplayJournal(c, k) ==
    /\ lock.holder = c
    /\ k \in lock.keys
    /\ LET unseen == Unseen(journal[k], ResumeFrom(c, k))
           fits == Fitting(queue[c], unseen)
       IN  /\ queue' = [queue EXCEPT ![c] = @ \o fits]
           /\ lock' = IF Len(fits) < Len(unseen) THEN [lock EXCEPT !.keys = {}]
                                                 ELSE [lock EXCEPT !.keys = @ \ {k}]
           /\ cut' = IF Len(fits) < Len(unseen) THEN cut \cup ({c} \X lock.keys) ELSE cut
    /\ UNCHANGED <<hubVars, phase, cursor, log, drops>>

SubscribeDone(c) ==
    /\ lock.holder = c
    /\ lock.keys = {}
    /\ lock' = Unlocked
    /\ UNCHANGED <<hubVars, phase, queue, cursor, log, cut, drops>>

\* The client's socket thread: what is at or below its cursor is a duplicate.
Accepts(c, e) ==
    LET previous == cursor[c][Key(e)]
    IN  ~(previous.epoch = e.epoch /\ e.seq <= previous.seq)

AdvanceForgotten(c, e) == cursor           \* mutant: the cursor is never stored

\* The accepted event moves the runtime's cursor.
Advance(c, e) == [cursor EXCEPT ![c][Key(e)] = [epoch |-> e.epoch, seq |-> e.seq]]

\* The connection thread writes the oldest queued message and the client reads
\* it.  A kicked connection drains its queue until it looks at the kick.
Deliver(c) ==
    /\ phase[c] \in {"live", "kicked"}
    /\ lock.holder # c
    /\ queue[c] # <<>>
    /\ queue' = [queue EXCEPT ![c] = Tail(@)]
    /\ LET e == Head(queue[c])
       IN  IF Accepts(c, e)
             THEN /\ cursor' = Advance(c, e)
                  /\ log' = [log EXCEPT ![c] = Append(@, e)]
             ELSE UNCHANGED <<cursor, log>>
    /\ UNCHANGED <<hubVars, phase, lock, cut, drops>>

Hangup(c) ==
    /\ phase' = [phase EXCEPT ![c] = "down"]
    /\ queue' = [queue EXCEPT ![c] = <<>>]

\* The connection thread sees the kick and closes; what is queued is dropped.
CloseKicked(c) ==
    /\ phase[c] = "kicked"
    /\ Hangup(c)
    /\ UNCHANGED <<hubVars, lock, cursor, log, cut, drops>>

\* The network breaks, or a stalled write times out.
Disconnect(c) ==
    /\ phase[c] # "down"
    /\ lock.holder # c
    /\ drops < MaxDrops
    /\ drops' = drops + 1
    /\ Hangup(c)
    /\ UNCHANGED <<hubVars, lock, cursor, log, cut>>

\* The daemon process is replaced: a new epoch, empty maps, no connection.
RestartDaemon ==
    /\ epoch < MaxEpochs
    /\ epoch' = epoch + 1
    /\ started' = 0
    /\ active' = [s \in Sessions |-> NoRuntime]
    /\ nextSeq' = [k \in Keys |-> 0]
    /\ journal' = [k \in Keys |-> <<>>]
    /\ phase' = [c \in Clients |-> "down"]
    /\ queue' = [c \in Clients |-> <<>>]
    /\ lock' = Unlocked
    /\ cut' = {}
    /\ UNCHANGED <<cursor, log, emitted, drops>>

----------------------------------------------------------------------------
ClientStep(c) ==
    \/ Connect(c)
    \/ Subscribe(c)
    \/ \E k \in Keys : ReplayJournal(c, k)
    \/ SubscribeDone(c)
    \/ Deliver(c)
    \/ CloseKicked(c)

Next ==
    \/ \E s \in Sessions : BeginRuntime(s)
    \/ \E s \in Sessions, r \in Runtimes \cup {NoRuntime} : EndRuntime(s, r)
    \/ \E s \in Sessions, r \in Runtimes, replayable \in BOOLEAN : Emit(s, r, replayable)
    \/ \E c \in Clients : ClientStep(c)
    \/ \E c \in Clients : Disconnect(c)
    \/ RestartDaemon

Spec == Init /\ [][Next]_vars

(* A connection thread keeps polling its socket and its queue, and the     *)
(* supervisor's monitor keeps reconnecting a client that is down, as it    *)
(* does for a remote daemon (SessionHandoff: not for a managed one);       *)
(* nothing forces a provider to speak or the network to break.             *)
FairSpec == Spec /\ \A c \in Clients : WF_vars(ClientStep(c))

----------------------------------------------------------------------------
(* Properties *)

Delivered(c) == {log[c][i] : i \in DOMAIN log[c]}

\* Within one runtime of one daemon process a client's socket thread lets the
\* events through in sequence order and none twice, whatever was replayed,
\* kicked, resumed or broadcast in between (client.rs, run_client).
DeliveredInOrder ==
    \A c \in Clients : \A i, j \in DOMAIN log[c] :
        /\ i < j
        /\ Key(log[c][i]) = Key(log[c][j])
        /\ log[c][i].epoch = log[c][j].epoch
        => log[c][i].seq < log[c][j].seq

\* A client's cursor never passes an event it was not given while the hub still
\* holds that event: so reconnecting with the cursor loses nothing the journal
\* could have replayed, unless a full queue has cut the replay of that journal
\* short (server.rs, subscribe and broadcast).
NoSilentGap ==
    \A c \in Clients, k \in Keys : \A i \in DOMAIN journal[k] :
        LET e == journal[k][i]
        IN  /\ cursor[c][k].epoch = e.epoch
            /\ e.seq <= cursor[c][k].seq
            /\ <<c, k>> \notin cut
            => e \in Delivered(c)

\* Only the runtime a session is running has a journal, in sequence order and
\* up to its counter: no ended runtime is replayed or kept in memory
\* (server.rs, begin_runtime, end_runtime and emit).
JournalOfActive ==
    \A k \in Keys :
        /\ journal[k] # <<>> => active[k[1]] = k[2]
        /\ Len(journal[k]) <= JournalCap
        /\ \A i, j \in DOMAIN journal[k] : i < j => journal[k][i].seq < journal[k][j].seq
        /\ \A i \in DOMAIN journal[k] : journal[k][i].seq <= nextSeq[k]

\* The event path implements the abstract stream.
Stream == INSTANCE EventStream WITH published <- emitted
ImplementsStream == Stream!Spec

\* A journaled event reaches every client, unless it leaves the journal first or
\* a full queue cuts the client's replay of that journal short: kicks and broken
\* connections only delay it (server.rs, subscribe and broadcast).
InJournal(k, m, n) == \E i \in DOMAIN journal[k] :
                          journal[k][i].epoch = m /\ journal[k][i].seq = n
HasSeen(c, k, m, n) == \E e \in Delivered(c) : Key(e) = k /\ e.epoch = m /\ e.seq = n
EventuallyCaughtUp ==
    \A c \in Clients, k \in Keys, m \in 1..MaxEpochs, n \in 1..MaxEvents :
        InJournal(k, m, n) ~>
            (HasSeen(c, k, m, n) \/ ~InJournal(k, m, n) \/ <<c, k>> \in cut)
=============================================================================
