--------------------------- MODULE SessionHandoff ---------------------------
(***************************************************************************)
(* How the desktop keeps one provider runtime attached across connections: *)
(* the client's socket thread and its subscriptions                        *)
(* (crates/insulator-client/src/client.rs), the supervisor that replaces a *)
(* lost connection or a dead daemon (process.rs, monitor_daemon), and the  *)
(* runtime adapter that forwards the runtime's events to the desktop and   *)
(* hands itself over to the replacement (src/driver/mod.rs, connect_remote).*)
(*                                                                         *)
(* Abstractions.  One session, one runtime, started in the first daemon    *)
(* process and never closed by another client.  The hub of the daemon      *)
(* delivers everything above a connection's cursor in order (EventHub);    *)
(* an event is its sequence number.  Connections are numbered as they are  *)
(* opened.  A spawn of the daemon that fails is a later spawn.             *)
(***************************************************************************)
EXTENDS Integers, Sequences

CONSTANTS Locals,        \* DaemonTarget::Local (TRUE), ::Remote (FALSE), or either
          ReplayCursor,  \* the cursor the desktop attaches with, 0 for none
          BufferCap,     \* MAX_BUFFERED_EVENTS_PER_RUNTIME
          MaxSeq,        \* bound: events of the runtime
          MaxProcesses,  \* bound: daemon processes
          MaxDrops,      \* bound: connections closed while the daemon lives
          MaxTimeouts    \* bound: AttachSession requests that time out

ASSUME ConstantsAssumption ==
    /\ Locals \subseteq BOOLEAN
    /\ ReplayCursor \in Nat /\ MaxSeq \in Nat /\ ReplayCursor <= MaxSeq
    /\ BufferCap \in Nat \ {0} /\ MaxProcesses \in Nat \ {0}
    /\ MaxDrops \in Nat /\ MaxTimeouts \in Nat

\* Each replacement follows the loss of a connection: these suffice.
Connections == 1..(MaxDrops + MaxProcesses)
Seqs == 1..MaxSeq

VARIABLES
    \* the daemon
    process,     \* which daemon process
    up,          \* it is running
    emitted,     \* the last sequence number of the runtime
    exited,      \* that event was processExited
    \* the connections: ClientInner and its socket thread
    life,        \* "unborn", "open", "closing" (disconnected is set), "dead"
    owner,       \* the daemon process a connection talks to
    cursor,      \* last_sequences
    buffer,      \* pending_events
    overrun,     \* history: the events that a full buffer dropped
    sender,      \* the entry in sessions: "none", "held", "dropped" by the thread
    inbox,       \* what the subscription's receiver holds
    \* the supervisor
    local,       \* the kind of SupervisorInner.target; it never changes
    target,      \* the connection of SupervisorInner.target
    monitor,     \* "idle", or "publishing" a replacement
    updates,     \* the adapter's receiver of client_updates
    \* the adapter thread of connect_remote
    pc, client, candidate,
    forwarded,   \* history: the events given to the desktop
    reported,    \* history: the desktop was told that the process exited
    missed,      \* history: the connections it gave up before it subscribed to them
    drops, timeouts

daemonVars == <<process, up, emitted, exited>>
connectionVars == <<life, owner, cursor, buffer, overrun, sender, inbox>>
supervisorVars == <<local, target, monitor, updates>>
adapterVars == <<pc, client, candidate, forwarded, reported, missed>>
vars == <<daemonVars, connectionVars, supervisorVars, adapterVars, drops, timeouts>>

TypeOK ==
    /\ process \in 1..MaxProcesses /\ up \in BOOLEAN
    /\ emitted \in 0..MaxSeq /\ exited \in BOOLEAN
    /\ life \in [Connections -> {"unborn", "open", "closing", "dead"}]
    /\ owner \in [Connections -> 0..MaxProcesses]
    /\ cursor \in [Connections -> 0..MaxSeq]
    /\ buffer \in [Connections -> Seq(Seqs)]
    /\ \A c \in Connections : Len(buffer[c]) <= BufferCap
    /\ sender \in [Connections -> {"none", "held", "dropped"}]
    /\ inbox \in [Connections -> Seq(Seqs)]
    /\ local \in Locals /\ target \in Connections /\ monitor \in {"idle", "publishing"}
    /\ updates \in Seq(Connections)
    /\ pc \in {"registering", "subscribing", "forwarding", "waiting", "attaching", "ended"}
    /\ client \in Connections /\ candidate \in Connections
    /\ forwarded \in Seq(Seqs) /\ reported \in BOOLEAN
    /\ missed \subseteq Connections /\ overrun \subseteq Seqs
    /\ drops \in 0..MaxDrops /\ timeouts \in 0..MaxTimeouts

\* The desktop has started or attached the runtime through connection 1.
Init ==
    /\ process = 1 /\ up = TRUE /\ emitted = ReplayCursor /\ exited = FALSE
    /\ life = [c \in Connections |-> IF c = 1 THEN "open" ELSE "unborn"]
    /\ owner = [c \in Connections |-> IF c = 1 THEN 1 ELSE 0]
    /\ cursor = [c \in Connections |-> 0]
    /\ buffer = [c \in Connections |-> <<>>]
    /\ sender = [c \in Connections |-> "none"]
    /\ inbox = [c \in Connections |-> <<>>]
    /\ local \in Locals /\ target = 1 /\ monitor = "idle" /\ updates = <<>>
    /\ pc = "registering" /\ client = 1 /\ candidate = 1
    /\ forwarded = <<>> /\ reported = FALSE
    /\ missed = {} /\ overrun = {}
    /\ drops = 0 /\ timeouts = 0

----------------------------------------------------------------------------
(* The daemon *)

\* The runtime of the session lives in the first daemon process.
HeldByNobody == FALSE                    \* mutant: the answer is misread
Held == process = 1

\* The provider speaks; its last event says that it exited.
Emit(last) ==
    /\ up /\ Held /\ ~exited /\ emitted < MaxSeq
    /\ emitted' = emitted + 1
    /\ exited' = last
    /\ UNCHANGED <<process, up, connectionVars, supervisorVars, adapterVars, drops, timeouts>>

\* The process dies, or reconfigure or a rebuild tears it down.
StopDaemon ==
    /\ up /\ process < MaxProcesses
    /\ up' = FALSE
    /\ UNCHANGED <<process, emitted, exited, connectionVars, supervisorVars, adapterVars,
                   drops, timeouts>>

\* Whoever manages a remote daemon starts it again.
RestartService ==
    /\ ~local /\ ~up
    /\ up' = TRUE /\ process' = process + 1
    /\ UNCHANGED <<emitted, exited, connectionVars, supervisorVars, adapterVars, drops, timeouts>>

----------------------------------------------------------------------------
(* A socket thread: run_client *)

Elements(q) == {q[i] : i \in DOMAIN q}

Buffered(q, n) == IF Len(q) < BufferCap THEN Append(q, n) ELSE Append(Tail(q), n)

\* The next event goes to the subscription, or waits for one.
Deliver(c) ==
    /\ life[c] = "open" /\ up /\ owner[c] = process /\ Held
    /\ cursor[c] < emitted
    /\ LET n == cursor[c] + 1
       IN  /\ cursor' = [cursor EXCEPT ![c] = n]
           /\ IF sender[c] = "held"
                THEN inbox' = [inbox EXCEPT ![c] = Append(@, n)] /\ UNCHANGED <<buffer, overrun>>
                ELSE /\ buffer' = [buffer EXCEPT ![c] = Buffered(@, n)]
                     /\ overrun' = overrun \cup (Elements(buffer[c]) \ Elements(Buffered(buffer[c], n)))
                     /\ UNCHANGED inbox
    /\ UNCHANGED <<daemonVars, life, owner, sender, supervisorVars, adapterVars, drops, timeouts>>

\* The socket closes: a dead daemon, or a kick, a stalled write, the network.
Lose(c) ==
    /\ life[c] = "open"
    /\ life' = [life EXCEPT ![c] = "closing"]
    /\ UNCHANGED <<daemonVars, owner, cursor, buffer, overrun, sender, inbox, supervisorVars,
                   adapterVars, timeouts>>
LoseDaemon(c) == (~up \/ owner[c] # process) /\ Lose(c) /\ UNCHANGED drops
Drop(c) == drops < MaxDrops /\ drops' = drops + 1 /\ Lose(c)

\* The thread drops the subscriptions it knows and ends.
DropSubscriptions(c) ==
    /\ life[c] = "closing"
    /\ life' = [life EXCEPT ![c] = "dead"]
    /\ sender' = [sender EXCEPT ![c] = IF @ = "held" THEN "dropped" ELSE @]
    /\ UNCHANGED <<daemonVars, owner, cursor, buffer, overrun, inbox, supervisorVars, adapterVars,
                   drops, timeouts>>

----------------------------------------------------------------------------
(* The supervisor: monitor_daemon and replace_local_daemon *)

Disconnected(c) == life[c] \in {"closing", "dead"}

\* The target becomes a new connection that resumes from cursor n.
Replace(c, n) ==
    /\ life[c] = "unborn" /\ \A d \in Connections : d < c => life[d] # "unborn"
    /\ life' = [life EXCEPT ![c] = "open"]
    /\ owner' = [owner EXCEPT ![c] = process']
    /\ cursor' = [cursor EXCEPT ![c] = n]
    /\ target' = c
    /\ monitor' = "publishing"
    /\ missed' = IF pc = "registering" /\ target # client THEN missed \cup {target} ELSE missed
    /\ UNCHANGED <<emitted, exited, buffer, overrun, sender, inbox, local, updates, pc, client,
                   candidate, forwarded, reported, drops, timeouts>>

ResumeNowhere == 0                       \* mutant: reconnects without its cursors
ResumeFrom == cursor[target]

\* A remote connection that was lost is opened again with its cursors.
Reconnect(c) ==
    /\ ~local /\ monitor = "idle"
    /\ Disconnected(target) /\ up
    /\ UNCHANGED <<process, up>>
    /\ Replace(c, ResumeFrom)

\* A local daemon that exited or was torn down is spawned again.
Respawn(c) ==
    /\ local /\ monitor = "idle"
    /\ ~up
    /\ up' = TRUE /\ process' = process + 1
    /\ Replace(c, 0)

\* The replacement is sent to the adapter, if it has registered.
Publish ==
    /\ monitor = "publishing"
    /\ monitor' = "idle"
    /\ updates' = IF pc = "registering" THEN updates ELSE Append(updates, target)
    /\ UNCHANGED <<daemonVars, connectionVars, local, target, adapterVars, drops, timeouts>>

----------------------------------------------------------------------------
(* The runtime adapter: connect_remote *)

\* subscribe_clients: the present client, then each replacement.
Register ==
    /\ pc = "registering"
    /\ updates' = <<target>>
    /\ pc' = "subscribing"
    /\ UNCHANGED <<daemonVars, connectionVars, local, target, monitor, client, candidate, forwarded,
                   reported, missed, drops, timeouts>>

DrainedNothing(c) == <<>>                \* mutant: what was buffered is forgotten
Drained(c) == buffer[c]

\* DaemonClient::subscribe: whatever the connection has become meanwhile.
Subscribe ==
    /\ pc = "subscribing"
    /\ sender' = [sender EXCEPT ![client] = "held"]
    /\ inbox' = [inbox EXCEPT ![client] = Drained(client)]
    /\ buffer' = [buffer EXCEPT ![client] = <<>>]
    /\ pc' = "forwarding"
    /\ UNCHANGED <<daemonVars, life, owner, cursor, overrun, supervisorVars, client, candidate,
                   forwarded, reported, missed, drops, timeouts>>

Unsubscribe == sender' = [sender EXCEPT ![client] = "none"]

\* An event the desktop has not got yet; the adapter ends with processExited.
Forward ==
    /\ pc = "forwarding" /\ inbox[client] # <<>>
    /\ inbox' = [inbox EXCEPT ![client] = Tail(@)]
    /\ LET n == Head(inbox[client])
           last == n > ReplayCursor /\ exited /\ n = emitted
       IN  /\ forwarded' = IF n > ReplayCursor THEN Append(forwarded, n) ELSE forwarded
           /\ reported' = (reported \/ last)
           /\ IF last THEN pc' = "ended" /\ Unsubscribe ELSE UNCHANGED <<pc, sender>>
    /\ UNCHANGED <<daemonVars, life, owner, cursor, buffer, overrun, supervisorVars, client,
                   candidate, missed, drops, timeouts>>

\* The receiver is empty and its sender is gone.
SeeClosed ==
    /\ pc = "forwarding" /\ inbox[client] = <<>> /\ sender[client] = "dropped"
    /\ Unsubscribe
    /\ pc' = "waiting"
    /\ UNCHANGED <<daemonVars, life, owner, cursor, buffer, overrun, inbox, supervisorVars, client,
                   candidate, forwarded, reported, missed, drops, timeouts>>

SameAlways(c) == TRUE                    \* mutant: no client counts as a replacement
Same(c) == c = client

\* The next published client, unless it is the one that was lost.
TakeUpdate ==
    /\ pc = "waiting" /\ updates # <<>>
    /\ updates' = Tail(updates)
    /\ IF Same(Head(updates)) THEN UNCHANGED <<pc, candidate>>
                              ELSE pc' = "attaching" /\ candidate' = Head(updates)
    /\ UNCHANGED <<daemonVars, connectionVars, local, target, monitor, client, forwarded, reported,
                   missed, drops, timeouts>>

\* AttachSession is answered: the daemon still holds the runtime, or not.
AttachAnswered ==
    /\ pc = "attaching"
    /\ life[candidate] = "open" /\ up /\ owner[candidate] = process
    /\ IF Held THEN pc' = "subscribing" /\ client' = candidate /\ UNCHANGED reported
               ELSE pc' = "ended" /\ reported' = TRUE /\ UNCHANGED client
    /\ UNCHANGED <<daemonVars, connectionVars, supervisorVars, candidate, forwarded, missed, drops,
                   timeouts>>

\* It fails because the connection was lost too, or it times out.
AttachFails ==
    /\ pc = "attaching"
    /\ \/ Disconnected(candidate) /\ UNCHANGED timeouts
       \/ life[candidate] = "open" /\ timeouts < MaxTimeouts /\ timeouts' = timeouts + 1
    /\ client' = candidate
    /\ missed' = missed \cup {candidate}
    /\ pc' = "waiting"
    /\ UNCHANGED <<daemonVars, connectionVars, supervisorVars, candidate, forwarded, reported,
                   drops>>

\* The desktop drops its handle; the adapter looks when it waits.
CloseHandle ==
    /\ pc \in {"forwarding", "waiting"}
    /\ pc' = "ended"
    /\ UNCHANGED <<daemonVars, connectionVars, supervisorVars, client, candidate, forwarded,
                   reported, missed, drops, timeouts>>

----------------------------------------------------------------------------
SocketStep(c) == Deliver(c) \/ LoseDaemon(c) \/ DropSubscriptions(c)
MonitorStep == Publish \/ \E c \in Connections : Reconnect(c) \/ Respawn(c)
AdapterStep ==
    Register \/ Subscribe \/ Forward \/ SeeClosed \/ TakeUpdate \/ AttachAnswered \/ AttachFails

Next ==
    \/ \E last \in BOOLEAN : Emit(last)
    \/ StopDaemon
    \/ RestartService
    \/ \E c \in Connections : SocketStep(c)
    \/ \E c \in Connections : Drop(c)
    \/ MonitorStep
    \/ AdapterStep
    \/ CloseHandle

Spec == Init /\ [][Next]_vars

(* Every thread keeps running: a socket thread polls its socket, the       *)
(* monitor polls its target, the adapter waits on channels and on replies. *)
(* Nothing forces a provider to speak, a connection or a daemon to break,  *)
(* a remote daemon to come back or the desktop to close.                   *)
FairSpec ==
    /\ Spec
    /\ \A c \in Connections : WF_vars(SocketStep(c))
    /\ WF_vars(MonitorStep)
    /\ WF_vars(AdapterStep)

----------------------------------------------------------------------------
(* Properties *)

\* The desktop gets the runtime's events in order and none twice, however many
\* connections they came through (connect_remote, connect_with_resume).
ForwardedInOrder ==
    \A i, j \in DOMAIN forwarded : i < j => forwarded[i] < forwarded[j]

\* The adapter has yet to subscribe to connection c: it is about to, asks for the
\* runtime there, or finds c among the published connections.
Awaited(c) ==
    \/ pc \in {"registering", "subscribing"} /\ c = client
    \/ pc = "attaching" /\ c = candidate
    \/ c # client /\ pc # "ended" /\ c \in Elements(updates)
    \/ c = target /\ pc # "ended" /\ c # client /\ (pc = "registering" \/ monitor = "publishing")

\* The desktop still gets event n: it has it, or the adapter's receiver does, or
\* a connection that the adapter has yet to subscribe to.
Underway(n) ==
    \/ n \in Elements(forwarded)
    \/ pc = "forwarding" /\ n \in Elements(inbox[client])
    \/ \E c \in Connections : Awaited(c) /\ n \in Elements(buffer[c])

\* What a cursor has passed, which no later connection asks for again, reaches
\* the desktop unless its adapter has ended.  There are two exceptions: a full
\* buffer dropped it, or it was buffered by a connection that was lost, replaced
\* or slow to answer before the adapter could subscribe to it, and that dies
\* with it (client.rs, subscribe and run_client; driver/mod.rs, connect_remote).
Accounted ==
    \A c \in Connections : \A n \in (ReplayCursor + 1)..cursor[c] :
        \/ pc = "ended"
        \/ Underway(n)
        \/ n \in overrun
        \/ \E d \in missed : n \in Elements(buffer[d])

\* The desktop is told that the process exited only when it did or when the
\* daemon that ran it is gone: losing connections is not evidence (client.rs:355,
\* driver/mod.rs:148).
ExitIsReal == reported => exited \/ ~up \/ process > 1

\* The adapter forwards the runtime from the connection of the supervisor, or has
\* ended.
Settled == pc = "ended" \/ (pc = "forwarding" /\ client = target /\ life[client] = "open")

\* The three ways in which an adapter is left waiting although there is a daemon.
\* It subscribed to a connection whose thread had dropped its subscriptions;
Stranded == pc = "forwarding" /\ sender[client] = "held" /\ life[client] = "dead"
\* it waits for a successor of the connection the supervisor still holds, on which
\* AttachSession timed out;
Unanswered == pc = "waiting" /\ client = target /\ life[client] = "open"
\* a managed daemon lives, but closed the connection.
Unwatched == local /\ Disconnected(target)

\* After every loss the adapter ends up attached or ended, while there is a
\* daemon, but for these three (connect_remote, monitor_daemon).
HandoffCompletes == []<>(Settled \/ Stranded \/ Unanswered \/ Unwatched \/ ~up)
=============================================================================
