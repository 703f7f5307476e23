------------------------------ MODULE TaskSync ------------------------------
(***************************************************************************)
(* How several clients and the daemon keep copies of one task: a client    *)
(* edits its copy, follows a runtime, and sends its whole copy to the      *)
(* daemon (SaveTaskState), which runs every such notification on a thread  *)
(* of its own and merges it into the stored task (daemon.rs).              *)
(*                                                                         *)
(* Abstractions.  A transcript is the number of events of each runtime it  *)
(* holds; each runtime runs one turn of MaxEvents events, and a client     *)
(* that gets fewer was cut off.  Clocks agree and count seconds, so that   *)
(* several edits share one.  Titles and removals are in TaskCatalog.  That *)
(* loading a stored transcript changes nothing else, and that a save       *)
(* reaches the disk, is what StateStore is about; that a client gets the   *)
(* events above its cursor in order is what EventHub is about.             *)
(***************************************************************************)
EXTENDS Integers, FiniteSets

CONSTANTS Clients,
          Submitters, Renamers,  \* bound: clients that prompt, clients that rename
          MaxRuntimes,   \* bound: runtimes of the task
          MaxEvents,     \* events of a runtime; the last one ends its turn
          MaxSaves,      \* bound: saves sent
          MaxClock,      \* bound: seconds
          MaxRestarts    \* bound: restarts of the daemon

ASSUME SyncConstants ==
    /\ Submitters \subseteq Clients /\ Renamers \subseteq Clients
    /\ MaxRuntimes \in Nat /\ MaxEvents \in Nat \ {0} /\ MaxSaves \in Nat
    /\ MaxClock \in Nat /\ MaxRestarts \in Nat

Runtimes == 1..MaxRuntimes
NoRuntime == 0
Unread == -1

\* An AgentSession.  cur is the runtime of its runtime_event_cursor, whose
\* sequence is text[cur]; whole is detail_loaded, which is not on the wire.
Copies == [at : 0..MaxClock, busy : BOOLEAN, cur : 0..MaxRuntimes,
           text : [Runtimes -> 0..MaxEvents], whole : BOOLEAN]

VARIABLES
    task,       \* the task as the daemon stores it
    listed,     \* the daemon has only its list columns in memory, no cursor
    running,    \* the runtime in InsulatorBackend.sessions, or NoRuntime
    started,    \* runtimes started so far
    copies,     \* each client's copy
    attached,   \* the runtime each client follows, or NoRuntime
    saves,      \* SaveTaskState notifications on their way, with the active
                \* runtime their thread has read, or Unread
    sent, clock, restarts

storeVars == <<task, listed>>
runtimeVars == <<running, started>>
clientVars == <<copies, attached>>
saveVars == <<saves, sent>>
syncVars == <<storeVars, runtimeVars, clientVars, saveVars, clock, restarts>>

\* list_projection: what LoadTaskState sends, and what a daemon starts from.
Skeleton(c) == [c EXCEPT !.cur = NoRuntime, !.whole = FALSE, !.text = [r \in Runtimes |-> 0]]

\* The task was stored by an earlier daemon, the clients have just listed it.
SyncInit ==
    /\ task = [at |-> 0, busy |-> FALSE, cur |-> NoRuntime,
               text |-> [r \in Runtimes |-> 0], whole |-> TRUE]
    /\ listed = TRUE /\ running = NoRuntime /\ started = 0
    /\ copies = [c \in Clients |-> Skeleton(task)]
    /\ attached = [c \in Clients |-> NoRuntime]
    /\ saves = {} /\ sent = 0 /\ clock = 0 /\ restarts = 0

-----------------------------------------------------------------------------
(* A client edits its copy and sends it                                    *)

Send(copy) ==
    /\ sent < MaxSaves /\ sent' = sent + 1
    /\ saves' = saves \cup {[copy |-> copy, seen |-> Unread, no |-> sent]}

Hold(c, copy) == copies' = [copies EXCEPT ![c] = copy]
HoldAndSend(c, copy) == Hold(c, copy) /\ Send(copy)

\* An edit of the list (a rename), also of a task that is only a skeleton.
Rename(c) ==
    /\ c \in Renamers
    /\ HoldAndSend(c, [copies[c] EXCEPT !.at = clock])
    /\ UNCHANGED <<storeVars, runtimeVars, attached, clock, restarts>>

\* A prompt to a task this client follows no runtime of: Start replaces
\* whatever runtime the daemon has.
Submit(c) ==
    /\ c \in Submitters /\ copies[c].whole /\ ~copies[c].busy
    /\ attached[c] = NoRuntime /\ started < MaxRuntimes
    /\ started' = started + 1 /\ running' = started + 1
    /\ attached' = [attached EXCEPT ![c] = started + 1]
    /\ HoldAndSend(c, [copies[c] EXCEPT !.busy = TRUE, !.at = clock])
    /\ UNCHANGED <<storeVars, clock, restarts>>

\* RuntimeEventCursorAdvanced and the event it came with.  The copy is saved
\* at the end of the turn, and now and then before.
Receive(c) ==
    LET r == attached[c]
        last == copies[c].text[r] + 1 = MaxEvents
        copy == [copies[c] EXCEPT !.cur = r, !.text[r] = @ + 1, !.at = clock, !.busy = ~last]
    IN /\ r # NoRuntime /\ copies[c].text[r] < MaxEvents
       /\ \/ HoldAndSend(c, copy)
          \/ ~last /\ Hold(c, copy) /\ UNCHANGED saveVars
       /\ UNCHANGED <<storeVars, runtimeVars, attached, clock, restarts>>

\* The runtime exited or was replaced, or the connection to it broke.
Detach(c) ==
    /\ attached[c] # NoRuntime /\ attached[c] # running
    /\ attached' = [attached EXCEPT ![c] = NoRuntime]
    /\ IF copies[c].busy
       THEN HoldAndSend(c, [copies[c] EXCEPT !.busy = FALSE, !.at = clock])
       ELSE UNCHANGED <<copies, saveVars>>
    /\ UNCHANGED <<storeVars, runtimeVars, clock, restarts>>

-----------------------------------------------------------------------------
(* A client loads and follows the task                                     *)

\* The daemon reads the transcript before it answers.
Hydrate(c) ==
    /\ ~copies[c].whole
    /\ Hold(c, task) /\ listed' = FALSE
    /\ UNCHANGED <<task, runtimeVars, attached, saveVars, clock, restarts>>

\* merge_remote_session_catalog: status and time of a task without a local
\* runtime.
Refresh(c) ==
    /\ attached[c] = NoRuntime
    /\ Hold(c, [copies[c] EXCEPT !.at = task.at, !.busy = task.busy])
    /\ UNCHANGED <<storeVars, runtimeVars, attached, saveVars, clock, restarts>>

\* attach_driver and finish_runtime_attachment: the stored task replaces the
\* client's, and the events above its cursor follow.
Attach(c) ==
    /\ running # NoRuntime /\ attached[c] = NoRuntime
    /\ Hold(c, task) /\ listed' = FALSE
    /\ attached' = [attached EXCEPT ![c] = running]
    /\ UNCHANGED <<task, runtimeVars, saveVars, clock, restarts>>

-----------------------------------------------------------------------------
(* The daemon merges a save                                                *)

\* SaveTaskState reads the active runtimes before it locks the tasks.
ReadActive(s) ==
    /\ s \in saves /\ s.seen = Unread
    /\ saves' = (saves \ {s}) \cup {[s EXCEPT !.seen = running]}
    /\ UNCHANGED <<storeVars, runtimeVars, clientVars, sent, clock, restarts>>

KnownCursor == IF listed THEN NoRuntime ELSE task.cur

\* mutant: compares cursors and clocks, but does not ask which runtime is active
PrecedesByClock(s) ==
    LET known == KnownCursor
    IN IF known # NoRuntime /\ known = s.copy.cur THEN s.copy.text[known] < task.text[known]
       ELSE s.copy.at < task.at

\* mutant: a cursor of the same runtime is not compared
PrecedesByRuntime(s) ==
    IF s.seen # NoRuntime /\ (KnownCursor = s.seen) # (s.copy.cur = s.seen)
    THEN KnownCursor = s.seen ELSE s.copy.at < task.at

\* session_projection_precedes
Precedes(s) ==
    LET known == KnownCursor
        new == s.copy.cur
        oneIsActive == s.seen # NoRuntime /\ (known = s.seen) # (new = s.seen)
        sameRuntime == known # NoRuntime /\ known = new
        silent == known # NoRuntime /\ new = NoRuntime /\ task.busy
    IN \/ oneIsActive /\ known = s.seen
       \/ ~oneIsActive /\ sameRuntime /\ s.copy.text[known] < task.text[known]
       \/ ~oneIsActive /\ ~sameRuntime /\ (silent \/ s.copy.at < task.at)

\* merge_stale_session_metadata
MergedMetadata(copy) == IF copy.at >= task.at THEN [task EXCEPT !.at = copy.at] ELSE task

\* What the daemon takes over as it is; it cannot tell a skeleton.
Received(copy) == [copy EXCEPT !.whole = TRUE]

MergeSave(s) ==
    /\ s \in saves /\ s.seen # Unread
    /\ saves' = saves \ {s}
    /\ IF Precedes(s)
       THEN task' = MergedMetadata(s.copy) /\ UNCHANGED listed
       ELSE task' = Received(s.copy) /\ listed' = FALSE
    /\ UNCHANGED <<runtimeVars, clientVars, sent, clock, restarts>>

-----------------------------------------------------------------------------
EndRuntime ==
    /\ running # NoRuntime /\ running' = NoRuntime
    /\ UNCHANGED <<storeVars, started, clientVars, saveVars, clock, restarts>>

\* A new process: requests die with their connections, the runtime ends, the
\* task is listed again.
RestartDaemon ==
    /\ restarts < MaxRestarts /\ restarts' = restarts + 1
    /\ listed' = TRUE /\ running' = NoRuntime /\ saves' = {}
    /\ UNCHANGED <<task, started, clientVars, sent, clock>>

Tick ==
    /\ clock < MaxClock /\ clock' = clock + 1
    /\ UNCHANGED <<storeVars, runtimeVars, clientVars, saveVars, restarts>>

-----------------------------------------------------------------------------
Client(c) ==
    \/ Rename(c) \/ Submit(c) \/ Receive(c) \/ Detach(c)
    \/ Hydrate(c) \/ Refresh(c) \/ Attach(c)
Daemon == \E s \in saves : ReadActive(s) \/ MergeSave(s)

SyncNext ==
    \/ \E c \in Clients : Client(c)
    \/ Daemon \/ EndRuntime \/ RestartDaemon \/ Tick

SyncSpec == SyncInit /\ [][SyncNext]_syncVars

-----------------------------------------------------------------------------
\* Copies are well formed, and no time, runtime or event is made up on the way.
SyncTypeOK ==
    /\ task \in Copies /\ listed \in BOOLEAN
    /\ running \in 0..MaxRuntimes /\ started \in 0..MaxRuntimes
    /\ copies \in [Clients -> Copies] /\ attached \in [Clients -> 0..MaxRuntimes]
    /\ saves \subseteq [copy : Copies, seen : -1..MaxRuntimes, no : 0..MaxSaves]
    /\ sent \in 0..MaxSaves /\ clock \in 0..MaxClock /\ restarts \in 0..MaxRestarts

\* The saves merged in this step (a restart merges none).
Merged == {s \in saves \ saves' : s.seen # Unread /\ restarts' = restarts}

\* The transcript loses an event in this step.
Shrinks == \E r \in Runtimes : task'.text[r] < task.text[r]

\* While a runtime is active, what the daemon stores of it only grows, and is
\* never behind a save it has merged: old and overtaken copies of this runtime,
\* copies of an earlier one and skeletons do not take an event back.  The one
\* exception is a save that read the active runtimes before this one started.
LiveTranscriptKept ==
    [][\A s \in Merged :
          running # NoRuntime /\ s.seen = running =>
             /\ task.cur = running => task'.text[running] >= task.text[running]
             /\ s.copy.cur = running => task'.text[running] >= s.copy.text[running]]_syncVars

\* A client that never loaded what runtimes before its cursor's have said.
StaleBase(copy) == \E r \in Runtimes : r # copy.cur /\ copy.text[r] < task.text[r]

\* A save takes something from the stored transcript only if it is a skeleton,
\* if it raced a start, if the daemon restarted and does not know its task's
\* cursor, or if its client never loaded what another runtime has said since.
HistoryKept ==
    [][\A s \in Merged : Shrinks =>
          ~s.copy.whole \/ s.seen # running \/ listed \/ StaleBase(s.copy)]_syncVars

\* model.rs:1110: "never persist a skeleton, and never conclude from one that a
\* session has no history" - here not even without a race.
SkeletonNeverStored ==
    [][\A s \in Merged : Shrinks /\ s.seen = running => s.copy.whole]_syncVars
=============================================================================
