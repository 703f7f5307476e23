--------------------------- MODULE SettingsWriter ---------------------------
(***************************************************************************)
(* How the desktop's settings reach the daemon (process.rs in              *)
(* insulator-client): the UI thread records a settings document and queues *)
(* it, a writer thread sends it to the daemon until it is acknowledged,    *)
(* and the supervisor queues it again after it replaced a daemon.          *)
(*                                                                         *)
(* Abstractions.  A settings document is a number; the daemon's copy is on *)
(* disk and survives it.  A managed daemon is replaced in one step.  Only   *)
(* one desktop writes settings, and no request outlives the client's 120 s *)
(* timeout.                                                                *)
(*                                                                         *)
(* SessionHandoff models the rest of the same supervisor.  The two share   *)
(* no name, so that SupervisorProofs can extend both.                      *)
(***************************************************************************)
EXTENDS Integers, Sequences

CONSTANTS Managed,    \* a managed daemon (TRUE), a remote one (FALSE), or either
          MaxValue,   \* bound: documents
          MaxQueued,  \* bound: updates in the channel when the user acts
          MaxLosses   \* bound: daemons or connections lost, writes refused

ASSUME WriterConstants ==
    /\ Managed \subseteq BOOLEAN
    /\ MaxValue \in Nat /\ MaxQueued \in Nat /\ MaxLosses \in Nat

Documents == 0..MaxValue
None == -1

VARIABLES
    managed,    \* the daemon is a child process; it never changes
    settings,   \* SupervisorInner.settings
    persisted,  \* SupervisorInner.persisted_settings
    settingsUpdates, \* the channel of settings_updates
    overlooked, \* history: the last update was not queued, for the writer was
                \* still sending another document over the persisted one
    ui,         \* the UI thread in update_settings: "idle", "check", "send"
    refresh,    \* queue_settings_refresh: "idle", "clone", "clear", "send"
    snapshot,   \* what it cloned
    writerPc,   \* the writer: "recv", "read", "call", "sent", "acked"
    writing,    \* the writer's local settings
    connected,  \* the client of the present target has its connection
    stored,     \* the daemon's settings document
    orphans,    \* requests the daemon still runs for a dead connection
    losses

uiVars == <<settings, overlooked, ui>>
refreshVars == <<refresh, snapshot>>
writerVars == <<writerPc, writing>>
storeVars == <<managed, connected, stored, orphans, losses>>
settingsVars == <<uiVars, persisted, settingsUpdates, refreshVars, writerVars, storeVars>>

\* The desktop starts from the daemon's own document (read_settings).
SettingsInit ==
    /\ managed \in Managed /\ settings = 0 /\ stored = 0
    /\ persisted = None /\ settingsUpdates = <<>>
    /\ overlooked = FALSE /\ ui = "idle" /\ refresh = "idle" /\ snapshot = 0
    /\ writerPc = "recv" /\ writing = 0 /\ connected = TRUE /\ orphans = {} /\ losses = 0

-----------------------------------------------------------------------------
(* The UI thread: update_settings                                          *)

UpdateSettings(v) ==
    /\ ui = "idle" /\ Len(settingsUpdates) < MaxQueued
    /\ settings' = v /\ ui' = "check" /\ overlooked' = FALSE
    /\ UNCHANGED <<persisted, settingsUpdates, refreshVars, writerVars, storeVars>>

PersistedOrBusy == persisted = settings \/ writerPc # "recv"  \* mutant: trusts a busy writer
AlreadyPersisted == persisted = settings

CheckPersisted ==
    /\ ui = "check"
    /\ ui' = IF AlreadyPersisted THEN "idle" ELSE "send"
    /\ overlooked' = (persisted = settings /\ (writerPc # "recv" \/ settingsUpdates # <<>>))
    /\ UNCHANGED <<settings, persisted, settingsUpdates, refreshVars, writerVars, storeVars>>

WithUpdate == Append(settingsUpdates, settings)

QueueUpdate ==
    /\ ui = "send"
    /\ settingsUpdates' = WithUpdate /\ ui' = "idle"
    /\ UNCHANGED <<settings, overlooked, persisted, refreshVars, writerVars, storeVars>>

-----------------------------------------------------------------------------
(* The writer thread: persist_settings                                     *)

\* Wait for an update and take whatever else is queued.
Receive ==
    /\ writerPc = "recv" /\ settingsUpdates # <<>>
    /\ writing' = settingsUpdates[Len(settingsUpdates)]
    /\ settingsUpdates' = <<>> /\ writerPc' = "read"
    /\ UNCHANGED <<uiVars, persisted, refreshVars, storeVars>>

DesiredStale == writing                 \* mutant: sends what it took from the queue
Desired == settings

ReadDesired ==
    /\ writerPc = "read"
    /\ writing' = Desired /\ writerPc' = "call"
    /\ UNCHANGED <<uiVars, persisted, settingsUpdates, refreshVars, storeVars>>

Acknowledged ==
    /\ writerPc = "acked"
    /\ persisted' = writing /\ writerPc' = "recv"
    /\ UNCHANGED <<uiVars, settingsUpdates, refreshVars, writing, storeVars>>

\* Where the writer goes when its request fails.
GiveUp == "recv"                        \* mutant: no retry
AfterError == "read"

\* DaemonClient::request fails at once on a connection that is gone.
SendRequest ==
    /\ writerPc = "call" /\ writerPc' = IF connected THEN "sent" ELSE AfterError
    /\ UNCHANGED <<uiVars, persisted, settingsUpdates, refreshVars, writing, storeVars>>

Lost == losses < MaxLosses /\ losses' = losses + 1

\* With its connection a request fails, unless its acknowledgement had already
\* been received: the writer may act on it only later.
Fail ==
    /\ Lost
    /\ \/ writerPc \in {"sent", "acked"} /\ writerPc' = AfterError
       \/ writerPc # "sent" /\ UNCHANGED writerPc

-----------------------------------------------------------------------------
(* The daemon, and the loss of it                                          *)

Execute ==
    /\ writerPc = "sent"
    /\ stored' = writing /\ writerPc' = "acked"
    /\ UNCHANGED <<uiVars, persisted, settingsUpdates, refreshVars, writing, managed, connected,
                   orphans, losses>>

\* The document could not be written to disk: the daemon answers an error.
Refuse ==
    /\ writerPc = "sent" /\ Lost /\ writerPc' = AfterError
    /\ UNCHANGED <<uiVars, persisted, settingsUpdates, refreshVars, writing, managed, connected,
                   stored, orphans>>

\* The managed daemon exited, was rebuilt or is reconfigured: it is replaced, and
\* its requests die with the process.
Restart ==
    /\ managed /\ refresh = "idle" /\ Fail
    /\ connected' = TRUE /\ orphans' = {} /\ refresh' = "clone"
    /\ UNCHANGED <<uiVars, persisted, settingsUpdates, snapshot, writing, managed, stored>>

\* The connection breaks while the daemon lives; the thread that runs the request
\* does not notice.
Disconnect ==
    /\ connected /\ Fail
    /\ connected' = FALSE
    /\ orphans' = IF writerPc = "sent" THEN orphans \cup {writing} ELSE orphans
    /\ UNCHANGED <<uiVars, persisted, settingsUpdates, refreshVars, writing, managed, stored>>

\* monitor_daemon opens a lost connection to a remote daemon again; of a managed
\* one it watches the process only.
RemoteReconnects ==
    /\ ~managed /\ ~connected
    /\ connected' = TRUE
    /\ UNCHANGED <<uiVars, persisted, settingsUpdates, refreshVars, writerVars, managed, stored,
                   orphans, losses>>

ExecuteOrphan(v) ==
    /\ v \in orphans
    /\ stored' = v /\ orphans' = orphans \ {v}
    /\ UNCHANGED <<uiVars, persisted, settingsUpdates, refreshVars, writerVars, managed, connected,
                   losses>>

-----------------------------------------------------------------------------
(* The supervisor after a replacement: queue_settings_refresh              *)

RefreshClone ==
    /\ refresh = "clone"
    /\ snapshot' = settings /\ refresh' = "clear"
    /\ UNCHANGED <<uiVars, persisted, settingsUpdates, writerVars, storeVars>>

RefreshClear ==
    /\ refresh = "clear"
    /\ persisted' = None /\ refresh' = "send"
    /\ UNCHANGED <<uiVars, settingsUpdates, snapshot, writerVars, storeVars>>

RefreshSend ==
    /\ refresh = "send"
    /\ settingsUpdates' = Append(settingsUpdates, snapshot) /\ refresh' = "idle"
    /\ UNCHANGED <<uiVars, persisted, snapshot, writerVars, storeVars>>

-----------------------------------------------------------------------------
Caller == CheckPersisted \/ QueueUpdate
Writer == Receive \/ ReadDesired \/ SendRequest \/ Acknowledged
Daemon == Execute \/ \E v \in Documents : ExecuteOrphan(v)
Supervisor == RefreshClone \/ RefreshClear \/ RefreshSend \/ RemoteReconnects

SettingsNext ==
    \/ \E v \in Documents : UpdateSettings(v)
    \/ Caller \/ Writer \/ Daemon \/ Supervisor
    \/ Refuse \/ Restart \/ Disconnect

\* Threads run and the daemon answers; the user need not act, and no
\* failure need happen.
SettingsSpec ==
    /\ SettingsInit /\ [][SettingsNext]_settingsVars
    /\ WF_settingsVars(Caller) /\ WF_settingsVars(Writer)
    /\ WF_settingsVars(Daemon) /\ WF_settingsVars(Supervisor)

-----------------------------------------------------------------------------
SettingsTypeOK ==
    /\ managed \in Managed /\ settings \in Documents /\ persisted \in Documents \cup {None}
    /\ settingsUpdates \in Seq(Documents) /\ snapshot \in Documents
    /\ ui \in {"idle", "check", "send"} /\ overlooked \in BOOLEAN
    /\ refresh \in {"idle", "clone", "clear", "send"}
    /\ writerPc \in {"recv", "read", "call", "sent", "acked"}
    /\ writing \in Documents /\ stored \in Documents /\ connected \in BOOLEAN
    /\ orphans \subseteq Documents /\ losses \in 0..MaxLosses

\* What the supervisor remembers as persisted is what the managed daemon
\* stores, whenever the writer waits: neither an acknowledgement that comes after
\* the refresh of a restart, nor a request that a living daemon still runs for a
\* connection it closed, nor a failed write hides a difference (process.rs,
\* queue_settings_refresh and persist_settings).
PersistedIsStored ==
    managed /\ writerPc = "recv" /\ persisted # None => stored = persisted

\* Once the UI, the writer and the supervisor are done, the document that
\* was acknowledged is the one the desktop holds.  The one exception is a user
\* who goes back to the persisted document while another one is on its way:
\* update_settings takes that for an update it need not queue.
SettingsSettled ==
    ui = "idle" /\ refresh = "idle" /\ writerPc = "recv" /\ settingsUpdates = <<>> /\ ~overlooked
        => persisted \in {None, settings}

\* When the user leaves the settings alone, and but for that exception, the
\* managed daemon ends up with the last document, however restarts, broken
\* connections and refused writes fall between the update and its
\* acknowledgement.  A second exception is a daemon that lives on after it closed
\* the connection, Unwatched in SessionHandoff: the writer retries on the dead
\* connection until the daemon is replaced.
EventuallyStored ==
    \A v \in Documents :
        <>[](managed /\ connected /\ settings = v /\ ~overlooked) => <>[](stored = v)
=============================================================================
