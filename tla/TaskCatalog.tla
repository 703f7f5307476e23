----------------------------- MODULE TaskCatalog -----------------------------
(***************************************************************************)
(* How the lists of tasks that several clients show follow the daemon's    *)
(* tasks: a save or a removal is announced to the other clients, each of   *)
(* which loads the list again and merges it into its own (server.rs,       *)
(* daemon.rs, src/app/runtime.rs).  One task; its title stands for what    *)
(* the list shows of it.                                                   *)
(*                                                                         *)
(* Abstractions.  The task has no runtime, so that the merge of a save is  *)
(* decided by its time (TaskSync is about the rest).  Connections hold; a  *)
(* client that connects loads the list first, as Init says.                *)
(***************************************************************************)
EXTENDS Integers, FiniteSets

CONSTANTS Clients,
          Editors,     \* bound: clients that edit or remove; the others watch
          Titles,
          Absent,      \* no such task
          MaxSaves,    \* bound: saves sent
          MaxClock     \* bound: seconds

ASSUME ConstantsAssumption ==
    /\ Editors \subseteq Clients /\ Absent \notin Titles
    /\ MaxSaves \in Nat /\ MaxClock \in Nat

Rows == [title : Titles \cup {Absent}, at : 0..MaxClock]

VARIABLES
    stored,     \* the task in the daemon's state; its title is Absent if it has none
    tombstone,  \* removed_session_ids has it
    entry,      \* HubState.catalog_sessions: the row last announced or loaded
    handling,   \* saves and removals on their threads
    rows,       \* the task in each client's list
    woken,      \* each client's channel of revisions is not empty
    loading,    \* the list each client's LoadTaskState has read, if one runs
    result,     \* the list that waits for each client's UI thread, if any
    sent, clock,
    rewritten,  \* history: a load changed what the entry says of a task that is there
    slipped     \* history: a save was merged within the window of RemoveProject

daemonVars == <<stored, tombstone>>
hubVars == <<entry, woken, rewritten>>
listVars == <<rows, loading, result>>
vars == <<daemonVars, hubVars, listVars, handling, sent, clock, slipped>>

Init ==
    /\ \E t \in Titles : stored = [title |-> t, at |-> 0]
    /\ entry = stored /\ tombstone = FALSE /\ handling = {}
    /\ rows = [c \in Clients |-> stored] /\ woken = [c \in Clients |-> FALSE]
    /\ loading = [c \in Clients |-> {}] /\ result = [c \in Clients |-> {}]
    /\ sent = 0 /\ clock = 0 /\ rewritten = FALSE /\ slipped = FALSE

-----------------------------------------------------------------------------
(* Clients edit their lists                                                *)

Listed(c) == rows[c].title # Absent

\* A rename, or a save of something the list does not show.
Edit(c, t) ==
    LET row == [rows[c] EXCEPT !.title = t, !.at = clock]
    IN /\ c \in Editors /\ Listed(c) /\ sent < MaxSaves
       /\ sent' = sent + 1
       /\ rows' = [rows EXCEPT ![c] = row]
       /\ handling' = handling \cup {[step |-> "save", from |-> c, row |-> row, no |-> sent]}
       /\ UNCHANGED <<daemonVars, hubVars, loading, result, clock, slipped>>

\* The first step of a removal names its command: RemoveSession, RemoveProject.
Remove(c, command) ==
    /\ c \in Editors /\ Listed(c)
    /\ \A h \in handling : h.step = "save" \/ h.step = "saved"
    /\ rows' = [rows EXCEPT ![c].title = Absent]
    /\ handling' = handling \cup
          {[step |-> command, from |-> c, row |-> rows[c], no |-> MaxSaves]}
    /\ UNCHANGED <<daemonVars, hubVars, loading, result, sent, clock, slipped>>

-----------------------------------------------------------------------------
(* The daemon handles saves and removals                                   *)

Becomes(h, step) == handling' = (handling \ {h}) \cup {[h EXCEPT !.step = step]}

\* Everyone but the source is told to load the list again.
WakeNobody(c) == UNCHANGED woken  \* mutant: the revision is counted, not sent
WakeSource(c) == woken' = [woken EXCEPT ![c] = TRUE]  \* mutant: source not excluded but chosen
WakeOthers(c) == woken' = [d \in Clients |-> woken[d] \/ d # c]

\* SaveTaskState under the tasks' lock: without a runtime the newer row wins.
\* It answers with, and announces, the row that is stored now.
MergeSaveUnchecked(h) ==  \* mutant: the tombstone is not looked at
    /\ h.step = "save"
    /\ stored' = h.row
    /\ handling' = (handling \ {h}) \cup {[h EXCEPT !.step = "saved", !.row = stored']}
    /\ UNCHANGED <<tombstone, hubVars, listVars, sent, clock, slipped>>

MergeSave(h) ==
    /\ h.step = "save"
    /\ IF tombstone THEN handling' = handling \ {h} /\ UNCHANGED <<stored, slipped>>
       ELSE /\ stored' = IF stored.title = Absent \/ h.row.at >= stored.at
                         THEN h.row ELSE stored
            /\ handling' = (handling \ {h}) \cup {[h EXCEPT !.step = "saved", !.row = stored']}
            /\ slipped' = (slipped \/ \E g \in handling : g.step = "window")
    /\ UNCHANGED <<tombstone, hubVars, listVars, sent, clock>>

\* Hub::task_state_saved, after the lock was released: announced if the list
\* shows a difference.
AnnounceSave(h) ==
    /\ h.step = "saved"
    /\ handling' = handling \ {h}
    /\ entry' = h.row
    /\ IF entry.title # h.row.title THEN WakeOthers(h.from) ELSE UNCHANGED woken
    /\ UNCHANGED <<daemonVars, rewritten, listVars, sent, clock, slipped>>

RemoveStored == stored' = [stored EXCEPT !.title = Absent]

RemoveSession(h) ==
    /\ h.step = "session"
    /\ RemoveStored /\ tombstone' = TRUE /\ Becomes(h, "removed")
    /\ UNCHANGED <<hubVars, listVars, sent, clock, slipped>>

\* RemoveProject records its tombstones after it has released the lock.
RemoveProject(h) ==
    /\ h.step = "project"
    /\ RemoveStored /\ Becomes(h, "window")
    /\ UNCHANGED <<tombstone, hubVars, listVars, sent, clock, slipped>>

RecordTombstones(h) ==
    /\ h.step = "window"
    /\ tombstone' = TRUE /\ Becomes(h, "removed")
    /\ UNCHANGED <<stored, hubVars, listVars, sent, clock, slipped>>

\* Hub::task_state_changed; the hub's entry stays.
AnnounceRemoval(h) ==
    /\ h.step = "removed"
    /\ handling' = handling \ {h} /\ WakeOthers(h.from)
    /\ UNCHANGED <<daemonVars, entry, rewritten, listVars, sent, clock, slipped>>

-----------------------------------------------------------------------------
(* Clients load the list again: restart_task_state_sync                    *)

Load(c) ==
    /\ woken[c] /\ loading[c] = {}
    /\ woken' = [woken EXCEPT ![c] = FALSE]
    /\ loading' = [loading EXCEPT ![c] = {stored}]
    /\ UNCHANGED <<daemonVars, entry, rewritten, handling, rows, result, sent, clock, slipped>>

\* Hub::replace_task_catalog with what was read, then the response.
AnswerLoad(c) ==
    /\ \E row \in loading[c] :
          /\ entry' = row
          /\ rewritten' = (rewritten \/ row.title \notin {entry.title, Absent})
    /\ result' = [result EXCEPT ![c] = loading[c]]
    /\ loading' = [loading EXCEPT ![c] = {}]
    /\ UNCHANGED <<daemonVars, handling, rows, woken, sent, clock, slipped>>

\* apply_remote_task_state, on the latest list that was loaded.
Apply(c) ==
    /\ \E row \in result[c] : rows' = [rows EXCEPT ![c] = row]
    /\ result' = [result EXCEPT ![c] = {}]
    /\ UNCHANGED <<daemonVars, hubVars, handling, loading, sent, clock, slipped>>

Tick ==
    /\ clock < MaxClock /\ clock' = clock + 1
    /\ UNCHANGED <<daemonVars, hubVars, listVars, handling, sent, slipped>>

-----------------------------------------------------------------------------
Handle(h) ==
    \/ MergeSave(h) \/ AnnounceSave(h)
    \/ RemoveSession(h) \/ RemoveProject(h) \/ RecordTombstones(h) \/ AnnounceRemoval(h)
Sync(c) == Load(c) \/ AnswerLoad(c) \/ Apply(c)

Next ==
    \/ \E c \in Clients : Sync(c)
    \/ \E c \in Clients, t \in Titles : Edit(c, t)
    \/ \E c \in Clients, command \in {"session", "project"} : Remove(c, command)
    \/ \E h \in handling : Handle(h)
    \/ Tick

\* The threads of requests and of each client's worker run.
Spec == Init /\ [][Next]_vars /\ \A c \in Clients : WF_vars(Sync(c))
             /\ WF_vars(\E h \in handling : Handle(h))

-----------------------------------------------------------------------------
\* Rows, requests and channels are well formed; every request that is handled
\* is at a step somebody takes.
TypeOK ==
    /\ {stored, entry} \cup {rows[c] : c \in Clients} \subseteq Rows
    /\ \A c \in Clients : loading[c] \cup result[c] \subseteq Rows
    /\ tombstone \in BOOLEAN /\ woken \in [Clients -> BOOLEAN]
    /\ handling \subseteq [step : {"save", "saved", "session", "project", "window", "removed"},
                           from : Editors, row : Rows, no : 0..MaxSaves]

\* Nothing is on its way to client c.
UpToDate(c) ==
    /\ handling = {} /\ ~woken[c] /\ loading[c] = {} /\ result[c] = {}

\* When nothing is on its way to a client that only watches, it lists what the
\* daemon stores, in whatever order saves were merged, announced and loaded;
\* except if a load changed the entry that announcements are compared with: a
\* client that loads the list between a merge and its announcement swallows the
\* announcement, and so does a list that was overtaken.
WatchersAgree ==
    \A c \in Clients \ Editors :
        UpToDate(c) /\ ~rewritten => rows[c].title = stored.title

\* No save brings a removed task back, however late it is, except one merged
\* after RemoveProject has stored the removal and before it has recorded it.
RemovedStaysRemoved == tombstone /\ ~slipped => stored.title = Absent

\* Every watcher's list comes to rest at what the daemon stores, once clients
\* stop editing.
WatchersFollow ==
    \A c \in Clients \ Editors :
        []<>(rewritten \/ rows[c].title = stored.title)
=============================================================================
