----------------------------- MODULE StateStore -----------------------------
(***************************************************************************)
(* The daemon's task database (crates/insulator-core/src/persistence.rs):  *)
(* tasks in memory, some of them as skeletons without their transcript,    *)
(* the SQLite tables, and what the connection remembers of its own writes  *)
(* so that a save writes only what changed.                                *)
(*                                                                         *)
(* Each action is one critical section of the daemon's task_state lock     *)
(* (daemon.rs): a command edits the tasks and saves before it unlocks.     *)
(*                                                                         *)
(* Abstractions.  A task is its list columns (status, 1 for Done), its     *)
(* detail document (turns, 1 for a completed turn) and its messages; a     *)
(* message is an id and a body.  Project lists                             *)
(* are numbers.  A fingerprint is the value it hashes.  Blobs are left     *)
(* out, and so is the desktop's JSON, which the daemon does not write.     *)
(***************************************************************************)
EXTENDS Integers, Sequences, FiniteSets

CONSTANTS Sessions, Ids,
          Edits,       \* how transcripts change: see Successors
          Keep,        \* transcripts that stay resident
          Long,        \* bound: the tasks that have messages
          MaxLength,   \* bound: messages of a task when the user appends one
          MaxRollbacks,\* bound: transactions of one process that are rolled back
          MaxProjects  \* bound: project lists

ASSUME ConstantsAssumption ==
    /\ Edits \subseteq {"append", "body", "truncate", "replace"} /\ Ids \subseteq Nat
    /\ Long \subseteq Sessions /\ MaxRollbacks \in Nat
    /\ Keep \in Nat /\ MaxLength \in Nat /\ MaxProjects \in Nat

Bits == {0, 1}
None == -1
NoProjects == 0
Message == [id : Ids, body : Bits]
Row == [id : Ids, body : Bits, pos : Nat \ {0}]
Transcript == {q \in Seq(Message) : \A i, j \in DOMAIN q : q[i].id = q[j].id => i = j}
Task == [status : Bits, turns : Bits, messages : Transcript, loaded : BOOLEAN]
Absent == [status |-> None, turns |-> 0, messages |-> <<>>, loaded |-> FALSE]

VARIABLES
    \* PersistedState, in memory
    sessions,          \* the tasks: Absent, a skeleton, or whole
    dirty,             \* dirty_sessions
    projects,
    gone,              \* removed_session_ids of the daemon
    \* Storage: what this connection believes of the tables
    persisted,         \* persisted_sessions
    written,           \* written_messages
    savedProjects,     \* saved_projects
    \* the tables
    sessionRows, detailRows, messageRows, projectRows,
    rollbacks          \* history: transactions this process has rolled back

memory == <<sessions, dirty, projects, gone>>
storage == <<persisted, written, savedProjects>>
tables == <<sessionRows, detailRows, messageRows, projectRows>>
vars == <<memory, storage, tables, rollbacks>>

Init ==
    /\ sessions = [s \in Sessions |-> Absent] /\ dirty = {}
    /\ projects = NoProjects /\ gone = {}
    /\ persisted = {} /\ written = [s \in Sessions |-> {}] /\ savedProjects = None
    /\ sessionRows = [s \in Sessions |-> None] /\ detailRows = [s \in Sessions |-> None]
    /\ messageRows = [s \in Sessions |-> {}] /\ projectRows = NoProjects
    /\ rollbacks = 0

Present(t) == t # Absent
\* has_started: a skeleton came from a stored row.
Started(t) == Present(t) /\ (~t.loaded \/ t.turns # 0 \/ t.messages # <<>>)

-----------------------------------------------------------------------------
(* save                                                                    *)

\* The rows a transcript is stored as.
Fingerprints(q) ==
    {[id |-> q[i].id, body |-> q[i].body, pos |-> i] : i \in DOMAIN q}

\* write_messages: upsert the rows whose fingerprint the connection has not
\* written, then delete the tail.
CutTail(q, rows) == {r \in rows : r.pos <= Len(q)}
WriteMessages(s, q) ==
    LET changed == Fingerprints(q) \ written[s]
        untouched == {r \in messageRows[s] : \A c \in changed : c.id # r.id}
    IN  CutTail(q, untouched \cup changed)

\* The rows a save of the tasks m, of which the set d is dirty, touches.
Live(m) == {s \in Sessions : Started(m[s])}
SkeletonsToo(m, d) ==   \* mutant: a skeleton counts as a whole task
    {s \in Live(m) : s \in d \/ s \notin persisted}
Whole(m, d) == {s \in Live(m) : m[s].loaded /\ (s \in d \/ s \notin persisted)}
Columns(m, d) == {s \in Live(m) : ~m[s].loaded /\ s \in d}
Removed(m) == persisted \ Live(m)

\* Recorded before the commit.
Remember(m, d, p) ==
    /\ persisted' = (persisted \cup Whole(m, d) \cup Columns(m, d)) \ Removed(m)
    /\ savedProjects' = p
\* Recorded after it.
Written(m, W) ==
    [s \in Sessions |-> IF s \in Removed(m) THEN {}
                        ELSE IF s \in W THEN Fingerprints(m[s].messages) ELSE written[s]]

WriteTables(m, d, p) ==
    LET W == Whole(m, d)  R == Removed(m)  C == Columns(m, d)
    IN  /\ sessionRows' = [s \in Sessions |->
               IF s \in R THEN None ELSE IF s \in W \cup C THEN m[s].status ELSE sessionRows[s]]
        /\ detailRows' = [s \in Sessions |->
               IF s \in R THEN None ELSE IF s \in W THEN m[s].turns ELSE detailRows[s]]
        /\ messageRows' = [s \in Sessions |->
               IF s \in R THEN {}
               ELSE IF s \in W THEN WriteMessages(s, m[s].messages) ELSE messageRows[s]]
        /\ projectRows' = IF p = savedProjects THEN projectRows ELSE p

-----------------------------------------------------------------------------
(* hydrate and trim_idle_transcripts                                       *)

\* ORDER BY position; SQLite leaves the order of rows of one position open.
Before(r, t) == r.pos < t.pos \/ (r.pos = t.pos /\ r.id < t.id)
Nth(rows, n) == CHOOSE r \in rows : Cardinality({t \in rows : Before(t, r)}) = n - 1
InOrder(rows) ==
    [n \in 1..Cardinality(rows) |-> [id |-> Nth(rows, n).id, body |-> Nth(rows, n).body]]

\* The messages of a task.
Stored(s) == InOrder(messageRows[s])

Fetched(s) ==
    IF sessions[s].loaded THEN sessions[s]
    ELSE IF detailRows[s] = None THEN [sessions[s] EXCEPT !.loaded = TRUE]
    ELSE [sessions[s] EXCEPT !.turns = detailRows[s], !.messages = Stored(s),
                             !.loaded = TRUE]
\* migrate_chat_status: a finished task is Done.
Hydrated(s) ==
    IF sessions[s].loaded \/ Fetched(s).turns = 0 THEN Fetched(s)
    ELSE [Fetched(s) EXCEPT !.status = 1]

Released(t) == [t EXCEPT !.turns = 0, !.messages = <<>>, !.loaded = FALSE]
HasTranscript(t) == t.turns # 0 \/ t.messages # <<>>
TrimDirty(m, d) ==   \* mutant: unsaved work is released too
    {s \in Sessions : Present(m[s]) /\ m[s].loaded /\ HasTranscript(m[s])}
Trimmable(m, d) ==
    {s \in Sessions : Present(m[s]) /\ m[s].loaded /\ HasTranscript(m[s]) /\ s \notin d}

\* Which tasks are pinned by a runtime, and which are the most recent, is
\* left open: any choice that keeps the recency window resident.
Trimmed(m, d) ==
    {[s \in Sessions |-> IF s \in R THEN Released(m[s]) ELSE m[s]] :
        R \in {Q \in SUBSET Trimmable(m, d) :
                  \/ Q = {}
                  \/ Cardinality(Trimmable(m, d) \ Q) >= Keep}}

-----------------------------------------------------------------------------
(* The critical sections                                                   *)

\* Save the tasks m and the projects p, then trim; a rollback returns early
\* and leaves the tasks dirty.
Saved(m, d, p) ==
    /\ Remember(m, d, p) /\ WriteTables(m, d, p)
    /\ written' = Written(m, Whole(m, d))
    /\ sessions' \in Trimmed(m, {}) /\ dirty' = {} /\ projects' = p
    /\ UNCHANGED rollbacks

WrittenAnyway(m, d) == Written(m, Whole(m, d))   \* mutant: remembered before the commit
WrittenOnRollback(m, d) == Written(m, {})

RolledBack(m, d, p) ==
    /\ rollbacks < MaxRollbacks /\ rollbacks' = rollbacks + 1
    /\ Remember(m, d, p) /\ written' = WrittenOnRollback(m, d)
    /\ sessions' = m /\ dirty' = d /\ projects' = p
    /\ UNCHANGED tables

Save(m, d, p) == Saved(m, d, p) \/ RolledBack(m, d, p)

\* How the messages of a task may differ from what was there: "replace" is a
\* projection of another client, which lacks the last message and has its own.
Fresh(q) == {m \in Message : \A i \in DOMAIN q : q[i].id # m.id}
Room(s) == IF s \in Long THEN MaxLength ELSE 0
Successors(s, q) ==
    {q}
    \cup (IF "append" \in Edits /\ Len(q) < Room(s)
            THEN {Append(q, m) : m \in Fresh(q)} ELSE {})
    \cup (IF "body" \in Edits
            THEN {[q EXCEPT ![i].body = 1 - @] : i \in DOMAIN q} ELSE {})
    \cup (IF "truncate" \in Edits
            THEN {SubSeq(q, 1, n) : n \in 0..Len(q)} ELSE {})
    \cup (IF "replace" \in Edits /\ q # <<>>
            THEN {[q EXCEPT ![Len(q)] = m] : m \in Fresh(q)} ELSE {})

\* A new task, with or without a first prompt.
Create(s) ==
    /\ ~Present(sessions[s]) /\ s \notin gone
    /\ \E turns \in Bits, q \in Successors(s, <<>>) :
        Save([sessions EXCEPT ![s] =
                 [status |-> 0, turns |-> turns, messages |-> q, loaded |-> TRUE]],
             dirty \cup {s}, projects)
    /\ UNCHANGED gone

\* A projection of a whole task replaces the one in memory.
Update(s) ==
    /\ Present(sessions[s])
    /\ \E status, turns \in Bits, q \in Successors(s, Fetched(s).messages) :
        Save([sessions EXCEPT ![s] =
                 [status |-> status, turns |-> turns, messages |-> q, loaded |-> TRUE]],
             dirty \cup {s}, projects)
    /\ UNCHANGED gone

\* Only the list columns of a task change, whether or not it is loaded.
Relabel(s) ==
    /\ Present(sessions[s])
    /\ Save([sessions EXCEPT ![s].status = 1 - @], dirty \cup {s}, projects)
    /\ UNCHANGED gone

Remove(s) ==
    /\ Save([sessions EXCEPT ![s] = Absent], dirty, projects)
    /\ gone' = gone \cup {s}

ChangeProjects(p) ==
    /\ p # projects /\ Save(sessions, dirty, p)
    /\ UNCHANGED gone

HydrateSession(s) ==
    LET m == [sessions EXCEPT ![s] = Hydrated(s)]
    IN  /\ Present(sessions[s])
        /\ IF m[s].status # sessions[s].status
             THEN Save(m, dirty \cup {s}, projects)
             ELSE /\ sessions' \in Trimmed(m, dirty)
                  /\ UNCHANGED <<dirty, projects, storage, tables, rollbacks>>
        /\ UNCHANGED gone

\* The daemon is killed or stopped, and starts again with load.
Restart ==
    /\ sessions' = [s \in Sessions |->
           IF sessionRows[s] = None THEN Absent
           ELSE [status |-> sessionRows[s], turns |-> 0, messages |-> <<>>, loaded |-> FALSE]]
    /\ dirty' = {} /\ projects' = projectRows /\ gone' = {}
    /\ persisted' = {s \in Sessions : sessionRows[s] # None}
    /\ written' = [s \in Sessions |-> {}] /\ savedProjects' = None
    /\ rollbacks' = 0
    /\ UNCHANGED tables

Next ==
    \/ \E s \in Sessions :
        Create(s) \/ Update(s) \/ Relabel(s) \/ Remove(s) \/ HydrateSession(s)
    \/ \E p \in 0..MaxProjects : ChangeProjects(p)
    \/ Restart

Spec == Init /\ [][Next]_vars

-----------------------------------------------------------------------------
TypeOK ==
    /\ sessions \in [Sessions -> Task \cup {Absent}]
    /\ dirty \subseteq Sessions /\ gone \subseteq Sessions
    /\ projects \in 0..MaxProjects /\ projectRows \in 0..MaxProjects
    /\ persisted \subseteq Sessions /\ savedProjects \in {None} \cup 0..MaxProjects
    /\ written \in [Sessions -> SUBSET Row] /\ messageRows \in [Sessions -> SUBSET Row]
    /\ sessionRows \in [Sessions -> Bits \cup {None}]
    /\ detailRows \in [Sessions -> Bits \cup {None}]
    /\ rollbacks \in 0..MaxRollbacks

\* The task on disk, and the task a client is shown: a skeleton stands for
\* the transcript on disk.
OnDisk(s) == IF sessionRows[s] = None THEN Absent
             ELSE [status |-> sessionRows[s], turns |-> detailRows[s],
                   messages |-> Stored(s), loaded |-> TRUE]
Shown(s) == IF Present(sessions[s]) THEN Fetched(s) ELSE Absent

\* Two cases in which the tables keep what they should not.  A row of a message
\* that was replaced at its position: the tail that is deleted starts behind it.
Displaced(s) == \E q, r \in messageRows[s] : q # r /\ q.pos = r.pos
\* The rows of a task whose removal was rolled back: it counts as removed.
Undeleted(s) == rollbacks > 0 /\ ~Started(sessions[s]) /\ sessionRows[s] # None

\* A whole task without unsaved work is on disk exactly as it is in memory, but
\* for displaced rows: releasing it, or a crash, loses nothing.  Rolled back
\* saves keep a task dirty (persistence.rs, save and StateStore::save).
CleanIsDurable ==
    \A s \in Sessions \ dirty :
        sessions[s].loaded /\ Started(sessions[s]) /\ ~Displaced(s) => OnDisk(s) = sessions[s]

\* Loading a transcript and releasing others is a cache operation: nobody's
\* turns or messages change by it, whatever saves failed before, but for
\* displaced rows (hydrate, trim_idle_transcripts).
HydrationIsACache ==
    [][(\E s \in Sessions : HydrateSession(s))
          => \A s \in Sessions :
                \/ Displaced(s)'
                \/ /\ Shown(s)'.messages = Shown(s).messages
                   /\ Shown(s)'.turns = Shown(s).turns]_vars

\* The store implements TaskStore: excused are the tasks that wait for a save
\* after one was rolled back, and the two cases above.
Shelf == INSTANCE TaskStore WITH
    Nothing <- Absent,
    Draft <- LAMBDA t : ~Started(t),
    view <- [s \in Sessions |-> Shown(s)],
    durable <- [s \in Sessions |-> OnDisk(s)],
    excused <- {s \in Sessions : (rollbacks > 0 /\ s \in dirty) \/ Displaced(s) \/ Undeleted(s)}
ImplementsTaskStore == Shelf!Spec
=============================================================================
