-------------------------------- MODULE Rewind --------------------------------
(***************************************************************************)
(* Checkpoints of one task's worktree and going back to an earlier         *)
(* message: Git refs taken before and after each turn (checkpoint.rs,      *)
(* daemon.rs), and a rewind that has to bring the worktree, the provider's *)
(* conversation and the transcript to where one turn began, started by the *)
(* desktop (src/app/runtime.rs) or on the daemon for another client.       *)
(*                                                                         *)
(* Abstractions.  A content of the worktree is a number, a new one for     *)
(* each edit; a Git operation that fails leaves it Torn.  A native session *)
(* of the provider is the turns it was told.  The branch arithmetic of     *)
(* diffs is left out.  A save of the desktop replaces the stored task      *)
(* (TaskSync is about when it does not), and a turn that runs is followed  *)
(* to its end (SessionHandoff, Turns).  A turn counts as told from its     *)
(* prompt on, the provider's TurnStarted being part of that step.          *)
(***************************************************************************)
EXTENDS Integers, Sequences, FiniteSets, SequencesExt

CONSTANTS MaxIds,      \* bound: turns begun
          MaxCount,    \* bound: turns of the task
          MaxEdits,    \* bound: edits of the worktree
          Halts,       \* bound: whether the desktop quits and the daemon dies
          MaxEvents    \* bound: rewinds, snapshots and rewind steps that fail,
                       \* stale saves, quits of the desktop, deaths of the
                       \* daemon, together

ASSUME ConstantsAssumption ==
    {MaxIds, MaxCount, MaxEdits, MaxEvents} \subseteq Nat /\ Halts \in BOOLEAN

Torn == -1
Unknown == -2
NoSession == 0
Contents == Torn..MaxEdits
Actors == {"desktop", "daemon"}
None == [step |-> "none"]

VARIABLES
    work, edits,   \* the worktree
    starts, ends,  \* turn_start_ref and checkpoint_ref, by turn count
    backups,       \* safety refs that nobody will delete
    natives,       \* the provider's native sessions
    inPlace,       \* the provider rolls a session back; others branch it
    desk,          \* the desktop's copy of the task
    live,          \* the native session its runtime talks to
    stored,        \* the daemon's copy
    resident,      \* the daemon has its transcript in memory
    captures,      \* CaptureTurn requests on their way
    rewinds,       \* the rewind each actor performs
    begun, events,
    owed           \* history: the content that must not get lost, or Unknown

refs == <<starts, ends, backups>>
copies == <<desk, stored, resident>>
vars == <<work, edits, refs, natives, inPlace, copies, live, captures, rewinds, begun, events, owed>>

\* A commit, and the turn it was taken for (the model's own).
Ref == [content : Contents, turn : 0..MaxIds]
\* base is the content its starting snapshot was taken from; told is
\* provider_turn_started; check holds its checkpoint, if any.
Turn == [id : 1..MaxIds, running : BOOLEAN, told : BOOLEAN,
         base : Contents \cup {Unknown}, check : SUBSET Ref]

Init ==
    /\ work = 0 /\ edits = 0 /\ starts = <<>> /\ ends = <<>> /\ backups = {}
    /\ natives = <<>> /\ inPlace \in BOOLEAN /\ live = NoSession
    /\ desk = [turns |-> <<>>, status |-> "Idle", cursor |-> NoSession]
    /\ stored = desk /\ resident = TRUE
    /\ captures = {} /\ rewinds = [w \in Actors |-> None] /\ begun = 0
    /\ events = 0 /\ owed = work

Counted == events < MaxEvents /\ events' = events + 1
Rewinding(w) == rewinds[w].step # "none"
\* It has taken its safety snapshot.
Holding(w) == Rewinding(w) /\ rewinds[w].step # "started"
Told(turns) == SelectSeq(turns, LAMBDA t : t.told)
Ids(turns) == [i \in DOMAIN turns |-> turns[i].id]
Talk(cursor) == IF cursor = NoSession THEN <<>> ELSE natives[cursor]

-----------------------------------------------------------------------------
(* A turn on the desktop                                                   *)

\* Somebody changes the worktree: the agent, or the user.  A rewind owes what
\* was there before it, not what comes meanwhile.
Edit ==
    /\ edits < MaxEdits /\ edits' = edits + 1 /\ work' = edits + 1
    /\ owed' = IF \E w \in Actors : Holding(w) THEN owed ELSE edits + 1
    /\ rewinds' = [w \in Actors |-> IF Rewinding(w) THEN [rewinds[w] EXCEPT !.alone = FALSE]
                                    ELSE None]
    /\ UNCHANGED <<refs, natives, inPlace, copies, live, captures, begun, events>>

CapturePending(n) == \E c \in captures : c.count = n /\ c.wanted

WithTurn(copy, id) ==
    [copy EXCEPT !.status = "Connecting",
                 !.turns = Append(@, [id |-> id, running |-> TRUE, told |-> FALSE,
                                      base |-> Unknown, check |-> {}])]

\* submit_submission_for_session
Submit ==
    /\ desk.status = "Idle" /\ ~CapturePending(Len(desk.turns))
    /\ Len(desk.turns) < MaxCount /\ begun < MaxIds /\ begun' = begun + 1
    /\ desk' = WithTurn(desk, begun + 1)
    /\ UNCHANGED <<work, edits, refs, natives, inPlace, live, stored, resident, captures, rewinds,
                   events, owed>>

Preparing == desk.status = "Connecting" /\ desk.turns # <<>> /\ Last(desk.turns).running
OnLast(turn) == [desk EXCEPT !.turns[Len(desk.turns)] = turn]

\* A ref that is set, and one that is set if it does not exist.
SetRef(f, n, r) == [i \in DOMAIN f \cup {n} |-> IF i = n THEN r ELSE f[i]]
NewRef(f, n, r) == IF n \in DOMAIN f THEN f ELSE SetRef(f, n, r)

\* mutant: the baseline of the turn before is taken anew
SnapshotsBoth(n, id) ==
    /\ starts' = NewRef(starts, n, [content |-> work, turn |-> id])
    /\ ends' = SetRef(ends, n - 1, [content |-> work, turn |-> 0])
\* capture_turn_start
Snapshots(n, id) ==
    /\ starts' = SetRef(starts, n, [content |-> work, turn |-> id])
    /\ ends' = NewRef(ends, n - 1, [content |-> work, turn |-> 0])

\* prepare_submission takes the starting snapshot if it can.
CaptureTurnStart ==
    LET n == Len(desk.turns)  turn == Last(desk.turns)
    IN /\ Preparing /\ turn.base = Unknown
       /\ Snapshots(n, turn.id)
       /\ desk' = OnLast([turn EXCEPT !.base = work])
       /\ UNCHANGED <<work, edits, backups, natives, inPlace, live, stored, resident, captures,
                      rewinds, begun, events, owed>>

\* The prompt goes out, also if the snapshot failed; the session's mailbox
\* holds it back while the daemon rewinds.
Prompt ==
    LET turn == Last(desk.turns)
        cursor == IF live # NoSession THEN live
                  ELSE IF desk.cursor # NoSession THEN desk.cursor ELSE Len(natives) + 1
    IN /\ Preparing /\ ~Rewinding("daemon")
       /\ IF turn.base = Unknown THEN Counted ELSE UNCHANGED events
       /\ desk' = [OnLast([turn EXCEPT !.told = TRUE]) EXCEPT !.status = "Working", !.cursor = cursor]
       /\ live' = cursor
       /\ natives' = IF cursor > Len(natives) THEN Append(natives, <<turn.id>>)
                     ELSE [natives EXCEPT ![cursor] = Append(@, turn.id)]
       /\ UNCHANGED <<work, edits, refs, inPlace, stored, resident, captures, rewinds, begun, owed>>

\* capture_latest_turn_checkpoint_for: none if one for that count is pending.
Requested(n, id) ==
    IF CapturePending(n) THEN captures
    ELSE captures \cup {[count |-> n, turn |-> id, step |-> "asked", found |-> {}, wanted |-> TRUE]}

\* The turn ends, or never reached its provider.
EndTurn ==
    LET turn == Last(desk.turns)
    IN /\ \/ desk.status = "Working" /\ UNCHANGED events
          \/ Preparing /\ Counted
       /\ desk' = [OnLast([turn EXCEPT !.running = FALSE]) EXCEPT !.status = "Idle"]
       /\ captures' = Requested(Len(desk.turns), turn.id)
       /\ UNCHANGED <<work, edits, refs, natives, inPlace, live, stored, resident, rewinds, begun, owed>>

-----------------------------------------------------------------------------
(* Saves, and the checkpoint of a turn that ended                          *)

PreservedNever(copy) == copy  \* mutant: the projection replaces checkpoints too
\* preserve_daemon_checkpoints
Preserved(copy) ==
    [copy EXCEPT !.turns = [i \in DOMAIN @ |->
        IF resident /\ i \in DOMAIN stored.turns /\ stored.turns[i].check # {}
        THEN [@[i] EXCEPT !.check = stored.turns[i].check] ELSE @[i]]]

\* SaveTaskState of the desktop's copy.
Save ==
    /\ stored # desk
    /\ stored' = Preserved(desk) /\ resident' = TRUE
    /\ UNCHANGED <<work, edits, refs, natives, inPlace, desk, live, captures, rewinds, begun, events, owed>>

\* SaveTaskState of another client, from before a checkpoint was stored.
SaveStale ==
    /\ Counted /\ resident' = TRUE
    /\ \E i \in DOMAIN stored.turns :
          stored.turns[i].check # {} /\ stored' = Preserved([stored EXCEPT !.turns[i].check = {}])
    /\ UNCHANGED <<work, edits, refs, natives, inPlace, desk, live, captures, rewinds, begun, owed>>

\* trim_resident_transcripts, or a daemon that starts with the list only.
Trim ==
    /\ resident /\ live = NoSession /\ resident' = FALSE
    /\ UNCHANGED <<work, edits, refs, natives, inPlace, desk, stored, live, captures, rewinds, begun,
                   events, owed>>

Becomes(c, d) == captures' = (captures \ {c}) \cup {d}
StoredCheck(n) == IF n \in DOMAIN stored.turns THEN stored.turns[n].check ELSE {}

\* capture_turn_checkpoint: a turn of that count that has one keeps it,
FindCheckpoint(c) ==
    /\ c.step = "asked" /\ resident' = TRUE
    /\ Becomes(c, IF StoredCheck(c.count) # {}
                  THEN [c EXCEPT !.step = "answered", !.found = StoredCheck(c.count)]
                  ELSE [c EXCEPT !.step = "capturing"])
    /\ UNCHANGED <<work, edits, refs, natives, inPlace, desk, stored, live, rewinds, begun, events, owed>>

\* else capture_turn takes the worktree as it is now,
CaptureTurn(c) ==
    LET ref == [content |-> work, turn |-> c.turn]
    IN /\ c.step = "capturing"
       /\ ends' = SetRef(ends, c.count, ref)
       /\ Becomes(c, [c EXCEPT !.step = "captured", !.found = {ref}])
       /\ UNCHANGED <<work, edits, starts, backups, natives, inPlace, copies, live, rewinds, begun,
                      events, owed>>

\* and a turn of that count gets it.
StoreCheckpoint(c) ==
    /\ c.step = "captured" /\ resident' = TRUE
    /\ stored' = IF c.count \in DOMAIN stored.turns
                 THEN [stored EXCEPT !.turns[c.count].check = c.found] ELSE stored
    /\ Becomes(c, [c EXCEPT !.step = "answered"])
    /\ UNCHANGED <<work, edits, refs, natives, inPlace, desk, live, rewinds, begun, events, owed>>

\* An error, at the latest when the ref is there (the diff, the write).
FailCapture(c) ==
    /\ c.step \in {"asked", "capturing", "captured"} /\ Counted
    /\ Becomes(c, [c EXCEPT !.step = "answered", !.found = {}])
    /\ UNCHANGED <<work, edits, refs, natives, inPlace, copies, live, rewinds, begun, owed>>

\* start_pending_checkpoint_captures matches the answer by turn count.
AttachCheckpoint(c) ==
    /\ c.step = "answered" /\ captures' = captures \ {c}
    /\ desk' = IF c.wanted /\ c.count \in DOMAIN desk.turns
               THEN [desk EXCEPT !.turns[c.count].check = c.found] ELSE desk
    /\ UNCHANGED <<work, edits, refs, natives, inPlace, stored, resident, live, rewinds, begun, events,
                   owed>>

-----------------------------------------------------------------------------
(* A rewind: perform_message_rewind, rewind_session_to_message             *)

Source(w) == IF w = "desktop" THEN desk ELSE stored

\* The copy tells of the turns its native session was told, and the other
\* copy of no turn in place of one of them.
UpToDate(source) ==
    /\ Talk(source.cursor) = Ids(Told(source.turns))
    /\ \A i \in DOMAIN desk.turns \cap DOMAIN stored.turns : desk.turns[i].id = stored.turns[i].id

\* To before message k.  The daemon works on a clone of its task.
Start(w, k) ==
    LET source == Source(w)
        rewind == [step |-> "started", k |-> k, turns |-> source.turns, cursor |-> source.cursor,
                   ref |-> None, safety |-> Unknown,
                   alone |-> UpToDate(source) /\ ~\E v \in Actors : Rewinding(v)]
    IN /\ source.status = "Idle" /\ ~Rewinding(w) /\ k \in DOMAIN source.turns
       /\ w = "desktop" => begun < MaxIds
       /\ Counted
       /\ rewinds' = [v \in Actors |-> IF v = w THEN rewind
                                       ELSE IF Rewinding(v) THEN [rewinds[v] EXCEPT !.alone = FALSE]
                                       ELSE None]
       /\ desk' = IF w = "desktop" THEN [desk EXCEPT !.status = "Connecting"] ELSE desk
       /\ resident' = (resident \/ w = "daemon")
       /\ UNCHANGED <<work, edits, refs, natives, inPlace, stored, live, captures, begun, owed>>

Advance(w, step) == rewinds' = [rewinds EXCEPT ![w].step = step]
\* A rewind that failed: the desktop's message comes back for editing.
Abort(w) ==
    /\ rewinds' = [rewinds EXCEPT ![w] = None]
    /\ desk' = IF w = "desktop" THEN [desk EXCEPT !.status = "Idle"] ELSE desk

RestoreRef(k) ==
    IF k \in DOMAIN starts THEN "start" ELSE IF k - 1 \in DOMAIN ends THEN "end" ELSE "missing"
Exists(r) == IF r.ref = "start" THEN r.k \in DOMAIN starts ELSE r.k - 1 \in DOMAIN ends
Commit(r) == IF r.ref = "start" THEN starts[r.k] ELSE ends[r.k - 1]

OtherHolds(w) == \E v \in Actors \ {w} : Holding(v)

\* The safety snapshot, if there is something to go back to.  It may be of what
\* another rewind has made of the worktree.
TakeSafety(w) ==
    LET r == rewinds[w]
    IN /\ r.step = "started"
       /\ IF RestoreRef(r.k) = "missing" THEN Abort(w) /\ owed' = owed
          ELSE /\ rewinds' = [rewinds EXCEPT ![w].step = "secured", ![w].safety = work,
                                             ![w].ref = RestoreRef(r.k)]
               /\ owed' = IF OtherHolds(w) THEN Unknown ELSE owed
               /\ UNCHANGED desk
       /\ UNCHANGED <<work, edits, refs, natives, inPlace, stored, resident, live, captures, begun, events>>

Restore(w) ==
    LET r == rewinds[w]
    IN /\ r.step = "secured"
       /\ IF Exists(r) THEN work' = Commit(r).content /\ Advance(w, "restored")
                       ELSE work' = work /\ Advance(w, "undo")
       /\ UNCHANGED <<edits, refs, natives, inPlace, copies, live, captures, begun, events, owed>>

\* git restore or git clean fails half way, or the provider refuses.
Fail(w) ==
    /\ rewinds[w].step \in {"secured", "restored"} /\ Counted /\ Advance(w, "undo")
    /\ work' = IF rewinds[w].step = "secured" THEN Torn ELSE work
    /\ UNCHANGED <<edits, refs, natives, inPlace, copies, live, captures, begun, owed>>

\* mutant: the safety ref is deleted even if the worktree did not come back
UndoAnyway(w) ==
    /\ rewinds[w].step = "undo" /\ Abort(w)
    /\ work' \in {rewinds[w].safety, Torn}
    /\ UNCHANGED <<edits, refs, natives, inPlace, stored, resident, live, captures, begun, events, owed>>

\* restore_rewind_safety
Undo(w) ==
    /\ rewinds[w].step = "undo" /\ Abort(w)
    /\ \/ work' = rewinds[w].safety /\ UNCHANGED backups
       \/ work' = Torn /\ backups' = backups \cup {rewinds[w].safety}
    /\ UNCHANGED <<edits, starts, ends, natives, inPlace, stored, resident, live, captures, begun,
                   events, owed>>

Kept(r) == SubSeq(r.turns, 1, r.k - 1)
RolledBack(r) == Len(Told(r.turns)) - Len(Told(Kept(r)))  \* provider_turns_after

\* Rolled back in place, branched, or started over.
NextCursor(r) ==
    IF RolledBack(r) = 0 \/ inPlace THEN r.cursor
    ELSE IF Told(Kept(r)) = <<>> THEN NoSession ELSE Len(natives) + 1

\* perform_provider_rewind
RewindProvider(w) ==
    LET r == rewinds[w]
        talk == Talk(r.cursor)
        kept == IF RolledBack(r) > Len(talk) THEN 0 ELSE Len(talk) - RolledBack(r)
        next == NextCursor(r)
    IN /\ r.step = "restored"
       /\ rewinds' = [rewinds EXCEPT ![w].step = "rewound", ![w].cursor = next]
       /\ natives' = IF RolledBack(r) = 0 \/ next = NoSession THEN natives
                     ELSE IF inPlace THEN [natives EXCEPT ![r.cursor] = SubSeq(@, 1, kept)]
                     ELSE Append(natives, SubSeq(talk, 1, Len(Told(Kept(r)))))
       /\ UNCHANGED <<work, edits, refs, inPlace, copies, live, captures, begun, events, owed>>

After(r) == r.k..Len(r.turns)  \* delete_turn_refs_after

\* The safety ref and the refs of the turns that go: what it had is given up,
\* though the transcript has yet to follow.
CleanUp(w) ==
    LET r == rewinds[w]
    IN /\ r.step = "rewound" /\ Advance(w, "cleaned") /\ owed' = Unknown
       /\ \/ /\ starts' = Restrict(starts, DOMAIN starts \ After(r))
             /\ ends' = Restrict(ends, DOMAIN ends \ After(r))
          \/ UNCHANGED <<starts, ends>>
       /\ UNCHANGED <<work, edits, backups, natives, inPlace, copies, live, captures, begun, events>>

\* The rewind is done, and the worktree the user's again.
HandsOver(w) ==
    /\ rewinds[w].step = "cleaned" /\ rewinds' = [rewinds EXCEPT ![w] = None]
    /\ owed' = IF OtherHolds(w) THEN owed ELSE work

\* finish_message_rewind, which submits the edited message at once; a driver
\* of a branched session is closed.
FinishDesktop ==
    LET r == rewinds["desktop"]
        rewound == [desk EXCEPT !.turns = SubSeq(@, 1, r.k - 1), !.status = "Idle", !.cursor = r.cursor]
        holds == CapturePending(r.k - 1)
    IN /\ HandsOver("desktop")
       /\ desk' = IF holds THEN rewound ELSE WithTurn(rewound, begun + 1)
       /\ begun' = IF holds THEN begun ELSE begun + 1
       /\ live' = IF inPlace \/ RolledBack(r) = 0 THEN live ELSE NoSession
       /\ UNCHANGED <<work, edits, refs, natives, inPlace, stored, resident, captures, events>>

\* The runtime is dropped, and what a running turn of the desktop sees is its end.
Dropped ==
    /\ live' = NoSession
    /\ IF desk.status = "Working"
       THEN /\ desk' = [OnLast([Last(desk.turns) EXCEPT !.running = FALSE]) EXCEPT !.status = "Idle"]
            /\ captures' = Requested(Len(desk.turns), Last(desk.turns).id)
       ELSE UNCHANGED <<desk, captures>>

FinishDaemon ==
    LET r == rewinds["daemon"]
    IN /\ HandsOver("daemon")
       /\ stored' = [turns |-> Kept(r), status |-> "Idle", cursor |-> r.cursor]
       /\ resident' = TRUE /\ Dropped
       /\ UNCHANGED <<work, edits, refs, natives, inPlace, begun, events>>

-----------------------------------------------------------------------------
Secured(w) == IF rewinds[w].step \in {"secured", "restored", "undo", "rewound"}
              THEN {rewinds[w].safety} ELSE {}

\* The desktop quits between two steps, and loads the stored task again.
Quit ==
    /\ Halts /\ desk.status # "Working" /\ Counted
    /\ desk' = [stored EXCEPT !.status = "Idle",
                    !.turns = [i \in DOMAIN @ |-> [@[i] EXCEPT !.running = FALSE]]]
    /\ rewinds' = [rewinds EXCEPT !["desktop"] = None]
    /\ backups' = backups \cup Secured("desktop")
    /\ captures' = {[c EXCEPT !.wanted = FALSE] : c \in captures}
    /\ UNCHANGED <<work, edits, starts, ends, natives, inPlace, stored, resident, live, begun, owed>>

\* The daemon dies: requests fail, runtimes end, the desktop gives its rewind up.
Die ==
    /\ Halts /\ Counted /\ resident' = FALSE /\ live' = NoSession
    /\ desk' = IF desk.status = "Working"
               THEN [OnLast([Last(desk.turns) EXCEPT !.running = FALSE]) EXCEPT !.status = "Idle"]
               ELSE IF Rewinding("desktop") THEN [desk EXCEPT !.status = "Idle"] ELSE desk
    /\ rewinds' = [w \in Actors |-> None]
    /\ backups' = backups \cup UNION {Secured(w) : w \in Actors}
    /\ captures' = {}
    /\ UNCHANGED <<work, edits, starts, ends, natives, inPlace, stored, begun, owed>>

Desktop == Submit \/ CaptureTurnStart \/ Prompt \/ EndTurn \/ Save \/ FinishDesktop
Capture(c) == FindCheckpoint(c) \/ CaptureTurn(c) \/ StoreCheckpoint(c) \/ FailCapture(c)
              \/ AttachCheckpoint(c)
Step(w) == TakeSafety(w) \/ Restore(w) \/ Fail(w) \/ Undo(w) \/ RewindProvider(w) \/ CleanUp(w)

Next ==
    \/ Edit \/ Desktop \/ SaveStale \/ Trim
    \/ \E c \in captures : Capture(c)
    \/ \E w \in Actors : Step(w) \/ \E k \in 1..MaxCount : Start(w, k)
    \/ FinishDaemon \/ Quit \/ Die

Spec == Init /\ [][Next]_vars

-----------------------------------------------------------------------------
Copy == [turns : Seq(Turn), status : {"Idle", "Connecting", "Working"}, cursor : 0..2 * MaxIds]

\* Contents, copies and refs are well formed, and every cursor names a native
\* session that exists.
TypeOK ==
    /\ work \in Contents /\ backups \subseteq Contents /\ owed \in Contents \cup {Unknown}
    /\ Range(starts) \cup Range(ends) \subseteq Ref
    /\ desk \in Copy /\ stored \in Copy
    /\ natives \in Seq(Seq(1..MaxIds)) /\ live \in 0..Len(natives)
    /\ {desk.cursor, stored.cursor} \subseteq 0..Len(natives)

Ends(w) == Rewinding(w) /\ rewinds'[w] = None
Finishes(w) == Ends(w) /\ rewinds[w].step = "cleaned" /\ events' = events

\* A rewind that finishes has brought back the worktree its turn started from
\* and what the provider had been told before it, whichever refs were made and
\* deleted by turns and rewinds before; if nobody changed the worktree
\* meanwhile, no other rewind ran beside it, the start was recorded, and the
\* rewound copy of the task was up to date.
RewindRestores ==
    [][\A w \in Actors :
          LET r == rewinds[w]
          IN Finishes(w) /\ r.alone =>
                /\ r.ref = "start" /\ r.turns[r.k].base # Unknown => work = r.turns[r.k].base
                /\ Talk(r.cursor) = Ids(Told(Kept(r)))]_vars

\* What the user had in the worktree when no rewind ran is not lost to rewinds
\* that fail or are cut short, one after the other, whatever edits, captures and
\* saves come between their steps: it is in the worktree, in the snapshot of a
\* rewind that runs, or in one that stays.  Nothing is owed (Unknown) while two
\* rewinds overlap, or from the deletion of a snapshot to the end of that rewind,
\* and if it is cut short there, until the next edit.
NothingDestroyed ==
    owed \in {Unknown, work} \cup backups \cup UNION {Secured(w) : w \in Actors}

\* daemon.rs:1005: "A second client may still save a projection created just
\* before capture completed; never let that stale projection erase the
\* canonical Git snapshot."  Here: while the daemon has the transcript in
\* memory, and but for a rewind that writes its clone back.
CheckpointsKept ==
    [][resident /\ ~Finishes("daemon") =>
          \A i \in DOMAIN stored.turns \cap DOMAIN stored'.turns :
              stored.turns[i].check # {} /\ stored'.turns[i].id = stored.turns[i].id =>
                  stored'.turns[i].check # {}]_vars

\* daemon.rs:145-146: "Capture and persist one ending checkpoint exactly once per
\* daemon.  Desktop and Web may observe the same turn completion concurrently".
\* A checkpoint asked for when a turn has ended is one that was taken for that
\* turn; also for the one that replaces an edited message, which the client
\* submits "as an ordinary new turn" (protocol.rs:251).
CheckpointIsOwn == \A c \in captures : \A ref \in c.found : ref.turn = c.turn
=============================================================================
