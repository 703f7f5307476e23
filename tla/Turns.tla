-------------------------------- MODULE Turns --------------------------------
(***************************************************************************)
(* The turns of one task: a user's messages go through the composer, the   *)
(* queue and the preparation of a submission (src/app/runtime.rs) to the   *)
(* driver of a Claude Code process (driver/claude.rs), whose events open   *)
(* and settle turns in the transcript (src/app/streaming.rs).              *)
(*                                                                         *)
(* Abstractions.  One client; the daemon between the desktop and the       *)
(* driver hands on commands and events in order (SessionHandoff, EventHub).*)
(* Replies are left out, a turn is what was said in it and how it ended;   *)
(* a Waiting task is a Working one.  The Claude process is external: it    *)
(* reads what it is sent in order, folds a message into a running reply,   *)
(* and wakes itself when detached work ends.                               *)
(***************************************************************************)
EXTENDS Integers, Sequences, FiniteSets, SequencesExt

CONSTANTS Messages, None,
          MaxIncidents  \* bound: of a press of Stop, a detached command, a crash of
                        \* the provider's process, and a preparation, start or
                        \* reply that fails, so many happen, each once

ASSUME ConstantsAssumption ==
    /\ None \notin Messages
    /\ MaxIncidents \in Nat

VARIABLES
    desk,        \* the client's task and runtime
    composer,    \* messages not sent, or back for the user to edit
    mislaid,     \* messages the composer lost, or did not get back
    preparations, \* prepare_submission calls that run
    inbox,       \* commands for the writer thread of the driver
    events,      \* events on their way to the client
    driver,      \* turn_active, state.parked, the writer's loop runs
    stdin,       \* what the process has not read
    cli,         \* the Claude process
    incidents,   \* that have happened
    delivered,   \* history: how often the process has read each message
    answered,    \* history: messages it has answered
    discarded,   \* history: messages removed, or dropped with a stopped turn
    mixed,       \* history: a turn began before the last one's events were in
    swallowed    \* history: a capture that ended resumed a queue still held up

driverVars == <<inbox, events, driver, stdin, cli>>
history == <<delivered, answered, discarded, mixed>>
vars == <<desk, composer, mislaid, preparations, driverVars, incidents, history, swallowed>>

Statuses == {"Idle", "Connecting", "Working", "Background", "Failed"}
Endings == {"Completed", "Failed", "Interrupted"}
Turn == [opener : Messages \cup {None}, folded : SUBSET Messages,
         state : Endings \cup {"Running"}, started : BOOLEAN]

NewDriver == [active |-> FALSE, parked |-> FALSE, writing |-> TRUE]
NewCli == [alive |-> TRUE, running |-> FALSE, spoke |-> FALSE, interrupted |-> FALSE,
           serving |-> {}, tasks |-> FALSE, exited |-> FALSE]

\* The fields of desk: status, turns and queue of its AgentSession, and of the
\* user interface: runtime, it has a driver; steers, pending_steers; loose,
\* messages shown outside turns; dropped, steers forgotten with a runtime or a
\* Stop; misread, steers settled by the answer to another one (history);
\* worktree, the workspace exists; preparing, submission_preparations has the
\* task; drain, pending_queue_drains has it; captures, turn counts of
\* checkpoints being captured.
Init ==
    /\ desk = [status |-> "Idle", turns |-> <<>>, queue |-> <<>>, runtime |-> FALSE,
               steers |-> <<>>, loose |-> {}, dropped |-> {}, misread |-> {},
               worktree |-> FALSE, preparing |-> FALSE, drain |-> FALSE, captures |-> {}]
    /\ composer = Messages /\ mislaid = {} /\ preparations = {}
    /\ inbox = <<>> /\ events = <<>> /\ stdin = <<>>
    /\ driver = NewDriver /\ cli = NewCli
    /\ incidents = {}
    /\ delivered = [m \in Messages |-> 0] /\ answered = {} /\ discarded = {}
    /\ mixed = FALSE /\ swallowed = FALSE

\* One of the incidents, each at most once.
Happens(what) ==
    /\ what \notin incidents /\ Cardinality(incidents) < MaxIncidents
    /\ incidents' = incidents \cup {what}

-----------------------------------------------------------------------------
(* The task as the client sees it                                          *)

Busy(d) == d.status \in {"Connecting", "Working", "Background"}
Active(d) == d.turns # <<>> /\ Last(d.turns).state = "Running"
Prompted(d) == Last(d.turns).opener # None \/ Last(d.turns).folded # {}

Begin(d, opener) ==
    [d EXCEPT !.turns = Append(@, [opener |-> opener, folded |-> {},
                                   state |-> "Running", started |-> FALSE])]
OnTurn(d, turn) == [d EXCEPT !.turns[Len(d.turns)] = turn]
Started(d) == IF Active(d) THEN OnTurn(d, [Last(d.turns) EXCEPT !.started = TRUE]) ELSE d
\* finish_active_turn, and the capture of the turn's checkpoint.
Finished(d, ending) ==
    IF Active(d) THEN [OnTurn(d, [Last(d.turns) EXCEPT !.state = ending])
                          EXCEPT !.captures = @ \cup {Len(d.turns)}] ELSE d
\* unwind_unstarted_turn
Unwound(d) == IF Active(d) /\ ~Last(d.turns).started
              THEN [d EXCEPT !.turns = Front(@)] ELSE d

CapturePending(d) == d.turns # <<>> /\ ~Active(d) /\ Len(d.turns) \in d.captures

Enqueued(d, m) == [d EXCEPT !.queue = Append(@, m)]

\* submit_submission_for_session; a submission it accepts is then prepared.
Accepts(d) == ~CapturePending(d) /\ ~Busy(d)
Submitted(d, m) ==
    IF CapturePending(d) THEN [Enqueued(d, m) EXCEPT !.drain = TRUE]
    ELSE IF Busy(d) THEN Enqueued(d, m)
    ELSE [Begin(d, m) EXCEPT !.status = "Connecting", !.preparing = TRUE]

\* drain_queued_message
Drains(d) == d.queue # <<>> /\ Accepts(d)

Preparation(d, m) == [message |-> m, starts |-> ~d.runtime]

\* The provider has nothing to say about an earlier turn to d, which has yet to
\* handle es.
ProviderQuiet(d, es) ==
    ~d.runtime \/ (inbox = <<>> /\ es = <<>> /\ stdin = <<>> /\ ~driver.active
                   /\ cli.alive /\ ~cli.running /\ ~cli.tasks)

-----------------------------------------------------------------------------
(* The user                                                                *)

\* Submits m to d, while es is on its way, and starts its preparation.
Submit(d, m, es) ==
    /\ desk' = Submitted(d, m)
    /\ preparations' = IF Accepts(d) THEN preparations \cup {Preparation(d, m)} ELSE preparations
    /\ mixed' = (mixed \/ (Accepts(d) /\ (~ProviderQuiet(d, es) \/ preparations # {})))

CanSteer(d) == Busy(d) /\ Active(d) /\ Last(d.turns).started /\ d.runtime

\* steer_composer_submission
SteerMessage(d, m) ==
    IF ~Busy(d) THEN Submit(d, m, events) /\ UNCHANGED inbox
    ELSE /\ IF CanSteer(d)
            THEN /\ desk' = [d EXCEPT !.steers = Append(@, m)]
                 /\ inbox' = Append(inbox, [op |-> "steer", message |-> m])
            ELSE desk' = Enqueued(d, m) /\ UNCHANGED inbox
         /\ UNCHANGED <<preparations, mixed>>

\* submit_composer_submission
Send(m) ==
    /\ m \in composer /\ composer' = composer \ {m}
    /\ IF desk.status = "Background" THEN SteerMessage(desk, m)
       ELSE IF Busy(desk) THEN desk' = Enqueued(desk, m) /\ UNCHANGED <<preparations, inbox, mixed>>
       ELSE Submit(desk, m, events) /\ UNCHANGED inbox
    /\ UNCHANGED <<mislaid, events, driver, stdin, cli, incidents, delivered, answered, discarded,
                   swallowed>>

Steer(m) ==
    /\ m \in composer /\ composer' = composer \ {m}
    /\ SteerMessage(desk, m)
    /\ UNCHANGED <<mislaid, events, driver, stdin, cli, incidents, delivered, answered, discarded,
                   swallowed>>

\* The user acts on one entry of the queue, which its id names.
UnqueuedNever(i) == desk  \* mutant: the message stays in the queue
Unqueued(i) == [desk EXCEPT !.queue = RemoveAt(@, i)]

SteerQueued(i) ==
    /\ SteerMessage(Unqueued(i), desk.queue[i])
    /\ UNCHANGED <<composer, mislaid, events, driver, stdin, cli, incidents, delivered, answered,
                   discarded, swallowed>>

\* restore_composer_submission: what the user has typed makes way for m.
Restored(m) ==
    \E draft \in {{}} \cup {{n} : n \in composer} :
        composer' = (composer \ draft) \cup {m} /\ mislaid' = mislaid \cup draft

EditQueued(i) ==
    /\ desk' = Unqueued(i) /\ Restored(desk.queue[i])
    /\ UNCHANGED <<preparations, driverVars, incidents, history, swallowed>>

RemoveQueued(i) ==
    /\ desk' = Unqueued(i) /\ discarded' = discarded \cup {desk.queue[i]}
    /\ UNCHANGED <<composer, mislaid, preparations, driverVars, incidents, delivered, answered, mixed,
                   swallowed>>

-----------------------------------------------------------------------------
(* The client handles the provider's events                                *)

\* The pending steer an answer is for: the one it names, else the oldest, which
\* may be another one when the steer that was answered is pending no more.
Answered(d, m) == IF m \in ToSet(d.steers) \/ d.steers = <<>> THEN m ELSE Head(d.steers)
Unsteered(d, m) ==
    [d EXCEPT !.steers = RemoveFirst(@, Answered(d, m)), !.misread = @ \cup ({Answered(d, m)} \ {m})]

\* SteerAccepted: the message joins the running turn, or stands by itself.
SteerShown(d, m) ==
    IF Active(d) THEN OnTurn(Unsteered(d, m), [Last(d.turns) EXCEPT !.folded = @ \cup {m}])
    ELSE [Unsteered(d, m) EXCEPT !.loose = @ \cup {m}]

\* mutant: a steer that missed its turn is dropped unless the turn completed
SteerIgnored(d, m, drains) ==
    LET taken == Unsteered(d, m)
    IN IF d.turns # <<>> /\ Last(d.turns).state = "Completed"
       THEN [taken EXCEPT !.queue = <<Answered(d, m)>> \o @, !.drain = @ \/ drains] ELSE taken

\* SteerRejected
SteerReturned(d, m, drains) ==
    LET taken == Unsteered(d, m)
        n == Answered(d, m)
    IN IF Busy(d) \/ d.turns = <<>> \/ Last(d.turns).state # "Completed" THEN Enqueued(taken, n)
       ELSE [taken EXCEPT !.queue = <<n>> \o @, !.drain = @ \/ drains]

AdoptedAgain(d, m) == [Begin(d, m) EXCEPT !.status = "Connecting"]  \* mutant: always news

\* adopt_submitted_prompt
Adopted(d, m) ==
    IF ~Active(d) THEN [Begin(d, m) EXCEPT !.status = "Connecting"]
    ELSE IF Prompted(d) THEN d
    ELSE OnTurn(d, [Last(d.turns) EXCEPT !.opener = m])

\* mutant: every start is the provider's own
TurnStartedAlone(d) == [Started(Begin(d, None)) EXCEPT !.status = "Working"]

\* TurnStarted: without a turn the provider began one by itself.
TurnStarted(d) ==
    [Started(IF Active(d) THEN d ELSE Begin(d, None)) EXCEPT !.status = "Working"]

\* mutant: a failed turn completes
TurnCompleted(d, success, drains) ==
    IF ~Active(d) THEN d
    ELSE [Finished(d, "Completed") EXCEPT !.status = "Idle", !.drain = @ \/ drains]

\* mutant: a failed turn leaves the task busy
TurnFailedBusy(d, success, drains) ==
    IF ~Active(d) THEN d
    ELSE [Finished(d, IF success THEN "Completed" ELSE "Failed") EXCEPT
             !.status = IF success THEN "Idle" ELSE @, !.drain = @ \/ (drains /\ success)]

\* TurnFinished settles whichever turn is running.
TurnFinished(d, success, drains) ==
    IF ~Active(d) THEN d
    ELSE [Finished(d, IF success THEN "Completed" ELSE "Failed") EXCEPT
             !.status = IF success THEN "Idle" ELSE "Failed",
             !.drain = @ \/ (drains /\ success)]

ErrorShown(d) ==
    IF Active(d) /\ ~Prompted(d) /\ ~Last(d.turns).started
    THEN [Unwound(d) EXCEPT !.status = IF Busy(d) THEN "Idle" ELSE @]
    ELSE IF Active(d) /\ d.status # "Working" THEN [d EXCEPT !.status = "Failed"] ELSE d

\* ProcessExited: the runtime goes, with the steers nobody has answered.
RuntimeLost(d) ==
    [(IF Busy(d) THEN [Finished(d, "Failed") EXCEPT !.status = "Failed"] ELSE d)
        EXCEPT !.runtime = FALSE, !.steers = <<>>, !.dropped = @ \cup ToSet(d.steers)]

\* handle_driver_event; drains is its allow_queue_drain.
Handled(d, e, drains) ==
    IF ~d.runtime THEN d
    ELSE CASE e.kind = "submitted" -> Adopted(d, e.message)
           [] e.kind = "started" -> TurnStarted(d)
           [] e.kind = "parked" -> IF Active(d) THEN [d EXCEPT !.status = "Background"] ELSE d
           [] e.kind = "accepted" -> SteerShown(d, e.message)
           [] e.kind = "rejected" -> SteerReturned(d, e.message, drains)
           [] e.kind = "finished" -> TurnFinished(d, TRUE, drains)
           [] e.kind = "failed" -> TurnFinished(d, FALSE, drains)
           [] e.kind = "error" -> ErrorShown(d)
           [] e.kind = "exited" -> RuntimeLost(d)

HandledAll(d, es, drains) ==
    LET after[k \in 0..Len(es)] == IF k = 0 THEN d ELSE Handled(after[k - 1], es[k], drains)
    IN after[Len(es)]

\* Nothing arrives of a runtime the client has dropped.
Closed == inbox' = <<>> /\ events' = <<>> /\ stdin' = <<>> /\ driver' = NewDriver /\ cli' = NewCli

\* drain_driver_events handles what has come, then starts queued messages.
Pump ==
    \E n \in 1..Len(events) :
      LET d == HandledAll(desk, SubSeq(events, 1, n), TRUE)
          ready == d.drain /\ ~CapturePending(d)
          undrained == [d EXCEPT !.drain = @ /\ ~ready]
          rest == SubSeq(events, n + 1, Len(events))
      IN /\ IF ready /\ Drains(d)
            THEN Submit([undrained EXCEPT !.queue = Tail(@)], Head(d.queue), rest)
            ELSE desk' = undrained /\ UNCHANGED <<preparations, mixed>>
         /\ IF d.runtime THEN events' = rest /\ UNCHANGED <<inbox, stdin, driver, cli>>
            ELSE Closed
         /\ UNCHANGED <<composer, mislaid, incidents, delivered, answered, discarded, swallowed>>

\* mutant: nobody looks at the queue
EndCaptureOnly(count) ==
    /\ count \in desk.captures
    /\ desk' = [desk EXCEPT !.captures = @ \ {count}]
    /\ UNCHANGED <<composer, mislaid, preparations, driverVars, incidents, history, swallowed>>

\* A capture that ends resumes the queue it has held up.
EndCapture(count) ==
    /\ count \in desk.captures
    /\ LET d == [desk EXCEPT !.captures = @ \ {count}, !.drain = FALSE]
       IN /\ IF desk.drain /\ Drains(d)
             THEN Submit([d EXCEPT !.queue = Tail(@)], Head(d.queue), events)
             ELSE desk' = d /\ UNCHANGED <<preparations, mixed>>
          /\ swallowed' = (swallowed \/ (desk.drain /\ CapturePending(d)))
    /\ UNCHANGED <<composer, mislaid, driverVars, incidents, delivered, answered, discarded>>

\* cancel_turn, for a provider that keeps its runtime: what has come is shown,
\* but starts nothing.
Stop ==
    \E n \in 0..Len(events) :
    LET d == HandledAll(desk, SubSeq(events, 1, n), FALSE)
        rest == SubSeq(events, n + 1, Len(events))
        stopped == IF Active(d) THEN [Finished(d, "Interrupted") EXCEPT !.status = "Idle"] ELSE d
    IN /\ Busy(desk) /\ ~desk.preparing
       /\ Happens("stop")
       /\ desk' = [stopped EXCEPT !.drain = FALSE, !.steers = <<>>,
                                  !.dropped = @ \cup ToSet(d.steers)]
       /\ IF d.runtime THEN /\ inbox' = Append(inbox, [op |-> "cancel", message |-> None])
                            /\ events' = rest /\ UNCHANGED <<driver, stdin, cli>>
          ELSE Closed
       /\ mixed' = (mixed \/ rest # <<>>)
       /\ UNCHANGED <<composer, mislaid, preparations, delivered, answered, discarded, swallowed>>

\* reap_idle_sessions, after a long silence.
Reap ==
    /\ desk.runtime /\ ~Busy(desk) /\ ~Active(desk)
    /\ inbox = <<>> /\ events = <<>> /\ stdin = <<>> /\ cli.alive /\ ~cli.running /\ ~cli.tasks
    /\ desk' = [desk EXCEPT !.runtime = FALSE, !.steers = <<>>, !.dropped = @ \cup ToSet(desk.steers)]
    /\ Closed
    /\ UNCHANGED <<composer, mislaid, preparations, incidents, history, swallowed>>

-----------------------------------------------------------------------------
(* A preparation ends: finish_submission_preparation                       *)

Fails == Happens("failure")

Untouched(d) == d.status = "Connecting" /\ Active(d) /\ ~Last(d.turns).started

Forget(p) == preparations' = preparations \ {p}

\* The worktree could not be made: the turn is taken back, and the message
\* returned if the user still looks at the task.
FailPreparation(p) ==
    /\ p \in preparations /\ ~desk.worktree /\ Forget(p) /\ Fails
    /\ IF desk.preparing
       THEN /\ desk' = [(IF desk.status = "Connecting" THEN [Unwound(desk) EXCEPT !.status = "Idle"]
                         ELSE desk) EXCEPT !.preparing = FALSE]
            /\ \/ Restored(p.message)
               \/ mislaid' = mislaid \cup {p.message} /\ UNCHANGED composer
       ELSE UNCHANGED <<desk, composer, mislaid>>
    /\ UNCHANGED <<driverVars, history, swallowed>>

\* The preparation, or the turn it is for, has gone.
DropPreparation(p) ==
    /\ p \in preparations /\ Forget(p)
    /\ ~desk.preparing \/ ~Untouched(desk)
    /\ desk' = [desk EXCEPT !.preparing = FALSE]
    /\ UNCHANGED <<composer, mislaid, driverVars, incidents, history, swallowed>>

StartFailed == [Finished(desk, "Failed") EXCEPT !.status = "Failed", !.preparing = FALSE,
                                                 !.worktree = TRUE]

\* The driver did not start, or the one that was running has gone.
FailStart(p) ==
    /\ p \in preparations /\ Forget(p)
    /\ desk.preparing /\ Untouched(desk)
    /\ IF p.starts THEN Fails ELSE ~desk.runtime /\ UNCHANGED incidents
    /\ desk' = StartFailed
    /\ UNCHANGED <<composer, mislaid, driverVars, history, swallowed>>

\* The prompt goes out; the daemon echoes it to every client of the runtime.
SendPrompt(p) ==
    LET prompt == [op |-> "prompt", message |-> p.message]
        echo == [kind |-> "submitted", message |-> p.message]
    IN /\ p \in preparations /\ Forget(p)
       /\ desk.preparing /\ Untouched(desk) /\ (p.starts \/ desk.runtime)
       /\ desk' = [desk EXCEPT !.preparing = FALSE, !.worktree = TRUE, !.runtime = TRUE, !.steers = <<>>,
                               !.dropped = @ \cup ToSet(desk.steers)]
       /\ IF p.starts
          THEN inbox' = <<prompt>> /\ events' = <<echo>> /\ stdin' = <<>>
               /\ driver' = NewDriver /\ cli' = NewCli
          ELSE inbox' = Append(inbox, prompt) /\ events' = Append(events, echo)
               /\ UNCHANGED <<driver, stdin, cli>>
       /\ UNCHANGED <<composer, mislaid, incidents, history, swallowed>>

-----------------------------------------------------------------------------
(* The driver of Claude Code                                               *)

Event(kind) == [kind |-> kind, message |-> None]

\* The writer thread: what it announces before it writes, and what after.
Write ==
    LET c == Head(inbox)
        active == driver.active \/ c.op = "prompt"
        refused == c.op = "steer" /\ ~driver.active
        before == IF c.op = "prompt" THEN <<Event("started")>> ELSE <<>>
        answer == IF c.op # "steer" THEN <<>>
                  ELSE <<[kind |-> IF refused \/ ~cli.alive THEN "rejected" ELSE "accepted",
                          message |-> c.message]>>
        broken == ~cli.alive /\ ~refused
        after == IF ~broken THEN <<>>
                 ELSE <<Event("error")>> \o (IF active THEN <<Event("failed")>> ELSE <<>>)
    IN /\ desk.runtime /\ driver.writing /\ inbox # <<>>
       /\ inbox' = Tail(inbox)
       /\ events' = events \o before \o answer \o after
       /\ driver' = [driver EXCEPT !.active = active /\ ~broken, !.writing = ~broken]
       /\ stdin' = IF refused \/ broken THEN stdin ELSE Append(stdin, c)
       /\ UNCHANGED <<desk, composer, mislaid, preparations, cli, incidents, history, swallowed>>

CliRuns == desk.runtime /\ cli.alive
ClientSide == <<desk, composer, mislaid, preparations, inbox>>

\* The process reads a message, which a running reply takes up, or an interrupt.
Read ==
    LET c == Head(stdin)
    IN /\ CliRuns /\ stdin # <<>> /\ stdin' = Tail(stdin)
       /\ IF c.op = "cancel"
          THEN cli' = [cli EXCEPT !.interrupted = cli.running] /\ UNCHANGED delivered
          ELSE /\ cli' = IF cli.running THEN [cli EXCEPT !.serving = @ \cup {c.message}]
                         ELSE [cli EXCEPT !.running = TRUE, !.serving = {c.message}]
               /\ delivered' = [delivered EXCEPT ![c.message] = @ + 1]
       /\ UNCHANGED <<ClientSide, events, driver, incidents, answered, discarded, mixed, swallowed>>

\* begin_unprompted_turn on the first output.
Speak ==
    /\ CliRuns /\ cli.running /\ ~cli.spoke
    /\ cli' = [cli EXCEPT !.spoke = TRUE]
    /\ IF ~driver.active \/ driver.parked
       THEN /\ driver' = [driver EXCEPT !.active = TRUE, !.parked = FALSE]
            /\ events' = Append(events, Event("started"))
       ELSE UNCHANGED <<driver, events>>
    /\ UNCHANGED <<ClientSide, stdin, incidents, history, swallowed>>

Detach ==
    /\ CliRuns /\ cli.spoke /\ ~cli.tasks /\ cli' = [cli EXCEPT !.tasks = TRUE]
    /\ Happens("detach")
    /\ UNCHANGED <<ClientSide, events, driver, stdin, history, swallowed>>

\* Detached work ends, by itself or because Stop asked for it, and the process
\* wakes itself.
Wake ==
    /\ CliRuns /\ ~cli.running /\ cli.tasks
    /\ cli' = [cli EXCEPT !.tasks = FALSE, !.running = TRUE]
    /\ UNCHANGED <<ClientSide, events, driver, stdin, incidents, history, swallowed>>

Quiet == [cli EXCEPT !.running = FALSE, !.spoke = FALSE, !.interrupted = FALSE, !.serving = {}]

\* A reply ends, in the reader's words: parked while detached work runs.
Reply(success) ==
    /\ CliRuns /\ cli.running /\ (success => cli.spoke)
    /\ IF success \/ cli.interrupted THEN UNCHANGED incidents ELSE Fails
    /\ cli' = Quiet
    /\ answered' = answered \cup (IF success THEN cli.serving ELSE {})
    /\ LET parks == success /\ cli.tasks
           error == IF success \/ cli.interrupted THEN <<>> ELSE <<Event("error")>>
           ending == IF ~driver.active THEN <<>>
                     ELSE <<Event(IF parks THEN "parked" ELSE IF success THEN "finished" ELSE "failed")>>
       IN /\ events' = events \o error \o ending
          /\ driver' = IF driver.active THEN [driver EXCEPT !.active = parks, !.parked = parks]
                       ELSE driver
    /\ UNCHANGED <<ClientSide, stdin, delivered, discarded, mixed, swallowed>>

Crash ==
    /\ CliRuns /\ cli' = [Quiet EXCEPT !.alive = FALSE, !.tasks = FALSE]
    /\ Happens("crash")
    /\ mixed' = (mixed \/ desk.preparing)
    /\ UNCHANGED <<ClientSide, events, driver, stdin, delivered, answered, discarded, swallowed>>

\* The process thread, after the reader has ended.
ReportExit ==
    /\ desk.runtime /\ ~cli.alive /\ ~cli.exited
    /\ cli' = [cli EXCEPT !.exited = TRUE]
    /\ events' = events \o <<Event("error"), Event("exited")>>
    /\ UNCHANGED <<ClientSide, driver, stdin, incidents, history, swallowed>>

-----------------------------------------------------------------------------
User == \/ \E m \in Messages : Send(m) \/ Steer(m)
        \/ \E i \in DOMAIN desk.queue : SteerQueued(i) \/ EditQueued(i) \/ RemoveQueued(i)
        \/ Stop
Prepared == \E p \in preparations :
    FailPreparation(p) \/ DropPreparation(p) \/ FailStart(p) \/ SendPrompt(p)
Captured == \E count \in desk.captures : EndCapture(count)
Claude == Read \/ Speak \/ Detach \/ Wake \/ ReportExit \/ \E success \in BOOLEAN : Reply(success)

Next == User \/ Pump \/ Captured \/ Prepared \/ Reap \/ Write \/ Claude \/ Crash

\* The client's event pump and tasks and the driver's threads run; the process
\* reads, answers, and ends its detached work.
Fairness ==
    /\ WF_vars(Pump) /\ WF_vars(Captured) /\ WF_vars(Prepared) /\ WF_vars(Write)
    /\ WF_vars(Read) /\ WF_vars(Speak) /\ WF_vars(Wake) /\ WF_vars(ReportExit)
    /\ WF_vars(\E success \in BOOLEAN : Reply(success))

Spec == Init /\ [][Next]_vars /\ Fairness

-----------------------------------------------------------------------------
Commands == [op : {"prompt", "steer"}, message : Messages] \cup {[op |-> "cancel", message |-> None]}
Events == [kind : {"submitted", "accepted", "rejected"}, message : Messages]
          \cup [kind : {"started", "parked", "finished", "failed", "error", "exited"}, message : {None}]
Desk == [status : Statuses, turns : Seq(Turn), queue : Seq(Messages), runtime : BOOLEAN,
         steers : Seq(Messages), loose : SUBSET Messages, dropped : SUBSET Messages,
         misread : SUBSET Messages, worktree : BOOLEAN, preparing : BOOLEAN, drain : BOOLEAN,
         captures : SUBSET Nat]

\* Statuses, turns, queues and channels are well formed, only what names a
\* message has one, and a process that has spoken is replying.
TypeOK ==
    /\ desk \in Desk
    /\ composer \subseteq Messages /\ preparations \subseteq [message : Messages, starts : BOOLEAN]
    /\ {inbox, stdin} \subseteq Seq(Commands) /\ events \in Seq(Events)
    /\ driver \in [active : BOOLEAN, parked : BOOLEAN, writing : BOOLEAN]
    /\ cli \in [alive : BOOLEAN, running : BOOLEAN, spoke : BOOLEAN, interrupted : BOOLEAN,
                serving : SUBSET Messages, tasks : BOOLEAN, exited : BOOLEAN]
    /\ cli.spoke => cli.running
    /\ incidents \subseteq {"stop", "detach", "crash", "failure"}
    /\ delivered \in [Messages -> Nat] /\ {answered, discarded, mislaid} \subseteq SUBSET Messages
    /\ {mixed, swallowed} \subseteq BOOLEAN

Opened(m) == {i \in DOMAIN desk.turns : desk.turns[i].opener = m}
Shown(m) == m \in desk.loose \/ \E i \in DOMAIN desk.turns :
                m \in desk.turns[i].folded \cup {desk.turns[i].opener}
Held(m) == m \in composer \/ m \in ToSet(desk.queue) \/ m \in ToSet(desk.steers)

\* Whatever path a message takes, the user still has it: it waits, or is in the
\* transcript; unless the user removed it, or stopped or lost the runtime while
\* it was a steer nobody had answered, or the late answer to such a steer was
\* taken for its own; or it was mislaid: typed where another message came back,
\* or taken back when its preparation failed while the user was at another task.
NothingLost ==
    \A m \in Messages :
        Held(m) \/ Shown(m) \/ m \in desk.dropped \cup desk.misread \cup discarded \cup mislaid

\* The provider gets no message twice: not as a steer and as a prompt, not
\* again after a rejected steer, a failed preparation or a new runtime; unless a
\* late answer was taken for its own: it is then queued while it is on its way.
SentOnce == \A m \in Messages \ desk.misread : delivered[m] <= 1

\* A turn that the transcript calls completed was answered: its own prompt
\* reached the provider and the provider's reply to it succeeded.  Events carry
\* no turn, so this needs a provider that was done with the turn before it.
CompletedIsAnswered ==
    \A i \in DOMAIN desk.turns :
        LET t == desk.turns[i]
        IN ~mixed /\ t.state = "Completed" /\ t.opener # None => t.opener \in answered

\* The echo of a prompt opens no second turn for it (same proviso; and nobody
\* stopped the turn before the echo came, or took a late answer for its own).
ShownOnce == ~mixed => \A m \in Messages \ desk.misread : Cardinality(Opened(m)) <= 1

\* No turn is left running below a later one (same proviso), unless the process
\* died: an error that comes while the task is Connecting makes it Failed, and
\* ProcessExited settles the turn of a busy task only.
EarlierSettled ==
    ~mixed /\ "crash" \notin incidents =>
        \A i \in 1..Len(desk.turns) - 1 : desk.turns[i].state # "Running"

\* A task does not stay busy for ever, through failed replies, wakes of the
\* provider, and a Stop at any moment.
BusyEnds == []<>~Busy(desk)

\* A message is queued, the task idle, its last turn completed, nobody pressed Stop.
Waits ==
    /\ ~Busy(desk) /\ desk.turns # <<>> /\ Last(desk.turns).state = "Completed"
    /\ desk.queue # <<>> /\ "stop" \notin incidents

\* The queue drains once the turn settles, unless the capture of an earlier
\* turn's checkpoint ended in between and used the resume up.
QueueMoves == Waits ~> (~Waits \/ swallowed)
=============================================================================
