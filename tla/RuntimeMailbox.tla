--------------------------- MODULE RuntimeMailbox ---------------------------
(***************************************************************************)
(* How the daemon executes the commands that target a provider runtime     *)
(* (crates/insulator-core/src/server.rs, RequestDispatcher): one mailbox   *)
(* and one worker thread per session while the session has a runtime, a    *)
(* worker that retires when it has none, the cache of answered requests,   *)
(* and the hub's record of which runtime may speak for a session.          *)
(*                                                                         *)
(* Abstractions.  A request id is a number, 0 is the nil id of a           *)
(* notification; the runtime a start creates is named by the request's own *)
(* number, fresh like the UUID the desktop draws.  Commands are kinds:     *)
(* "start", "attach", "command" (whatever needs the running driver),       *)
(* "fork" (succeeds without a runtime), "rewind" (drops the driver),       *)
(* "close" and "remove".  Backend.handle is one step that may fail or      *)
(* panic; the events it sends belong to EventHub.  An outcome has a size   *)
(* out of a small set.  Independent requests share the cache, and that is  *)
(* all of them that is here; their BlobData replies are never cached, and  *)
(* no command of a runtime has one.                                        *)
(***************************************************************************)
EXTENDS Integers, Sequences

CONSTANTS Sessions,      \* task sessions
          CacheCap,      \* MAX_CACHED_RESPONSES
          CacheBytes,    \* MAX_CACHED_RESPONSE_BYTES
          Sizes,         \* the sizes an outcome can have
          MaxRequests,   \* bound: distinct requests with an id
          MaxDispatches, \* bound: dispatches; retries, notifications and
                         \* independent requests included
          MaxPanics,     \* bound: panics of Backend.handle
          MaxRemovals    \* bound: projects removed by an independent request

ASSUME ConstantsAssumption ==
    /\ CacheCap \in Nat \ {0} /\ CacheBytes \in Nat /\ Sizes \subseteq Nat
    /\ MaxRequests \in Nat /\ MaxDispatches \in Nat
    /\ MaxPanics \in Nat /\ MaxRemovals \in Nat

Ids == 1..MaxRequests
Nil == 0
Other == -1          \* the id of an independent request
Runtimes == Ids
NoRuntime == 0
Kinds == {"start", "attach", "command", "fork", "rewind", "close", "remove"}
Requests == [id : Ids \cup {Nil}, session : Sessions,
             runtime : Runtimes \cup {NoRuntime}, kind : Kinds]

\* DispatchedRequest; the ticket is its position in the order of dispatch.
Dispatched == [request : Requests, ticket : Nat]
Outcomes == [ok : BOOLEAN, attached : Runtimes \cup {NoRuntime}]

\* A cached outcome: how many outcomes, and how many bytes, were cached from it
\* on, itself included.
Places == [age : Nat, load : Nat]
Entries == [id : Ids \cup {Other}, outcome : Outcomes, place : Places]

\* The n-th mailbox of a session is the worker <<s, n>>; its id is a fresh UUID.
NoWorker == 0
Workers == Sessions \X (1..MaxDispatches)
Phases == {"unborn", "receiving", "lookup", "executing", "executed",
           "replying", "settling", "deciding", "retired", "panicked"}

VARIABLES
    registry,    \* runtime_mailboxes: which mailbox of the session, if any
    pc,          \* where each worker thread is
    channel,     \* its unbounded channel
    current,     \* the request it handles
    executed,    \* HandledRequest.executed
    outcome,     \* HandledRequest.outcome
    supervised,  \* active_runtime_id
    speaking,    \* HubState.active_runtimes
    running,     \* InsulatorBackend.sessions: the driver a session holds
    cache,       \* HubState.responses, ordered by age
    latest,      \* history: the place of the last outcome cached of an id,
                 \* evicted or not; age 0 when there is none
    submitted,   \* history: the requests with an id that clients made
    dispatches,  \* history: how many requests were dispatched
    born,        \* history: how many mailboxes each session has had
    taken,       \* history: the ticket of the last request a worker took
    executions,  \* history: how often an id was executed to an outcome
    answered,    \* history: the ids that got a reply
    lost,        \* history: the ids a panicking worker took with it
    panics, removals

workerVars == <<pc, channel, current, executed, outcome, supervised>>
clientVars == <<submitted, dispatches, born>>
vars == <<registry, workerVars, speaking, running, cache, latest, clientVars, taken,
          executions, answered, lost, panics, removals>>

NoRequest(s) ==
    [request |-> [id |-> Nil, session |-> s, runtime |-> NoRuntime, kind |-> "attach"],
     ticket |-> 0]
Failed == [ok |-> FALSE, attached |-> NoRuntime]
Acked == [ok |-> TRUE, attached |-> NoRuntime]

\* What eviction keeps: it takes the oldest until both budgets are met, so an
\* outcome stays exactly as long as it and the younger ones do not exceed them.
FitsBelow(p) == p.age <= CacheCap /\ p.load < CacheBytes  \* mutant: evicts at the budget
Fits(p) == p.age <= CacheCap /\ p.load <= CacheBytes

TypeOK ==
    /\ registry \in [Sessions -> 0..MaxDispatches]
    /\ pc \in [Workers -> Phases]
    /\ channel \in [Workers -> Seq(Dispatched)]
    /\ current \in [Workers -> Dispatched]
    /\ executed \in [Workers -> BOOLEAN]
    /\ outcome \in [Workers -> Outcomes]
    /\ supervised \in [Workers -> Runtimes \cup {NoRuntime}]
    /\ speaking \in [Sessions -> Runtimes \cup {NoRuntime}]
    /\ running \in [Sessions -> Runtimes \cup {NoRuntime}]
    /\ cache \subseteq Entries /\ \A c \in cache : Fits(c.place)
    /\ latest \in [Ids -> Places]
    /\ submitted \subseteq Requests
    /\ dispatches \in 0..MaxDispatches
    /\ born \in [Sessions -> 0..MaxDispatches]
    /\ taken \in [Sessions -> Nat]
    /\ executions \in [Ids -> Nat]
    /\ answered \subseteq Ids
    /\ lost \subseteq Ids
    /\ panics \in 0..MaxPanics
    /\ removals \in 0..MaxRemovals

Init ==
    /\ registry = [s \in Sessions |-> NoWorker]
    /\ pc = [w \in Workers |-> "unborn"]
    /\ channel = [w \in Workers |-> <<>>]
    /\ current = [w \in Workers |-> NoRequest(w[1])]
    /\ executed = [w \in Workers |-> FALSE]
    /\ outcome = [w \in Workers |-> Failed]
    /\ supervised = [w \in Workers |-> NoRuntime]
    /\ speaking = [s \in Sessions |-> NoRuntime]
    /\ running = [s \in Sessions |-> NoRuntime]
    /\ cache = {}
    /\ latest = [i \in Ids |-> [age |-> 0, load |-> 0]]
    /\ submitted = {}
    /\ dispatches = 0
    /\ born = [s \in Sessions |-> 0]
    /\ taken = [s \in Sessions |-> 0]
    /\ executions = [i \in Ids |-> 0]
    /\ answered = {}
    /\ lost = {}
    /\ panics = 0
    /\ removals = 0

Alive(w) == pc[w] \notin {"unborn", "retired", "panicked"}
Request(w) == current[w].request

----------------------------------------------------------------------------
(* Dispatch: what the connection threads do *)

\* A retried id finds its newest outcome.
Cached(i) == \E c \in cache : c.id = i
Newest(i) == LET c == CHOOSE c \in cache :
                         c.id = i /\ \A d \in cache : d.id = i => c.place.age <= d.place.age
             IN  c.outcome

\* An outcome of b bytes is cached, and the oldest are evicted; one larger than
\* the budget evicts all, itself included.  Notifications are not cached.
New(b) == [age |-> 1, load |-> b]
Aged(p, b) == [age |-> p.age + 1, load |-> p.load + b]
Remember(i, o, b) ==
    IF i = Nil THEN cache
    ELSE {c \in {[d EXCEPT !.place = Aged(@, b)] : d \in cache}
                    \cup {[id |-> i, outcome |-> o, place |-> New(b)]} : Fits(c.place)}
Overtake(i, b) ==
    IF i = Nil THEN latest
    ELSE [j \in Ids |-> IF j = i THEN New(b)
                        ELSE IF latest[j].age = 0 THEN latest[j] ELSE Aged(latest[j], b)]
Caches(i, o) == \E b \in Sizes : cache' = Remember(i, o, b) /\ latest' = Overtake(i, b)

\* The session has a mailbox whose worker still holds the receiver.
ReachableNever(s) == FALSE            \* mutant: the registry is not consulted
Reachable(s) == registry[s] # NoWorker /\ Alive(<<s, registry[s]>>)

\* A channel is first in, first out.
QueuedFirst(q, item) == <<item>> \o q  \* mutant: last in, first out
Queued(q, item) == Append(q, item)

\* Under the registry lock: append to the reachable mailbox; otherwise forget a
\* dead one, make a new one holding the request, and start its worker.
Enqueue(r) ==
    LET s == r.session
        item == [request |-> r, ticket |-> dispatches + 1]
        w == <<s, IF Reachable(s) THEN registry[s] ELSE born[s] + 1>>
    IN  /\ channel' = [channel EXCEPT ![w] = Queued(@, item)]
        /\ registry' = [registry EXCEPT ![s] = w[2]]
        /\ born' = [born EXCEPT ![s] = IF Reachable(s) THEN @ ELSE @ + 1]
        /\ pc' = IF Reachable(s) THEN pc ELSE [pc EXCEPT ![w] = "receiving"]
        /\ UNCHANGED <<cache, latest, answered>>

\* The worker thread could not be spawned: the new mailbox is removed again and
\* the request is answered with an error, or with the outcome it already has.
SpawnFails(r) ==
    /\ ~Reachable(r.session)
    /\ registry' = [registry EXCEPT ![r.session] = NoWorker]
    /\ Caches(r.id, IF Cached(r.id) THEN Newest(r.id) ELSE Failed)
    /\ answered' = answered \cup ({r.id} \ {Nil})
    /\ UNCHANGED <<channel, born, pc>>

Dispatch(r) ==
    /\ dispatches < MaxDispatches
    /\ dispatches' = dispatches + 1
    /\ submitted' = submitted \cup {q \in {r} : q.id # Nil}
    /\ Enqueue(r) \/ SpawnFails(r)
    /\ UNCHANGED <<current, executed, outcome, supervised, speaking, running,
                   taken, executions, lost, panics, removals>>

\* A client makes a new request.  A start names a fresh runtime, every other
\* command one that some start named, or none.
Fresh == {i \in Ids : \A q \in submitted : q.id < i}
NamedRuntimes == {q.runtime : q \in submitted} \cup {NoRuntime}
Submit(s, i, k, n) ==
    /\ i \in Fresh /\ \A j \in Fresh : i <= j
    /\ k \in Kinds
    /\ n \in (IF k = "start" THEN {i} ELSE NamedRuntimes)
    /\ Dispatch([id |-> i, session |-> s, runtime |-> n, kind |-> k])

\* A fire-and-forget control: prompts, cancellations, answers and closes.
Notify(s, k, n) ==
    /\ k \in {"command", "close"}
    /\ n \in NamedRuntimes
    /\ Dispatch([id |-> Nil, session |-> s, runtime |-> n, kind |-> k])

\* A client that missed a reply asks again with the same id after reconnecting.
Retry(r) == r \in submitted /\ Dispatch(r)

----------------------------------------------------------------------------
(* A worker thread *)

\* A worker takes the oldest request of its channel.
Take(w) ==
    /\ current' = [current EXCEPT ![w] = Head(channel[w])]
    /\ channel' = [channel EXCEPT ![w] = Tail(@)]
    /\ taken' = [taken EXCEPT ![w[1]] = Head(channel[w]).ticket]
    /\ pc' = [pc EXCEPT ![w] = "lookup"]

Receive(w) ==
    /\ pc[w] = "receiving"
    /\ channel[w] # <<>>
    /\ Take(w)
    /\ UNCHANGED <<registry, executed, outcome, supervised, speaking, running, cache, latest,
                   clientVars, executions, answered, lost, panics, removals>>

\* An answered id is not executed again.
LookupHit(w) ==
    /\ pc[w] = "lookup"
    /\ Request(w).id # Nil /\ Cached(Request(w).id)
    /\ outcome' = [outcome EXCEPT ![w] = Newest(Request(w).id)]
    /\ executed' = [executed EXCEPT ![w] = FALSE]
    /\ pc' = [pc EXCEPT ![w] = "replying"]
    /\ UNCHANGED <<registry, channel, current, supervised, speaking, running, cache, latest,
                   clientVars, taken, executions, answered, lost, panics, removals>>

\* A start lets its runtime speak before the backend creates it.
LookupMiss(w) ==
    /\ pc[w] = "lookup"
    /\ ~(Request(w).id # Nil /\ Cached(Request(w).id))
    /\ speaking' = IF Request(w).kind = "start"
                     THEN [speaking EXCEPT ![w[1]] = Request(w).runtime]
                     ELSE speaking
    /\ executed' = [executed EXCEPT ![w] = TRUE]
    /\ pc' = [pc EXCEPT ![w] = "executing"]
    /\ UNCHANGED <<registry, channel, current, outcome, supervised, running, cache, latest,
                   clientVars, taken, executions, answered, lost, panics, removals>>

\* What Backend.handle does to the driver of session s, and what it answers.
Drives(s, n) == running' = [running EXCEPT ![s] = n]
Handle(s, r, o) ==
    \/ r.kind = "start" /\ o = Acked /\ Drives(s, r.runtime)
    \/ r.kind = "start" /\ o = Failed /\ Drives(s, NoRuntime)
    \/ r.kind = "attach" /\ o = [ok |-> TRUE, attached |-> running[s]] /\ UNCHANGED running
    \/ /\ r.kind = "command" /\ o = Acked
       /\ running[s] # NoRuntime /\ running[s] = r.runtime
       /\ UNCHANGED running
    \/ r.kind = "fork" /\ o = Acked /\ UNCHANGED running
    \/ r.kind \in {"command", "fork", "rewind", "remove"} /\ o = Failed /\ UNCHANGED running
    \/ r.kind = "rewind" /\ o \in {Acked, Failed} /\ Drives(s, NoRuntime)
    \/ /\ r.kind = "close" /\ o = Acked
       /\ IF running[s] = r.runtime THEN Drives(s, NoRuntime) ELSE UNCHANGED running
    \/ r.kind = "remove" /\ o = Acked /\ Drives(s, NoRuntime)

Execute(w) ==
    /\ pc[w] = "executing"
    /\ \E o \in Outcomes :
        /\ Handle(w[1], Request(w), o)
        /\ outcome' = [outcome EXCEPT ![w] = o]
    /\ executions' = [i \in Ids |-> IF i = Request(w).id THEN executions[i] + 1
                                                         ELSE executions[i]]
    /\ pc' = [pc EXCEPT ![w] = "executed"]
    /\ UNCHANGED <<registry, channel, current, executed, supervised, speaking, cache, latest,
                   clientVars, taken, answered, lost, panics, removals>>

\* Backend.handle panics: the thread dies with its channel.  A start has dropped
\* the previous driver by then.
Panic(w) ==
    /\ pc[w] = "executing"
    /\ panics < MaxPanics
    /\ panics' = panics + 1
    /\ running' = IF Request(w).kind = "start"
                    THEN [running EXCEPT ![w[1]] = NoRuntime] ELSE running
    /\ lost' = lost \cup ({Request(w).id} \ {Nil})
                    \cup ({channel[w][n].request.id : n \in DOMAIN channel[w]} \ {Nil})
    /\ pc' = [pc EXCEPT ![w] = "panicked"]
    /\ UNCHANGED <<registry, channel, current, executed, outcome, supervised, speaking,
                   cache, latest, clientVars, taken, executions, answered, removals>>

\* Hub::end_runtime: only the runtime that speaks, or whichever does.
Silence(s, any, n) == IF any \/ speaking[s] = n
                        THEN [speaking EXCEPT ![s] = NoRuntime] ELSE speaking

AnyStart(w) == Request(w).kind = "start"   \* mutant: the outcome is not looked at
FailedStart(w) == Request(w).kind = "start" /\ ~outcome[w].ok

\* The outcome is cached, and a start that failed stops speaking.
Conclude(w) ==
    /\ pc[w] = "executed"
    /\ Caches(Request(w).id, outcome[w])
    /\ speaking' = IF FailedStart(w)
                     THEN Silence(w[1], FALSE, Request(w).runtime) ELSE speaking
    /\ pc' = [pc EXCEPT ![w] = "replying"]
    /\ UNCHANGED <<registry, channel, current, executed, outcome, supervised, running,
                   clientVars, taken, executions, answered, lost, panics, removals>>

Reply(w) ==
    /\ pc[w] = "replying"
    /\ answered' = answered \cup ({Request(w).id} \ {Nil})
    /\ pc' = [pc EXCEPT ![w] = "settling"]
    /\ UNCHANGED <<registry, channel, current, executed, outcome, supervised, speaking,
                   running, cache, latest, clientVars, taken, executions, lost, panics, removals>>

\* A close counts when it names the supervised runtime; a removal always does.
Closes(w) ==
    /\ outcome[w].ok
    /\ \/ Request(w).kind = "remove"
       \/ Request(w).kind = "close" /\ supervised[w] = Request(w).runtime

\* active_runtime_id after a request that was executed.
Supervise(w) ==
    LET r == Request(w)
        o == outcome[w]
    IN  IF r.kind = "start" THEN (IF o.ok THEN r.runtime ELSE NoRuntime)
        ELSE IF o.ok /\ o.attached # NoRuntime THEN o.attached
        ELSE IF r.kind \in {"close", "remove"} THEN (IF Closes(w) THEN NoRuntime ELSE supervised[w])
        ELSE IF supervised[w] = NoRuntime /\ r.kind # "attach" /\ o.ok THEN r.runtime
        ELSE supervised[w]

\* Without a runtime the worker looks for queued work or retires.
Settle(w) ==
    /\ pc[w] = "settling"
    /\ supervised' = [supervised EXCEPT ![w] = IF executed[w] THEN Supervise(w) ELSE @]
    /\ speaking' = IF executed[w] /\ Closes(w)
                     THEN Silence(w[1], Request(w).kind = "remove", Request(w).runtime)
                     ELSE speaking
    /\ pc' = [pc EXCEPT ![w] = IF supervised'[w] = NoRuntime THEN "deciding" ELSE "receiving"]
    /\ UNCHANGED <<registry, channel, current, executed, outcome, running, cache, latest,
                   clientVars, taken, executions, answered, lost, panics, removals>>

IdleUnchecked(w) == TRUE              \* mutant: retires on its earlier impression
Idle(w) == channel[w] = <<>>

\* Under the registry lock: more work, or the mailbox is removed and the thread
\* ends.
TakeQueued(w) ==
    /\ pc[w] = "deciding"
    /\ channel[w] # <<>>
    /\ Take(w)
    /\ UNCHANGED <<registry, executed, outcome, supervised, speaking, running, cache, latest,
                   clientVars, executions, answered, lost, panics, removals>>

Retire(w) ==
    /\ pc[w] = "deciding"
    /\ Idle(w)
    /\ registry' = IF registry[w[1]] = w[2] THEN [registry EXCEPT ![w[1]] = NoWorker]
                                            ELSE registry
    /\ pc' = [pc EXCEPT ![w] = "retired"]
    /\ UNCHANGED <<channel, current, executed, outcome, supervised, speaking, running,
                   cache, latest, clientVars, taken, executions, answered, lost, panics, removals>>

\* RemoveProject runs on a thread of its own and drops the driver of a session
\* whatever its mailbox is doing.
RemoveProject(s) ==
    /\ removals < MaxRemovals
    /\ removals' = removals + 1
    /\ running' = [running EXCEPT ![s] = NoRuntime]
    /\ UNCHANGED <<registry, workerVars, speaking, cache, latest, clientVars, taken,
                   executions, answered, lost, panics>>

\* An independent request runs on a thread of its own and caches its outcome.
OtherConcludes ==
    /\ dispatches < MaxDispatches
    /\ dispatches' = dispatches + 1
    /\ Caches(Other, Acked)
    /\ UNCHANGED <<registry, workerVars, speaking, running, submitted, born, taken,
                   executions, answered, lost, panics, removals>>

----------------------------------------------------------------------------
WorkerStep(w) ==
    \/ Receive(w) \/ LookupHit(w) \/ LookupMiss(w) \/ Execute(w) \/ Conclude(w)
    \/ Reply(w) \/ Settle(w) \/ TakeQueued(w) \/ Retire(w)

Next ==
    \/ \E s \in Sessions, i \in Ids, k \in Kinds, n \in Runtimes \cup {NoRuntime} :
           Submit(s, i, k, n)
    \/ \E s \in Sessions, k \in Kinds, n \in Runtimes \cup {NoRuntime} : Notify(s, k, n)
    \/ \E r \in submitted : Retry(r)
    \/ \E w \in Workers : WorkerStep(w)
    \/ \E w \in Workers : Panic(w)
    \/ \E s \in Sessions : RemoveProject(s)
    \/ OtherConcludes

Spec == Init /\ [][Next]_vars

(* A worker thread keeps running and the backend answers; nothing forces a *)
(* client to ask, a retry or a panic.                                      *)
FairSpec == Spec /\ \A w \in Workers : WF_vars(WorkerStep(w))

----------------------------------------------------------------------------
(* Properties *)

\* Two workers never serve one session, so its lifecycle commands are executed
\* one at a time (server.rs:204: one mailbox per session preserves order).
OneWorkerPerSession ==
    \A s \in Sessions, m, n \in 1..MaxDispatches :
        Alive(<<s, m>>) /\ Alive(<<s, n>>) => m = n

\* A request is never left in the mailbox of a worker that retired (server.rs:897:
\* it joins this actor before retirement or creates its successor).
NotStranded == \A w \in Workers : pc[w] \in {"unborn", "retired"} => channel[w] = <<>>

\* The workers of a session take its requests in the order of dispatch, across
\* retirements and panics.
SessionOrder ==
    [][\A s \in Sessions : taken'[s] # taken[s] => taken'[s] > taken[s]]_vars

\* A request that reached an outcome is not executed again when it is retried,
\* until outcomes that were cached since, of whatever requests, have pushed its
\* own over a budget: an outcome leaves the cache no sooner, and nobody looks for
\* one that is still to be cached (handle_request, Hub::cached_response and
\* cache_response).
Overdue(i) == latest[i].age > CacheCap \/ latest[i].load > CacheBytes
ExecutedOnce ==
    [][\A i \in Ids : executions'[i] > executions[i] => executions[i] = 0 \/ Overdue(i)]_vars

\* The driver a session holds may speak, except while a start replaces it: no
\* close, failed start, retry or retirement silences a live runtime
\* (handle_request, run_runtime_mailbox and Hub::end_runtime).
RunningIsHeard ==
    \A s \in Sessions :
        \/ running[s] = NoRuntime
        \/ speaking[s] = running[s]
        \/ \E w \in Workers : /\ w[1] = s /\ pc[w] = "executing"
                              /\ Request(w).kind = "start"

\* Every request with an id is answered, unless a panic took it.
EveryRequestAnswered ==
    \A i \in Ids : (\E r \in submitted : r.id = i) ~> (i \in answered \/ i \in lost)
=============================================================================
