----------------------------- MODULE ServerPool -----------------------------
(***************************************************************************)
(* The pools of resident provider servers: `opencode serve`, one for each  *)
(* workspace (crates/insulator-core/src/opencode_pool.rs), and `dsh web`,  *)
(* one for the daemon (deepseek_pool.rs, the same code without any_live).  *)
(* Threads share one process through counted handles; the last handle that *)
(* is dropped kills it, and who asks for one meanwhile waits.              *)
(*                                                                         *)
(* Abstractions.  One slot: slots share nothing.  A thread is a call or a  *)
(* session and holds at most one handle.  A server is a number; its handle *)
(* count is the set of threads that own a strong reference.  A panic while *)
(* a server starts is left out, and so are the dedicated servers, which    *)
(* have one owner and no slot.                                             *)
(***************************************************************************)
EXTENDS Naturals

CONSTANTS Threads,
          Nobody,    \* no thread
          MaxCalls   \* bound: calls of acquire, any_live and clone

ASSUME ConstantsAssumption == Nobody \notin Threads /\ MaxCalls \in Nat

Nothing == 0
Servers == 1..MaxCalls    \* a call starts one at most

VARIABLES
    \* PoolSlot
    state,     \* PoolState: "vacant", "starting", "running", "stopping"
    current,   \* the weak reference in Running
    lock,      \* who holds state while it shuts a server down
    starter,   \* who has set Starting and will settle it
    \* the server processes: "unborn", "up", "exited"
    process,
    \* the threads
    pc,
    ref,       \* the server a thread deals with
    calls,
    stopped    \* history: the servers the pool has shut down

slotVars == <<state, current, lock, starter>>
vars == <<slotVars, process, pc, ref, calls, stopped>>

Owning == {"superseding", "checking", "holding"}
Steps == Owning \cup {"idle", "acquire", "waiting", "starting", "probing", "publishing",
                      "failed", "search", "reaping", "stopping", "killing"}

TypeOK ==
    /\ state \in {"vacant", "starting", "running", "stopping"}
    /\ current \in Servers \cup {Nothing}
    /\ lock \in Threads \cup {Nobody} /\ starter \in Threads \cup {Nobody}
    /\ process \in [Servers -> {"unborn", "up", "exited"}]
    /\ pc \in [Threads -> Steps]
    /\ ref \in [Threads -> Servers \cup {Nothing}]
    /\ calls \in 0..MaxCalls
    /\ stopped \subseteq Servers

Init ==
    /\ state = "vacant" /\ current = Nothing /\ lock = Nobody /\ starter = Nobody
    /\ process = [g \in Servers |-> "unborn"]
    /\ pc = [t \in Threads |-> "idle"] /\ ref = [t \in Threads |-> Nothing]
    /\ calls = 0 /\ stopped = {}

\* The strong references to a server: Arc::strong_count.
Owners(g) == {t \in Threads : ref[t] = g /\ pc[t] \in Owning}
Alive(g) == process[g] = "up"

Goes(t, p, g) == pc' = [pc EXCEPT ![t] = p] /\ ref' = [ref EXCEPT ![t] = g]
\* changed.notify_all, with which t goes on to p.
Awake(q) == IF q = "waiting" THEN "acquire" ELSE q
NotifyNobody(t, p, g) == Goes(t, p, g)   \* mutant: the waiters are not woken
NotifyAll(t, p, g) ==
    /\ pc' = [u \in Threads |-> IF u = t THEN p ELSE Awake(pc[u])]
    /\ ref' = [ref EXCEPT ![t] = g]

----------------------------------------------------------------------------
(* acquire *)

Call(t) ==
    /\ pc[t] = "idle" /\ calls < MaxCalls
    /\ calls' = calls + 1
    /\ \E p \in {"acquire", "search"} : Goes(t, p, Nothing)
    /\ UNCHANGED <<slotVars, process, stopped>>

\* The weak reference can be upgraded, and the process has not exited.
UpgradesAlways == TRUE                  \* mutant: a dying server is adopted
Upgrades == Owners(current) # {}

Join(t) ==
    /\ pc[t] = "acquire" /\ lock = Nobody
    /\ state = "running" /\ Upgrades /\ Alive(current)
    /\ Goes(t, "holding", current)
    /\ UNCHANGED <<slotVars, process, calls, stopped>>

\* The process has exited although handles exist: this thread replaces it.
Supersede(t) ==
    /\ pc[t] = "acquire" /\ lock = Nobody
    /\ state = "running" /\ Upgrades /\ ~Alive(current)
    /\ state' = "starting" /\ starter' = t
    /\ Goes(t, "superseding", current)
    /\ current' = Nothing
    /\ UNCHANGED <<lock, process, calls, stopped>>

\* Somebody starts a server, or is about to stop the current one.
Wait(t) ==
    /\ pc[t] = "acquire" /\ lock = Nobody
    /\ state = "starting" \/ (state = "running" /\ ~Upgrades)
    /\ Goes(t, "waiting", Nothing)
    /\ UNCHANGED <<slotVars, process, calls, stopped>>

\* A condition variable may wake a thread for no reason.
WakeSpuriously(t) ==
    /\ pc[t] = "waiting"
    /\ Goes(t, "acquire", Nothing)
    /\ UNCHANGED <<slotVars, process, calls, stopped>>

Claim(t) ==
    /\ pc[t] = "acquire" /\ lock = Nobody /\ state = "vacant"
    /\ state' = "starting" /\ starter' = t
    /\ Goes(t, "starting", Nothing)
    /\ UNCHANGED <<current, lock, process, calls, stopped>>

\* start: the child is spawned, probed until it answers, and killed if it
\* does not; or it cannot be spawned.
Launch(t) ==
    /\ pc[t] = "starting"
    /\ \/ \E g \in Servers :
             /\ process[g] = "unborn"
             /\ process' = [process EXCEPT ![g] = "up"]
             /\ Goes(t, "probing", g)
       \/ UNCHANGED process /\ Goes(t, "failed", Nothing)
    /\ UNCHANGED <<slotVars, calls, stopped>>

Answers(t) ==
    /\ pc[t] = "probing" /\ Alive(ref[t])
    /\ Goes(t, "publishing", ref[t])
    /\ UNCHANGED <<slotVars, process, calls, stopped>>

FailsToAnswer(t) ==
    /\ pc[t] = "probing"
    /\ process' = [process EXCEPT ![ref[t]] = "exited"]
    /\ stopped' = stopped \cup {ref[t]}
    /\ Goes(t, "failed", Nothing)
    /\ UNCHANGED <<slotVars, calls>>

Publish(t) ==
    /\ pc[t] = "publishing" /\ lock = Nobody
    /\ state' = "running" /\ current' = ref[t] /\ starter' = Nobody
    /\ NotifyAll(t, "holding", ref[t])
    /\ UNCHANGED <<lock, process, calls, stopped>>

GiveUp(t) ==
    /\ pc[t] = "failed" /\ lock = Nobody
    /\ state' = "vacant" /\ starter' = Nobody
    /\ NotifyAll(t, "idle", Nothing)
    /\ UNCHANGED <<current, lock, process, calls, stopped>>

----------------------------------------------------------------------------
(* any_live *)

Search(t) ==
    /\ pc[t] = "search" /\ lock = Nobody
    /\ IF state = "running" /\ Upgrades THEN Goes(t, "checking", current)
                                        ELSE Goes(t, "idle", Nothing)
    /\ UNCHANGED <<slotVars, process, calls, stopped>>

----------------------------------------------------------------------------
(* Handles: clone, drop, and the destructor of the last one *)

\* What a thread does when its reference is gone.
Afterwards(t) == IF starter = t THEN "starting" ELSE "idle"
LastOwnerNever(t) == FALSE             \* mutant: the slot keeps a strong reference
LastOwner(t) == Owners(ref[t]) = {t}

Found(t) ==
    /\ pc[t] = "checking" /\ Alive(ref[t])
    /\ Goes(t, "holding", ref[t])
    /\ UNCHANGED <<slotVars, process, calls, stopped>>

Clone(t, u) ==
    /\ pc[t] = "holding" /\ pc[u] = "idle" /\ calls < MaxCalls
    /\ calls' = calls + 1
    /\ Goes(u, "holding", ref[t])
    /\ UNCHANGED <<slotVars, process, stopped>>

\* A session ends, a search found a server that has exited, or a thread lets
\* go of the server it replaces.
Drop(t) ==
    /\ \/ pc[t] \in {"holding", "superseding"}
       \/ pc[t] = "checking" /\ ~Alive(ref[t])
    /\ IF LastOwner(t) THEN Goes(t, "reaping", ref[t]) ELSE Goes(t, Afterwards(t), Nothing)
    /\ UNCHANGED <<slotVars, process, calls, stopped>>

\* PoolInner::drop: the destructor of the slot's server keeps the lock.
IsCurrentAlways(t) == TRUE              \* mutant: the identity is not compared
IsCurrent(t) == state = "running" /\ current = ref[t]

Reap(t) ==
    /\ pc[t] = "reaping" /\ lock = Nobody
    /\ IF IsCurrent(t)
         THEN state' = "stopping" /\ lock' = t /\ Goes(t, "stopping", ref[t])
         ELSE UNCHANGED <<state, lock>> /\ Goes(t, "killing", ref[t])
    /\ UNCHANGED <<current, starter, process, calls, stopped>>

Shutdown(t) ==
    /\ process' = [process EXCEPT ![ref[t]] = "exited"]
    /\ stopped' = stopped \cup {ref[t]}
    /\ UNCHANGED <<starter, calls>>

StopCurrent(t) ==
    /\ pc[t] = "stopping"
    /\ Shutdown(t)
    /\ state' = "vacant" /\ current' = Nothing /\ lock' = Nobody
    /\ NotifyAll(t, "idle", Nothing)

KillOther(t) ==
    /\ pc[t] = "killing"
    /\ Shutdown(t)
    /\ Goes(t, Afterwards(t), Nothing)
    /\ UNCHANGED <<state, current, lock>>

\* A server exits by itself (external).
Exit(g) ==
    /\ Alive(g)
    /\ process' = [process EXCEPT ![g] = "exited"]
    /\ UNCHANGED <<slotVars, pc, ref, calls, stopped>>

----------------------------------------------------------------------------
Acquire(t) == Join(t) \/ Supersede(t) \/ Wait(t) \/ Claim(t)
Start(t) == Launch(t) \/ Answers(t) \/ FailsToAnswer(t) \/ Publish(t) \/ GiveUp(t)
Destroy(t) == Reap(t) \/ StopCurrent(t) \/ KillOther(t)
LetGo(t) == pc[t] # "holding" /\ Drop(t)
ThreadStep(t) == Acquire(t) \/ Start(t) \/ Search(t) \/ Found(t) \/ LetGo(t) \/ Destroy(t)

Next ==
    \/ \E t \in Threads : Call(t) \/ ThreadStep(t) \/ Drop(t) \/ WakeSpuriously(t)
    \/ \E t, u \in Threads : Clone(t, u)
    \/ \E g \in Servers : Exit(g)

Spec == Init /\ [][Next]_vars

(* Every thread keeps running, and gets the lock of the slot: who holds it *)
(* longer than a step shuts a server down, which ends (5 s, then a kill).  *)
(* A session may keep its handle for ever.                                 *)
FairSpec == Spec /\ \A t \in Threads : WF_vars(ThreadStep(t))

----------------------------------------------------------------------------
(* Properties *)

Running == {g \in Servers : Alive(g)}
Leases == [t \in Threads |-> IF pc[t] = "holding" THEN ref[t] ELSE Nothing]

\* The pool implements SharedServer: no second process beside a live one, none
\* is stopped under a user, none is handed out that was stopped
\* (opencode_pool.rs: acquire_with_start, any_live, PoolInner::drop).
Shared == INSTANCE SharedServer WITH Users <- Threads, live <- Running, lease <- Leases
ImplementsSharedServer == Shared!Spec

\* A live server with a handle is the one in the slot, so that the next session
\* shares it: a stale generation's end never takes its replacement out of the
\* slot (PoolInner::drop compares the weak reference).
UsedIsCurrent ==
    \A g \in Servers : Alive(g) /\ Owners(g) # {} => state = "running" /\ current = g

\* Every call gets a server, an error, or nothing: no waiter misses the end of a
\* start or of a shutdown, and no destructor waits for a lock it holds.
EveryCallReturns ==
    \A t \in Threads : pc[t] \in {"acquire", "search"} ~> pc[t] \in {"holding", "idle"}

\* The end of the last handle ends the process: a server nobody owns never stays.
UnusedIsStopped ==
    \A g \in Servers : Alive(g) /\ Owners(g) = {} ~> ~Alive(g) \/ Owners(g) # {}
=============================================================================
