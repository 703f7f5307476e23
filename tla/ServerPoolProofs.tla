-------------------------- MODULE ServerPoolProofs --------------------------
(***************************************************************************)
(* Proofs about ServerPool, for any threads and any number of calls: the   *)
(* type invariant, that a live server with a handle is the one in the      *)
(* slot, and the refinement of SharedServer.                               *)
(***************************************************************************)
EXTENDS ServerPool, TLAPS

StartSteps == {"superseding", "starting", "probing", "publishing", "failed"}
Unready == {"probing", "publishing"}
Sole == Unready \cup {"reaping", "stopping", "killing"}
Empty == {"idle", "acquire", "waiting", "starting", "failed", "search"}

\* Who starts a server, and who shuts the current one down.
Roles ==
    /\ starter # Nobody <=> state = "starting"
    /\ current # Nothing <=> state \in {"running", "stopping"}
    /\ lock # Nobody <=> state = "stopping"
    /\ \A t \in Threads :
        /\ pc[t] \in StartSteps => starter = t
        /\ starter = t => pc[t] \in StartSteps \cup {"reaping", "killing"}
        /\ pc[t] = "stopping" <=> lock = t
        /\ lock = t => current = ref[t]

\* A server that is being started or destroyed is one thread's own.
References ==
    /\ \A t \in Threads : ref[t] = Nothing <=> pc[t] \in Empty
    /\ \A t \in Threads :
        ref[t] # Nothing => process[ref[t]] # "unborn" /\ ref[t] \notin stopped
    /\ \A t, u \in Threads : pc[t] \in Sole /\ t # u => ref[u] # ref[t]

\* A process that runs is in the slot, or still being started.
Processes ==
    /\ current # Nothing => process[current] # "unborn"
    /\ \A g \in stopped : process[g] = "exited"
    /\ \A g \in Servers : Alive(g) =>
          current = g \/ \E t \in Threads : pc[t] \in Unready /\ ref[t] = g

PoolInv == TypeOK /\ Roles /\ References /\ Processes

----------------------------------------------------------------------------
LEMMA Constants == Nobody \notin Threads /\ MaxCalls \in Nat /\ Nothing \notin Servers
BY ConstantsAssumption DEF Nothing, Servers

LEMMA InitPool == Init => PoolInv
BY Constants DEF Init, PoolInv, TypeOK, Roles, References, Processes, Steps, Owning,
   StartSteps, Unready, Sole, Empty, Alive

\* Only the thread itself moves, but for waiters that are woken.
LEMMA OthersStay ==
    ASSUME TypeOK, NEW t \in Threads, NEW p \in Steps, NEW g \in Servers \cup {Nothing},
           Goes(t, p, g) \/ NotifyAll(t, p, g)
    PROVE  /\ pc' \in [Threads -> Steps] /\ ref' \in [Threads -> Servers \cup {Nothing}]
           /\ pc'[t] = p /\ ref'[t] = g
           /\ \A u \in Threads \ {t} : ref'[u] = ref[u]
           /\ \A u \in Threads \ {t} :
                 pc'[u] = pc[u] \/ (pc[u] = "waiting" /\ pc'[u] = "acquire")
BY DEF TypeOK, Goes, NotifyAll, Awake, Steps

LEMMA AcquireKeeps ==
    ASSUME PoolInv, NEW t \in Threads, Acquire(t) PROVE PoolInv'
<1> USE Constants DEF PoolInv, slotVars, Owners
<1>1. CASE Join(t)
  <2>1. current \in Servers  BY <1>1 DEF Join, Roles, TypeOK
  <2>2. PICK o \in Threads : ref[o] = current /\ pc[o] \in Owning
    BY <1>1 DEF Join, Upgrades
  <2>3. Goes(t, "holding", current) /\ "holding" \in Steps  BY <1>1 DEF Join, Steps, Owning
  <2>6. TypeOK'  BY <1>1, <2>1, <2>2, <2>3, OthersStay DEF Join, Owning, TypeOK, References
  <2>7. Roles'
    BY <1>1, <2>1, <2>2, <2>3, OthersStay
    DEF Join, Owning, TypeOK, Roles, References, StartSteps, Sole, Unready, Empty
  <2>8. References'
    BY <1>1, <2>1, <2>2, <2>3, OthersStay, SMTT(30)
    DEF Join, Owning, TypeOK, Roles, References, Processes, Sole, Unready, Empty
  <2>9. Processes'
    BY <1>1, <2>1, <2>2, <2>3, OthersStay
    DEF Join, Owning, TypeOK, Roles, References, Processes, StartSteps, Sole, Unready, Empty, Alive
  <2> QED  BY <2>6, <2>7, <2>8, <2>9
<1>2. CASE Supersede(t)
  <2>1. current \in Servers  BY <1>2 DEF Supersede, Roles, TypeOK
  <2>2. PICK o \in Threads : ref[o] = current /\ pc[o] \in Owning
    BY <1>2 DEF Supersede, Upgrades
  <2>3. Goes(t, "superseding", current) /\ "superseding" \in Steps
    BY <1>2 DEF Supersede, Steps, Owning
  <2>6. TypeOK'  BY <1>2, <2>1, <2>2, <2>3, OthersStay DEF Supersede, Owning, TypeOK, References
  <2>7. Roles'
    BY <1>2, <2>1, <2>2, <2>3, OthersStay
    DEF Supersede, Owning, TypeOK, Roles, References, StartSteps, Sole, Unready, Empty
  <2>8. References'
    BY <1>2, <2>1, <2>2, <2>3, OthersStay
    DEF Supersede, Owning, TypeOK, Roles, References, Processes, Sole, Unready, Empty
  <2>9. Processes'
    BY <1>2, <2>1, <2>2, <2>3, OthersStay
    DEF Supersede, Owning, TypeOK, Roles, References, Processes, StartSteps, Sole, Unready, Empty, Alive
  <2> QED  BY <2>6, <2>7, <2>8, <2>9
<1>3. CASE Wait(t)
  <2>1. Goes(t, "waiting", Nothing) /\ "waiting" \in Steps  BY <1>3 DEF Wait, Steps
  <2>6. TypeOK'  BY <1>3, <2>1, OthersStay DEF Wait, TypeOK, References
  <2>7. Roles'
    BY <1>3, <2>1, OthersStay
    DEF Wait, TypeOK, Roles, References, StartSteps, Sole, Unready, Empty
  <2>8. References'
    BY <1>3, <2>1, OthersStay
    DEF Wait, TypeOK, Roles, References, Processes, Sole, Unready, Empty
  <2>9. Processes'
    BY <1>3, <2>1, OthersStay
    DEF Wait, TypeOK, Roles, References, Processes, StartSteps, Sole, Unready, Empty, Alive
  <2> QED  BY <2>6, <2>7, <2>8, <2>9
<1>4. CASE Claim(t)
  <2>1. Goes(t, "starting", Nothing) /\ "starting" \in Steps  BY <1>4 DEF Claim, Steps
  <2>6. TypeOK'  BY <1>4, <2>1, OthersStay DEF Claim, TypeOK, References
  <2>7. Roles'
    BY <1>4, <2>1, OthersStay
    DEF Claim, TypeOK, Roles, References, StartSteps, Sole, Unready, Empty
  <2>8. References'
    BY <1>4, <2>1, OthersStay
    DEF Claim, TypeOK, Roles, References, Processes, Sole, Unready, Empty
  <2>9. Processes'
    BY <1>4, <2>1, OthersStay
    DEF Claim, TypeOK, Roles, References, Processes, StartSteps, Sole, Unready, Empty, Alive
  <2> QED  BY <2>6, <2>7, <2>8, <2>9
<1> QED  BY <1>1, <1>2, <1>3, <1>4 DEF Acquire

LEMMA StartKeeps ==
    ASSUME PoolInv, NEW t \in Threads, Start(t) PROVE PoolInv'
<1> USE Constants DEF PoolInv, slotVars
<1>1. CASE Launch(t)
  <2>1. CASE UNCHANGED process /\ Goes(t, "failed", Nothing)
    <3>1. "failed" \in Steps  BY DEF Steps
    <3>6. TypeOK'  BY <1>1, <2>1, <3>1, OthersStay DEF Launch, TypeOK, References
    <3>7. Roles'
      BY <1>1, <2>1, <3>1, OthersStay
      DEF Launch, TypeOK, Roles, References, StartSteps, Sole, Unready, Empty
    <3>8. References'
      BY <1>1, <2>1, <3>1, OthersStay
      DEF Launch, TypeOK, Roles, References, Processes, Sole, Unready, Empty
    <3>9. Processes'
      BY <1>1, <2>1, <3>1, OthersStay
      DEF Launch, TypeOK, Roles, References, Processes, StartSteps, Sole, Unready, Empty, Alive
    <3> QED  BY <3>6, <3>7, <3>8, <3>9
  <2>2. CASE ~(UNCHANGED process /\ Goes(t, "failed", Nothing))
    <3>1. PICK g \in Servers : /\ process[g] = "unborn"
                               /\ process' = [process EXCEPT ![g] = "up"]
                               /\ Goes(t, "probing", g)
      BY <1>1, <2>2 DEF Launch
    <3>2. "probing" \in Steps  BY DEF Steps
    <3>6. TypeOK'  BY <1>1, <3>1, <3>2, OthersStay DEF Launch, TypeOK, References
    <3>7. Roles'
      BY <1>1, <3>1, <3>2, OthersStay
      DEF Launch, TypeOK, Roles, References, StartSteps, Sole, Unready, Empty
    <3>8. References'
      BY <1>1, <3>1, <3>2, OthersStay, SMTT(30)
      DEF Launch, TypeOK, Roles, References, Processes, Sole, Unready, Empty
    <3>9. Processes'
      BY <1>1, <3>1, <3>2, OthersStay
      DEF Launch, TypeOK, Roles, References, Processes, StartSteps, Sole, Unready, Empty, Alive
    <3> QED  BY <3>6, <3>7, <3>8, <3>9
  <2> QED  BY <2>1, <2>2
<1>2. CASE Answers(t)
  <2>1. Goes(t, "publishing", ref[t]) /\ "publishing" \in Steps /\ ref[t] \in Servers \cup {Nothing}
    BY <1>2 DEF Answers, Steps, TypeOK
  <2>6. TypeOK'  BY <1>2, <2>1, OthersStay DEF Answers, TypeOK, References
  <2>7. Roles'
    BY <1>2, <2>1, OthersStay
    DEF Answers, TypeOK, Roles, References, StartSteps, Sole, Unready, Empty
  <2>8. References'
    BY <1>2, <2>1, OthersStay
    DEF Answers, TypeOK, Roles, References, Processes, Sole, Unready, Empty
  <2>9. Processes'
    BY <1>2, <2>1, OthersStay
    DEF Answers, TypeOK, Roles, References, Processes, StartSteps, Sole, Unready, Empty, Alive
  <2> QED  BY <2>6, <2>7, <2>8, <2>9
<1>3. CASE FailsToAnswer(t)
  <2>1. Goes(t, "failed", Nothing) /\ "failed" \in Steps  BY <1>3 DEF FailsToAnswer, Steps
  <2>2. ref[t] \in Servers  BY <1>3 DEF FailsToAnswer, References, Empty, TypeOK
  <2>6. TypeOK'  BY <1>3, <2>1, <2>2, OthersStay DEF FailsToAnswer, TypeOK, References
  <2>7. Roles'
    BY <1>3, <2>1, <2>2, OthersStay
    DEF FailsToAnswer, TypeOK, Roles, References, StartSteps, Sole, Unready, Empty
  <2>8. References'
    BY <1>3, <2>1, <2>2, OthersStay
    DEF FailsToAnswer, TypeOK, Roles, References, Processes, Sole, Unready, Empty
  <2>9. Processes'
    BY <1>3, <2>1, <2>2, OthersStay
    DEF FailsToAnswer, TypeOK, Roles, References, Processes, StartSteps, Sole, Unready, Empty, Alive
  <2> QED  BY <2>6, <2>7, <2>8, <2>9
<1>4. CASE Publish(t)
  <2>1. NotifyAll(t, "holding", ref[t]) /\ "holding" \in Steps  BY <1>4 DEF Publish, Steps, Owning
  <2>2. ref[t] \in Servers  BY <1>4 DEF Publish, References, Empty, TypeOK
  <2>6. TypeOK'  BY <1>4, <2>1, <2>2, OthersStay DEF Publish, TypeOK, References
  <2>7. Roles'
    BY <1>4, <2>1, <2>2, OthersStay
    DEF Publish, TypeOK, Roles, References, StartSteps, Sole, Unready, Empty
  <2>8. References'
    BY <1>4, <2>1, <2>2, OthersStay
    DEF Publish, TypeOK, Roles, References, Processes, Sole, Unready, Empty
  <2>9. Processes'
    BY <1>4, <2>1, <2>2, OthersStay
    DEF Publish, TypeOK, Roles, References, Processes, StartSteps, Sole, Unready, Empty, Alive
  <2> QED  BY <2>6, <2>7, <2>8, <2>9
<1>5. CASE GiveUp(t)
  <2>1. NotifyAll(t, "idle", Nothing) /\ "idle" \in Steps  BY <1>5 DEF GiveUp, Steps
  <2>6. TypeOK'  BY <1>5, <2>1, OthersStay DEF GiveUp, TypeOK, References
  <2>7. Roles'
    BY <1>5, <2>1, OthersStay
    DEF GiveUp, TypeOK, Roles, References, StartSteps, Sole, Unready, Empty
  <2>8. References'
    BY <1>5, <2>1, OthersStay
    DEF GiveUp, TypeOK, Roles, References, Processes, Sole, Unready, Empty
  <2>9. Processes'
    BY <1>5, <2>1, OthersStay
    DEF GiveUp, TypeOK, Roles, References, Processes, StartSteps, Sole, Unready, Empty, Alive
  <2> QED  BY <2>6, <2>7, <2>8, <2>9
<1> QED  BY <1>1, <1>2, <1>3, <1>4, <1>5 DEF Start

\* What a thread finds and lets go without a lock.
LEMMA HandleKeeps ==
    ASSUME PoolInv, NEW t \in Threads,
           \/ Call(t) \/ Search(t) \/ Found(t) \/ Drop(t) \/ WakeSpuriously(t)
           \/ \E u \in Threads : Clone(t, u)
    PROVE  PoolInv'
<1> USE Constants DEF PoolInv, slotVars, Owners
<1>1. CASE Call(t)
  <2>1. PICK p \in {"acquire", "search"} : Goes(t, p, Nothing)  BY <1>1 DEF Call
  <2>2. p \in Steps  BY DEF Steps
  <2>3. calls' \in 0..MaxCalls  BY <1>1 DEF Call, TypeOK
  <2>6. TypeOK'  BY <1>1, <2>1, <2>2, <2>3, OthersStay DEF Call, TypeOK, References
  <2>7. Roles'
    BY <1>1, <2>1, <2>2, <2>3, OthersStay
    DEF Call, TypeOK, Roles, References, StartSteps, Sole, Unready, Empty
  <2>8. References'
    BY <1>1, <2>1, <2>2, <2>3, OthersStay
    DEF Call, TypeOK, Roles, References, Processes, Sole, Unready, Empty
  <2>9. Processes'
    BY <1>1, <2>1, <2>2, <2>3, OthersStay
    DEF Call, TypeOK, Roles, References, Processes, StartSteps, Sole, Unready, Empty, Alive
  <2> QED  BY <2>6, <2>7, <2>8, <2>9
<1>2. CASE Search(t)
  <2>1. CASE state = "running" /\ Upgrades
    <3>1. current \in Servers  BY <2>1 DEF Roles, TypeOK
    <3>2. PICK o \in Threads : ref[o] = current /\ pc[o] \in Owning  BY <2>1 DEF Upgrades
    <3>3. Goes(t, "checking", current) /\ "checking" \in Steps
      BY <1>2, <2>1 DEF Search, Steps, Owning
    <3>6. TypeOK'  BY <1>2, <3>1, <3>2, <3>3, OthersStay DEF Search, Owning, TypeOK, References
    <3>7. Roles'
      BY <1>2, <3>1, <3>2, <3>3, OthersStay
      DEF Search, Owning, TypeOK, Roles, References, StartSteps, Sole, Unready, Empty
    <3>8. References'
      BY <1>2, <3>1, <3>2, <3>3, OthersStay, SMTT(30)
      DEF Search, Owning, TypeOK, Roles, References, Processes, Sole, Unready, Empty
    <3>9. Processes'
      BY <1>2, <3>1, <3>2, <3>3, OthersStay
      DEF Search, Owning, TypeOK, Roles, References, Processes, StartSteps, Sole, Unready, Empty, Alive
    <3> QED  BY <3>6, <3>7, <3>8, <3>9
  <2>2. CASE ~(state = "running" /\ Upgrades)
    <3>1. Goes(t, "idle", Nothing) /\ "idle" \in Steps  BY <1>2, <2>2 DEF Search, Steps
    <3>6. TypeOK'  BY <1>2, <3>1, OthersStay DEF Search, TypeOK, References
    <3>7. Roles'
      BY <1>2, <3>1, OthersStay
      DEF Search, TypeOK, Roles, References, StartSteps, Sole, Unready, Empty
    <3>8. References'
      BY <1>2, <3>1, OthersStay
      DEF Search, TypeOK, Roles, References, Processes, Sole, Unready, Empty
    <3>9. Processes'
      BY <1>2, <3>1, OthersStay
      DEF Search, TypeOK, Roles, References, Processes, StartSteps, Sole, Unready, Empty, Alive
    <3> QED  BY <3>6, <3>7, <3>8, <3>9
  <2> QED  BY <2>1, <2>2
<1>3. CASE Found(t)
  <2>1. Goes(t, "holding", ref[t]) /\ "holding" \in Steps /\ ref[t] \in Servers \cup {Nothing}
    BY <1>3 DEF Found, Steps, Owning, TypeOK
  <2>6. TypeOK'  BY <1>3, <2>1, OthersStay DEF Found, TypeOK, References
  <2>7. Roles'
    BY <1>3, <2>1, OthersStay
    DEF Found, TypeOK, Roles, References, StartSteps, Sole, Unready, Empty
  <2>8. References'
    BY <1>3, <2>1, OthersStay
    DEF Found, TypeOK, Roles, References, Processes, Sole, Unready, Empty
  <2>9. Processes'
    BY <1>3, <2>1, OthersStay
    DEF Found, TypeOK, Roles, References, Processes, StartSteps, Sole, Unready, Empty, Alive
  <2> QED  BY <2>6, <2>7, <2>8, <2>9
<1>4. CASE Drop(t)
  <2>1. pc[t] \in Owning /\ ref[t] \in Servers
    BY <1>4 DEF Drop, Owning, References, Empty, TypeOK
  <2>2. CASE LastOwner(t)
    <3>1. Goes(t, "reaping", ref[t]) /\ "reaping" \in Steps  BY <1>4, <2>2 DEF Drop, Steps
    <3>2. \A u \in Threads : u # t /\ pc[u] \in Owning => ref[u] # ref[t]
      BY <2>2 DEF LastOwner
    <3>3. \A u \in Threads : pc[u] \in Owning \cup Sole \cup Empty
      BY DEF TypeOK, Steps, Owning, Sole, Unready, Empty
    <3>6. TypeOK'  BY <1>4, <2>1, <3>1, <3>2, <3>3, OthersStay DEF Drop, Owning, TypeOK, References
    <3>7. Roles'
      BY <1>4, <2>1, <3>1, <3>2, <3>3, OthersStay
      DEF Drop, Owning, TypeOK, Roles, References, StartSteps, Sole, Unready, Empty
    <3>8. References'
      BY <1>4, <2>1, <3>1, <3>2, <3>3, OthersStay
      DEF Drop, Owning, TypeOK, Roles, References, Processes, Sole, Unready, Empty
    <3>9. Processes'
      BY <1>4, <2>1, <3>1, <3>2, <3>3, OthersStay
      DEF Drop, Owning, TypeOK, Roles, References, Processes, StartSteps, Sole, Unready, Empty, Alive
    <3> QED  BY <3>6, <3>7, <3>8, <3>9
  <2>3. CASE ~LastOwner(t)
    <3>1. Goes(t, Afterwards(t), Nothing) /\ Afterwards(t) \in Steps
      BY <1>4, <2>3 DEF Drop, Steps, Afterwards
    <3>6. TypeOK'  BY <1>4, <2>1, <3>1, OthersStay DEF Drop, Afterwards, Owning, TypeOK, References
    <3>7. Roles'
      BY <1>4, <2>1, <3>1, OthersStay
      DEF Drop, Afterwards, Owning, TypeOK, Roles, References, StartSteps, Sole, Unready, Empty
    <3>8. References'
      <4>1. UNCHANGED <<process, stopped>>  BY <1>4 DEF Drop
      <4>2. pc'[t] \in Empty /\ ref'[t] = Nothing  BY <3>1, OthersStay DEF Afterwards, Empty
      <4>3. \A u \in Threads : u # t => pc'[u] = pc[u] /\ ref'[u] = ref[u]
        BY <3>1 DEF Goes, TypeOK
      <4>4. pc'[t] \notin Sole /\ \A u \in Threads : pc[u] \in Sole => ref[u] # Nothing
        BY <4>2 DEF References, Sole, Unready, Empty
      <4> QED  BY <4>1, <4>2, <4>3, <4>4 DEF References
    <3>9. Processes'
      BY <1>4, <2>1, <3>1, OthersStay
      DEF Drop, Afterwards, Owning, TypeOK, Roles, References, Processes, StartSteps, Sole, Unready, Empty, Alive
    <3> QED  BY <3>6, <3>7, <3>8, <3>9
  <2> QED  BY <2>2, <2>3
<1>5. CASE WakeSpuriously(t)
  <2>1. Goes(t, "acquire", Nothing) /\ "acquire" \in Steps  BY <1>5 DEF WakeSpuriously, Steps
  <2>6. TypeOK'  BY <1>5, <2>1, OthersStay DEF WakeSpuriously, TypeOK, References
  <2>7. Roles'
    BY <1>5, <2>1, OthersStay
    DEF WakeSpuriously, TypeOK, Roles, References, StartSteps, Sole, Unready, Empty
  <2>8. References'
    BY <1>5, <2>1, OthersStay
    DEF WakeSpuriously, TypeOK, Roles, References, Processes, Sole, Unready, Empty
  <2>9. Processes'
    BY <1>5, <2>1, OthersStay
    DEF WakeSpuriously, TypeOK, Roles, References, Processes, StartSteps, Sole, Unready, Empty, Alive
  <2> QED  BY <2>6, <2>7, <2>8, <2>9
<1>6. CASE \E u \in Threads : Clone(t, u)
  <2>1. PICK u \in Threads : Clone(t, u)  BY <1>6
  <2>2. Goes(u, "holding", ref[t]) /\ "holding" \in Steps /\ ref[t] \in Servers
    BY <2>1 DEF Clone, Steps, Owning, References, Empty, TypeOK
  <2>3. calls' \in 0..MaxCalls  BY <2>1 DEF Clone, TypeOK
  <2>6. TypeOK'  BY <2>1, <2>2, <2>3, OthersStay DEF Clone, TypeOK, References
  <2>7. Roles'
    BY <2>1, <2>2, <2>3, OthersStay
    DEF Clone, TypeOK, Roles, References, StartSteps, Sole, Unready, Empty
  <2>8. References'
    BY <2>1, <2>2, <2>3, OthersStay
    DEF Clone, TypeOK, Roles, References, Processes, Sole, Unready, Empty
  <2>9. Processes'
    BY <2>1, <2>2, <2>3, OthersStay
    DEF Clone, TypeOK, Roles, References, Processes, StartSteps, Sole, Unready, Empty, Alive
  <2> QED  BY <2>6, <2>7, <2>8, <2>9
<1> QED  BY <1>1, <1>2, <1>3, <1>4, <1>5, <1>6

LEMMA DestroyKeeps ==
    ASSUME PoolInv, NEW t \in Threads, Destroy(t) PROVE PoolInv'
<1> USE Constants DEF PoolInv, slotVars
<1>0. pc[t] \in Sole => ref[t] \in Servers  BY DEF References, Sole, Unready, Empty, TypeOK
<1>1. CASE Reap(t)
  <2>1. CASE IsCurrent(t)
    <3>1. Goes(t, "stopping", ref[t]) /\ "stopping" \in Steps  BY <1>1, <2>1 DEF Reap, Steps
    <3>6. TypeOK'  BY <1>0, <1>1, <2>1, <3>1, OthersStay DEF Reap, IsCurrent, TypeOK, References
    <3>7. Roles'
      BY <1>0, <1>1, <2>1, <3>1, OthersStay
      DEF Reap, IsCurrent, TypeOK, Roles, References, StartSteps, Sole, Unready, Empty
    <3>8. References'
      BY <1>0, <1>1, <2>1, <3>1, OthersStay
      DEF Reap, IsCurrent, TypeOK, Roles, References, Processes, Sole, Unready, Empty
    <3>9. Processes'
      BY <1>0, <1>1, <2>1, <3>1, OthersStay
      DEF Reap, IsCurrent, TypeOK, Roles, References, Processes, StartSteps, Sole, Unready, Empty, Alive
    <3> QED  BY <3>6, <3>7, <3>8, <3>9
  <2>2. CASE ~IsCurrent(t)
    <3>1. Goes(t, "killing", ref[t]) /\ "killing" \in Steps  BY <1>1, <2>2 DEF Reap, Steps
    <3>6. TypeOK'  BY <1>0, <1>1, <2>2, <3>1, OthersStay DEF Reap, IsCurrent, TypeOK, References
    <3>7. Roles'
      BY <1>0, <1>1, <2>2, <3>1, OthersStay
      DEF Reap, IsCurrent, TypeOK, Roles, References, StartSteps, Sole, Unready, Empty
    <3>8. References'
      BY <1>0, <1>1, <2>2, <3>1, OthersStay
      DEF Reap, IsCurrent, TypeOK, Roles, References, Processes, Sole, Unready, Empty
    <3>9. Processes'
      BY <1>0, <1>1, <2>2, <3>1, OthersStay
      DEF Reap, IsCurrent, TypeOK, Roles, References, Processes, StartSteps, Sole, Unready, Empty, Alive
    <3> QED  BY <3>6, <3>7, <3>8, <3>9
  <2> QED  BY <2>1, <2>2
<1>2. CASE StopCurrent(t)
  <2>1. NotifyAll(t, "idle", Nothing) /\ "idle" \in Steps  BY <1>2 DEF StopCurrent, Steps
  <2>6. TypeOK'  BY <1>0, <1>2, <2>1, OthersStay DEF StopCurrent, Shutdown, TypeOK, Sole
  <2>7. Roles'
    BY <1>0, <1>2, <2>1, OthersStay
    DEF StopCurrent, Shutdown, TypeOK, Roles, References, StartSteps, Sole, Unready, Empty
  <2>8. References'
    BY <1>0, <1>2, <2>1, OthersStay, SMTT(30)
    DEF StopCurrent, Shutdown, TypeOK, Roles, References, Processes, Sole, Unready, Empty
  <2>9. Processes'
    BY <1>0, <1>2, <2>1, OthersStay
    DEF StopCurrent, Shutdown, TypeOK, Roles, References, Processes, StartSteps, Sole, Unready, Empty, Alive
  <2> QED  BY <2>6, <2>7, <2>8, <2>9
<1>3. CASE KillOther(t)
  <2>1. Goes(t, Afterwards(t), Nothing) /\ Afterwards(t) \in Steps
    BY <1>3 DEF KillOther, Steps, Afterwards
  <2>6. TypeOK'  BY <1>0, <1>3, <2>1, OthersStay DEF KillOther, Shutdown, TypeOK, Sole
  <2>7. Roles'
    BY <1>0, <1>3, <2>1, OthersStay
    DEF KillOther, Shutdown, Afterwards, TypeOK, Roles, References, StartSteps, Sole, Unready, Empty
  <2>8. References'
    BY <1>0, <1>3, <2>1, OthersStay, SMTT(30)
    DEF KillOther, Shutdown, Afterwards, TypeOK, Roles, References, Processes, Sole, Unready, Empty
  <2>9. Processes'
    BY <1>0, <1>3, <2>1, OthersStay
    DEF KillOther, Shutdown, Afterwards, TypeOK, Roles, References, Processes, StartSteps, Sole, Unready, Empty, Alive
  <2> QED  BY <2>6, <2>7, <2>8, <2>9
<1> QED  BY <1>1, <1>2, <1>3 DEF Destroy

LEMMA NextPool == PoolInv /\ [Next]_vars => PoolInv'
<1> SUFFICES ASSUME PoolInv, [Next]_vars PROVE PoolInv'  OBVIOUS
<1>1. CASE \E g \in Servers : Exit(g)
  BY <1>1 DEF Exit, slotVars, PoolInv, TypeOK, Roles, References, Processes, Alive
<1>2. CASE UNCHANGED vars
  BY <1>2 DEF vars, slotVars, PoolInv, TypeOK, Roles, References, Processes, Alive
<1> QED  BY <1>1, <1>2, AcquireKeeps, StartKeeps, HandleKeeps, DestroyKeeps
         DEF Next, ThreadStep, LetGo

LEMMA PoolSafety == Spec => []PoolInv
BY InitPool, NextPool, PTL DEF Spec

\* Slot, processes and threads are well typed.
THEOREM TypeCorrect == Spec => []TypeOK
<1>1. PoolInv => TypeOK  BY DEF PoolInv
<1> QED  BY <1>1, PoolSafety, PTL

\* A live server somebody owns is the one the slot hands out.
THEOREM UsedStaysCurrent == Spec => []UsedIsCurrent
<1>1. PoolInv => UsedIsCurrent
  <2> SUFFICES ASSUME PoolInv, NEW g \in Servers, Alive(g), NEW o \in Threads,
                      ref[o] = g, pc[o] \in Owning
               PROVE  state = "running" /\ current = g
    BY DEF UsedIsCurrent, Owners
  <2>1. ~\E t \in Threads : pc[t] \in Unready /\ ref[t] = g
    BY DEF PoolInv, References, Sole, Unready, Owning
  <2>2. current = g  BY <2>1 DEF PoolInv, Processes
  <2>3. state # "stopping"
    BY <2>2 DEF PoolInv, TypeOK, Roles, References, Sole, Owning
  <2> QED  BY <2>2, <2>3, Constants DEF PoolInv, Roles
<1> QED  BY <1>1, PoolSafety, PTL

----------------------------------------------------------------------------
(* The refinement: a step launches, leases, releases, stops, or stutters.  *)

\* The threads that hold a server are the same after the step, but for t.
LEMMA LeaseMoves ==
    ASSUME PoolInv, NEW t \in Threads, NEW p \in Steps, NEW g \in Servers \cup {Nothing},
           Goes(t, p, g) \/ NotifyAll(t, p, g)
    PROVE  Leases' = [Leases EXCEPT ![t] = IF p = "holding" THEN g ELSE Nothing]
<1>1. \A u \in Threads \ {t} :
        ref'[u] = ref[u] /\ (pc'[u] = "holding" <=> pc[u] = "holding")
  BY OthersStay DEF PoolInv
<1>2. pc'[t] = p /\ ref'[t] = g  BY OthersStay DEF PoolInv
<1> QED  BY <1>1, <1>2 DEF Leases

LEMMA NoLease ==
    ASSUME NEW t \in Threads, pc[t] # "holding"
    PROVE  Leases[t] = Nothing /\ [Leases EXCEPT ![t] = Nothing] = Leases
BY DEF Leases

\* A step that keeps the processes and takes no handle.
LEMMA HandsNothing ==
    ASSUME PoolInv, NEW t \in Threads, NEW p \in Steps \ {"holding"},
           NEW g \in Servers \cup {Nothing}, Goes(t, p, g) \/ NotifyAll(t, p, g),
           UNCHANGED <<process, stopped>>
    PROVE  [Shared!Next]_(Shared!poolVars)
<1>1. Leases' = [Leases EXCEPT ![t] = Nothing]  BY LeaseMoves
<1>2. UNCHANGED <<Running, stopped>>  BY DEF Running, Alive
<1>3. Shared!Release(t)  BY <1>1, <1>2 DEF Shared!Release
<1> QED  BY <1>3 DEF Shared!Next

\* A step that keeps the processes and hands out a server.
LEMMA HandsServer ==
    ASSUME PoolInv, NEW t \in Threads, NEW g \in Servers \ stopped, pc[t] # "holding",
           Goes(t, "holding", g) \/ NotifyAll(t, "holding", g), UNCHANGED <<process, stopped>>
    PROVE  [Shared!Next]_(Shared!poolVars)
<1>1. Leases' = [Leases EXCEPT ![t] = g]  BY LeaseMoves DEF Steps, Owning
<1>2. UNCHANGED <<Running, stopped>>  BY DEF Running, Alive
<1>3. Shared!Lease(t)  BY <1>1, <1>2, NoLease DEF Shared!Lease
<1> QED  BY <1>3 DEF Shared!Next

\* A step that stops a server of the thread's own.
LEMMA Stops ==
    ASSUME PoolInv, NEW t \in Threads, pc[t] \in Sole, NEW p \in Steps \ {"holding"},
           Goes(t, p, Nothing) \/ NotifyAll(t, p, Nothing),
           process' = [process EXCEPT ![ref[t]] = "exited"], stopped' = stopped \cup {ref[t]}
    PROVE  [Shared!Next]_(Shared!poolVars)
<1>1. ref[t] \in Servers /\ pc[t] # "holding"
  BY DEF PoolInv, References, Sole, Unready, Empty, TypeOK
<1>2. \A u \in Threads : Leases[u] # ref[t]
  BY <1>1, Constants DEF PoolInv, References, Leases
<1>3. Leases' = Leases  BY <1>1, LeaseMoves, NoLease
<1>4. Running' = Running \ {ref[t]}  BY <1>1 DEF Running, Alive, PoolInv, TypeOK
<1>5. Shared!Stop(ref[t])  BY <1>2, <1>3, <1>4 DEF Shared!Stop
<1> QED  BY <1>1, <1>5 DEF Shared!Next

LEMMA AcquireImplements ==
    ASSUME PoolInv, NEW t \in Threads, Acquire(t) PROVE [Shared!Next]_(Shared!poolVars)
<1>1. CASE Join(t)
  <2>1. PICK o \in Threads : ref[o] = current /\ pc[o] \in Owning
    BY <1>1 DEF Join, Upgrades, Owners
  <2>2. current \in Servers  BY <1>1, Constants DEF Join, PoolInv, Roles, TypeOK
  <2>3. current \notin stopped  BY <2>1, <2>2, Constants DEF PoolInv, References
  <2> QED  BY <1>1, <2>2, <2>3, HandsServer DEF Join
<1>2. CASE Supersede(t)
  <2>1. current \in Servers \cup {Nothing} /\ "superseding" \in Steps \ {"holding"}
    BY DEF PoolInv, TypeOK, Steps, Owning
  <2> QED  BY <1>2, <2>1, HandsNothing DEF Supersede
<1>3. CASE Wait(t)
  <2>1. "waiting" \in Steps \ {"holding"}  BY DEF Steps
  <2> QED  BY <1>3, <2>1, HandsNothing DEF Wait
<1>4. CASE Claim(t)
  <2>1. "starting" \in Steps \ {"holding"}  BY DEF Steps
  <2> QED  BY <1>4, <2>1, HandsNothing DEF Claim
<1> QED  BY <1>1, <1>2, <1>3, <1>4 DEF Acquire

\* No process runs when one is launched: the slot is empty, and this thread is
\* the only one that starts a server.
LEMMA LaunchImplements ==
    ASSUME PoolInv, NEW t \in Threads, Launch(t) PROVE [Shared!Next]_(Shared!poolVars)
<1>1. CASE UNCHANGED process /\ Goes(t, "failed", Nothing)
  <2>1. "failed" \in Steps \ {"holding"}  BY DEF Steps
  <2> QED  BY <1>1, <2>1, HandsNothing DEF Launch
<1>2. CASE ~(UNCHANGED process /\ Goes(t, "failed", Nothing))
  <2>1. PICK g \in Servers : /\ process[g] = "unborn" /\ Goes(t, "probing", g)
                             /\ process' = [process EXCEPT ![g] = "up"]
    BY <1>2 DEF Launch
  <2>2. state = "starting" /\ starter = t
    BY Constants DEF Launch, PoolInv, Roles, StartSteps
  <2>3. \A u \in Threads : pc[u] \notin Unready
    BY <2>2 DEF Launch, PoolInv, Roles, StartSteps, Unready
  <2>4. Running = {}
    BY <2>2, <2>3, Constants DEF Running, PoolInv, Roles, Processes
  <2>5. Running' = {g}  BY <2>1, <2>4 DEF Running, Alive, PoolInv, TypeOK
  <2>6. Leases' = Leases
    <3>1. "probing" \in Steps /\ pc[t] # "holding"  BY DEF Launch, Steps
    <3> QED  BY <2>1, <3>1, LeaseMoves, NoLease
  <2>7. Shared!Launch  BY <2>4, <2>5, <2>6 DEF Launch, Shared!Launch
  <2> QED  BY <2>7 DEF Shared!Next
<1> QED  BY <1>1, <1>2

LEMMA StartImplements ==
    ASSUME PoolInv, NEW t \in Threads, Start(t) PROVE [Shared!Next]_(Shared!poolVars)
<1>1. CASE Answers(t)
  <2>1. "publishing" \in Steps \ {"holding"} /\ ref[t] \in Servers \cup {Nothing}
    BY DEF PoolInv, TypeOK, Steps
  <2> QED  BY <1>1, <2>1, HandsNothing DEF Answers
<1>2. CASE FailsToAnswer(t)
  <2>1. "failed" \in Steps \ {"holding"} /\ pc[t] \in Sole
    BY <1>2 DEF FailsToAnswer, Steps, Sole, Unready
  <2> QED  BY <1>2, <2>1, Stops DEF FailsToAnswer
<1>3. CASE Publish(t)
  <2>1. ref[t] \in Servers \ stopped /\ pc[t] # "holding"
    BY <1>3 DEF Publish, PoolInv, References, Empty, TypeOK
  <2> QED  BY <1>3, <2>1, HandsServer DEF Publish
<1>4. CASE GiveUp(t)
  <2>1. "idle" \in Steps \ {"holding"}  BY DEF Steps
  <2> QED  BY <1>4, <2>1, HandsNothing DEF GiveUp
<1> QED  BY <1>1, <1>2, <1>3, <1>4, LaunchImplements DEF Start

LEMMA HandleImplements ==
    ASSUME PoolInv, NEW t \in Threads,
           \/ Call(t) \/ Search(t) \/ Found(t) \/ Drop(t) \/ WakeSpuriously(t)
           \/ \E u \in Threads : Clone(t, u)
    PROVE  [Shared!Next]_(Shared!poolVars)
<1>0. current \in Servers \cup {Nothing} /\ ref[t] \in Servers \cup {Nothing}
  BY DEF PoolInv, TypeOK
<1>1. CASE Call(t)
  <2>1. PICK p \in {"acquire", "search"} : Goes(t, p, Nothing)  BY <1>1 DEF Call
  <2>2. p \in Steps \ {"holding"}  BY DEF Steps
  <2> QED  BY <1>1, <2>1, <2>2, HandsNothing DEF Call
<1>2. CASE Search(t)
  <2>1. {"checking", "idle"} \subseteq Steps \ {"holding"}  BY DEF Steps, Owning
  <2> QED  BY <1>0, <1>2, <2>1, HandsNothing DEF Search
<1>3. CASE Found(t)
  <2>1. ref[t] \in Servers \ stopped /\ pc[t] # "holding"
    BY <1>3 DEF Found, PoolInv, References, Empty, TypeOK
  <2> QED  BY <1>3, <2>1, HandsServer DEF Found
<1>4. CASE Drop(t)
  <2>1. "reaping" \in Steps \ {"holding"} /\ Afterwards(t) \in Steps \ {"holding"}
    BY DEF Steps, Afterwards
  <2>2. Goes(t, "reaping", ref[t]) \/ Goes(t, Afterwards(t), Nothing)  BY <1>4 DEF Drop
  <2> QED  BY <1>0, <1>4, <2>1, <2>2, HandsNothing DEF Drop
<1>5. CASE WakeSpuriously(t)
  <2>1. "acquire" \in Steps \ {"holding"}  BY DEF Steps
  <2> QED  BY <1>5, <2>1, HandsNothing DEF WakeSpuriously
<1>6. CASE \E u \in Threads : Clone(t, u)
  <2>1. PICK u \in Threads : Clone(t, u)  BY <1>6
  <2>2. ref[t] \in Servers \ stopped /\ pc[u] # "holding"
    BY <2>1 DEF Clone, PoolInv, References, Empty, TypeOK
  <2> QED  BY <2>1, <2>2, HandsServer DEF Clone
<1> QED  BY <1>1, <1>2, <1>3, <1>4, <1>5, <1>6

LEMMA DestroyImplements ==
    ASSUME PoolInv, NEW t \in Threads, Destroy(t) PROVE [Shared!Next]_(Shared!poolVars)
<1>1. CASE Reap(t)
  <2>1. {"stopping", "killing"} \subseteq Steps \ {"holding"}  BY DEF Steps
  <2>2. ref[t] \in Servers \cup {Nothing}  BY DEF PoolInv, TypeOK
  <2> QED  BY <1>1, <2>1, <2>2, HandsNothing DEF Reap
<1>2. CASE StopCurrent(t)
  <2>1. "idle" \in Steps \ {"holding"} /\ pc[t] \in Sole
    BY <1>2 DEF StopCurrent, Steps, Sole
  <2> QED  BY <1>2, <2>1, Stops DEF StopCurrent, Shutdown
<1>3. CASE KillOther(t)
  <2>1. Afterwards(t) \in Steps \ {"holding"} /\ pc[t] \in Sole
    BY <1>3 DEF KillOther, Steps, Sole, Afterwards
  <2> QED  BY <1>3, <2>1, Stops DEF KillOther, Shutdown
<1> QED  BY <1>1, <1>2, <1>3 DEF Destroy

LEMMA PoolStep == PoolInv /\ [Next]_vars => [Shared!Next]_(Shared!poolVars)
<1> SUFFICES ASSUME PoolInv, [Next]_vars PROVE [Shared!Next]_(Shared!poolVars)  OBVIOUS
<1>1. CASE \E g \in Servers : Exit(g)
  <2>1. PICK g \in Servers : Exit(g)  BY <1>1
  <2>2. Running' = Running \ {g} /\ g \in Running
    BY <2>1 DEF Exit, Running, Alive, PoolInv, TypeOK
  <2>3. UNCHANGED <<Leases, stopped>>  BY <2>1 DEF Exit, Leases
  <2> QED  BY <2>2, <2>3 DEF Shared!Exit, Shared!Next
<1>2. CASE UNCHANGED vars
  BY <1>2 DEF vars, Leases, Running, Alive, Shared!poolVars
<1> QED  BY <1>1, <1>2, AcquireImplements, StartImplements, HandleImplements, DestroyImplements
         DEF Next, ThreadStep, LetGo

\* The pool implements SharedServer: one process at a time, none stopped under
\* a user, none handed out that was stopped.
THEOREM PoolImplemented == Spec => ImplementsSharedServer
<1>1. Init => Shared!Init
  BY DEF Init, Shared!Init, Leases, Running, Alive
<1> QED  BY <1>1, PoolStep, PoolSafety, PTL DEF Spec, ImplementsSharedServer, Shared!Spec
=============================================================================
