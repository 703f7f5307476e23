------------------------ MODULE RuntimeMailboxProofs ------------------------
(***************************************************************************)
(* Proofs about RuntimeMailbox for every set of sessions and every bound.  *)
(* TypeCorrect: the type invariant.  OneWorker, NothingStranded and        *)
(* DispatchOrder: what the registry of mailboxes guarantees.               *)
(* LiveRuntimeHeard: the driver a session holds may speak.                 *)
(* NotExecutedAgain: what the cache of outcomes guarantees to a retry.     *)
(***************************************************************************)
EXTENDS RuntimeMailbox, TLAPS, SequenceTheorems, WellFoundedInduction

\* Mailboxes are numbered as they are born, and no more than were dispatched.
Counted == \A s \in Sessions : registry[s] <= born[s] /\ born[s] <= dispatches

\* A mailbox not born yet is untouched.
Untouched == \A w \in Workers : w[2] > born[w[1]] => pc[w] = "unborn" /\ channel[w] = <<>>

\* The registry names every live worker: the retirement and the replacement of
\* a mailbox are atomic with the life of its thread.
Registered == \A w \in Workers : Alive(w) => registry[w[1]] = w[2]

\* Tickets that grow along q, above lo and up to hi.
InOrder(q, lo, hi) ==
    \A j \in 1..Len(q) : /\ lo < q[j].ticket /\ q[j].ticket <= hi
                         /\ \A i \in 1..Len(q) : i < j => q[i].ticket < q[j].ticket

\* What waits in a live mailbox was dispatched after what was taken, in order.
Ordered == \A w \in Workers : Alive(w) => InOrder(channel[w], taken[w[1]], dispatches)

TakenBounded == \A s \in Sessions : taken[s] <= dispatches

----------------------------------------------------------------------------
(* Types *)

TypeInv == TypeOK /\ Counted

\* The strict order of the naturals, well-founded.
NatLess == {pair \in Nat \X Nat : pair[1] < pair[2]}

LEMMA NatLessWellFounded == IsWellFoundedOn(NatLess, Nat)
BY NatLessThanWellFounded DEF OpToRel, NatLess

\* A nonempty set of naturals has a least one.
LEMMA LeastNatural ==
    ASSUME NEW T, T \subseteq Nat, T # {}
    PROVE  \E x \in T : \A y \in T : x <= y
<1>1. PICK x \in T : \A y \in T : ~ (<<y, x>> \in NatLess)
  BY NatLessWellFounded, WFMin, Zenon
<1>2. \A y \in T : ~ (y < x)  BY <1>1 DEF NatLess
<1> QED  BY <1>2

LEMMA InitType == Init => TypeInv
BY ConstantsAssumption DEF Init, TypeInv, TypeOK, Counted, Workers, Phases, Dispatched,
   Requests, NoRequest, Failed, Outcomes, Places, Ids, Nil, Runtimes, NoRuntime, NoWorker, Kinds

LEMMA OutcomeTypes == Failed \in Outcomes /\ Acked \in Outcomes
BY DEF Failed, Acked, Outcomes, NoRuntime

\* The newest cached outcome of an id the cache holds.
LEMMA NewestType ==
    ASSUME TypeOK, NEW i, Cached(i)
    PROVE  Newest(i) \in Outcomes
<1> DEFINE Ages == {c.place.age : c \in {d \in cache : d.id = i}}
           IsNewest(c) == c.id = i /\ \A d \in cache : d.id = i => c.place.age <= d.place.age
<1>1. cache \subseteq Entries  BY DEF TypeOK
<1>2. Ages \subseteq Nat /\ Ages # {}  BY <1>1 DEF Cached, Entries, Places
<1>3. \E c \in cache : IsNewest(c)
  <2>1. PICK x \in Ages : \A y \in Ages : x <= y
    <3> HIDE DEF Ages
    <3> QED  BY <1>2, LeastNatural
  <2>2. PICK c \in cache : c.id = i /\ c.place.age = x  OBVIOUS
  <2> QED  BY <2>1, <2>2
<1>4. DEFINE c == CHOOSE c \in cache : IsNewest(c)
<1>5. c \in cache  BY <1>3
<1>6. Newest(i) = c.outcome  BY DEF Newest
<1>7. c.outcome \in Outcomes
  <2> HIDE DEF c
  <2> QED  BY <1>1, <1>5 DEF Entries
<1> QED  BY <1>6, <1>7

LEMMA AgedType ==
    ASSUME NEW b \in Nat
    PROVE  /\ \A q \in Places : Aged(q, b) \in Places
           /\ \A d \in Entries : [d EXCEPT !.place = Aged(@, b)] \in Entries
<1>1. \A q \in Places : Aged(q, b) \in Places  BY DEF Aged, Places
<1> QED  BY <1>1 DEF Entries

\* Caching an outcome keeps the cache within its budgets.
LEMMA CachesType ==
    ASSUME TypeOK, NEW i \in Ids \cup {Nil, Other}, NEW o \in Outcomes, Caches(i, o)
    PROVE  /\ cache' \subseteq Entries /\ \A c \in cache' : Fits(c.place)
           /\ latest' \in [Ids -> Places]
<1>1. PICK b \in Sizes : cache' = Remember(i, o, b) /\ latest' = Overtake(i, b)  BY DEF Caches
<1>2. b \in Nat  BY ConstantsAssumption
<1>3. \A d \in Entries : [d EXCEPT !.place = Aged(@, b)] \in Entries  BY <1>2, AgedType
<1>4. cache \subseteq Entries /\ (\A c \in cache : Fits(c.place))
      /\ latest \in [Ids -> Places]
  BY DEF TypeOK
<1>5. New(b) \in Places /\ \A q \in Places : Aged(q, b) \in Places
  BY <1>2, AgedType DEF New, Places
<1>6. CASE i = Nil  BY <1>1, <1>4, <1>6 DEF Remember, Overtake
<1>7. CASE i # Nil
  <2>1. [id |-> i, outcome |-> o, place |-> New(b)] \in Entries
    BY <1>5, <1>7 DEF Entries
  <2>2. cache' \subseteq Entries /\ \A c \in cache' : Fits(c.place)
    BY <1>1, <1>3, <1>4, <1>7, <2>1 DEF Remember
  <2>3. latest' \in [Ids -> Places]
    BY <1>1, <1>2, <1>4, <1>5, <1>7 DEF Overtake
  <2> QED  BY <2>2, <2>3
<1> QED  BY <1>6, <1>7

\* What a worker takes from its channel.
LEMMA TakeType ==
    ASSUME TypeOK, NEW w \in Workers, channel[w] # <<>>, Take(w)
    PROVE  /\ channel' \in [Workers -> Seq(Dispatched)]
           /\ current' \in [Workers -> Dispatched]
           /\ pc' \in [Workers -> Phases]
           /\ taken' \in [Sessions -> Nat]
           /\ Head(channel[w]) \in Dispatched
<1>1. channel[w] \in Seq(Dispatched)  BY DEF TypeOK
<1>2. Head(channel[w]) \in Dispatched /\ Tail(channel[w]) \in Seq(Dispatched)
  BY <1>1
<1>3. Head(channel[w]).ticket \in Nat /\ w[1] \in Sessions
  BY <1>2 DEF Dispatched, Workers
<1> QED  BY <1>2, <1>3 DEF Take, TypeOK, Phases

\* A dispatch names a worker that exists: a session has had no more mailboxes
\* than there were dispatches.
LEMMA DispatchType ==
    ASSUME TypeInv, NEW r \in Requests, Dispatch(r)
    PROVE  TypeInv'
<1> DEFINE s == r.session
           item == [request |-> r, ticket |-> dispatches + 1]
           w == <<s, IF Reachable(s) THEN registry[s] ELSE born[s] + 1>>
<1> USE DEF TypeInv
<1>1. /\ s \in Sessions /\ r.id \in Ids \cup {Nil}
      /\ dispatches \in Nat /\ MaxDispatches \in Nat /\ dispatches < MaxDispatches
      /\ registry[s] \in Nat /\ born[s] \in Nat
      /\ registry[s] <= born[s] /\ born[s] <= dispatches
  BY ConstantsAssumption DEF TypeOK, Counted, Requests, Dispatch
<1>2. item \in Dispatched  BY <1>1 DEF Dispatched
<1>3. /\ current' \in [Workers -> Dispatched] /\ executed' \in [Workers -> BOOLEAN]
      /\ outcome' \in [Workers -> Outcomes]
      /\ supervised' \in [Workers -> Runtimes \cup {NoRuntime}]
      /\ speaking' \in [Sessions -> Runtimes \cup {NoRuntime}]
      /\ running' \in [Sessions -> Runtimes \cup {NoRuntime}]
      /\ submitted' \subseteq Requests /\ dispatches' \in 0..MaxDispatches
      /\ taken' \in [Sessions -> Nat] /\ executions' \in [Ids -> Nat]
      /\ lost' \subseteq Ids /\ panics' \in 0..MaxPanics /\ removals' \in 0..MaxRemovals
  BY <1>1 DEF TypeOK, Dispatch
<1>4. CASE Enqueue(r)
  <2>1. w \in Workers /\ w[2] \in 1..MaxDispatches
    BY <1>1 DEF Workers, Reachable, NoWorker
  <2>2. channel' = [channel EXCEPT ![w] = Append(@, item)]
    BY <1>4 DEF Enqueue, Queued
  <2>3. channel' \in [Workers -> Seq(Dispatched)]
    <3> HIDE DEF item, w
    <3>1. channel[w] \in Seq(Dispatched)  BY <2>1 DEF TypeOK
    <3>2. Append(channel[w], item) \in Seq(Dispatched)  BY <3>1, <1>2
    <3> QED  BY <2>2, <3>2 DEF TypeOK
  <2>4. registry' = [registry EXCEPT ![s] = w[2]] /\ registry' \in [Sessions -> 0..MaxDispatches]
    BY <1>1, <1>4, <2>1 DEF TypeOK, Enqueue
  <2>5. /\ born' = [born EXCEPT ![s] = IF Reachable(s) THEN @ ELSE @ + 1]
        /\ born' \in [Sessions -> 0..MaxDispatches]
    BY <1>1, <1>4 DEF TypeOK, Enqueue
  <2>6. /\ pc' \in [Workers -> Phases]
        /\ UNCHANGED <<cache, latest, answered>>
    BY <1>4, <2>1 DEF TypeOK, Enqueue, Phases
  <2>7. Counted'
    BY <1>1, <2>4, <2>5 DEF TypeOK, Counted, Dispatch
  <2> QED  BY <1>3, <2>3, <2>4, <2>5, <2>6, <2>7 DEF TypeOK
<1>5. CASE SpawnFails(r)
  <2>1. (IF Cached(r.id) THEN Newest(r.id) ELSE Failed) \in Outcomes
    BY NewestType, OutcomeTypes
  <2>2. /\ cache' \subseteq Entries /\ \A c \in cache' : Fits(c.place)
        /\ latest' \in [Ids -> Places]
    BY <1>1, <1>5, <2>1, CachesType DEF SpawnFails
  <2>3. /\ registry' = [registry EXCEPT ![s] = 0] /\ answered' \subseteq Ids
        /\ channel' = channel /\ born' = born /\ pc' = pc
        /\ registry' \in [Sessions -> 0..MaxDispatches]
    BY <1>1, <1>5 DEF SpawnFails, TypeOK, NoWorker
  <2>4. Counted'  BY <1>1, <2>3 DEF TypeOK, Counted, Dispatch
  <2> QED  BY <1>1, <1>3, <2>2, <2>3, <2>4 DEF TypeOK
<1> QED  BY <1>4, <1>5 DEF Dispatch

\* What every action of a worker may assume of the worker it is about.
LEMMA WorkerTypes ==
    ASSUME TypeOK, NEW w \in Workers
    PROVE  /\ w[1] \in Sessions /\ w[2] \in 1..MaxDispatches
           /\ Request(w) \in Requests
           /\ Request(w).id \in Ids \cup {Nil} /\ Request(w).kind \in Kinds
           /\ Request(w).runtime \in Runtimes \cup {NoRuntime}
           /\ outcome[w] \in Outcomes /\ outcome[w].ok \in BOOLEAN
           /\ outcome[w].attached \in Runtimes \cup {NoRuntime}
           /\ channel[w] \in Seq(Dispatched)
BY DEF TypeOK, Workers, Request, Dispatched, Requests, Outcomes

LEMMA WorkerStepType ==
    ASSUME TypeInv, NEW w \in Workers, WorkerStep(w)
    PROVE  TypeInv'
<1> USE DEF TypeInv
<1>0. TypeOK /\ Counted  OBVIOUS
<1>1. CASE Receive(w)
  BY <1>0, <1>1, TakeType DEF Receive, TypeOK, Counted, Take, workerVars, clientVars
<1>2. CASE LookupHit(w)
  <2>1. Newest(Request(w).id) \in Outcomes  BY <1>0, <1>2, NewestType DEF LookupHit
  <2> QED  BY <1>0, <1>2, <2>1 DEF LookupHit, TypeOK, Counted, Phases, clientVars
<1>3. CASE LookupMiss(w)
  <2>1. speaking' \in [Sessions -> Runtimes \cup {NoRuntime}]
    BY <1>0, <1>3, WorkerTypes DEF LookupMiss, TypeOK
  <2> QED  BY <1>0, <1>3, <2>1 DEF LookupMiss, TypeOK, Counted, Phases, clientVars
<1>4. CASE Execute(w)
  <2>1. PICK o \in Outcomes : /\ Handle(w[1], Request(w), o)
                              /\ outcome' = [outcome EXCEPT ![w] = o]
    BY <1>4 DEF Execute
  <2>2. running' \in [Sessions -> Runtimes \cup {NoRuntime}]
    BY <1>0, <2>1, WorkerTypes DEF Handle, Drives, TypeOK, NoRuntime
  <2>3. executions' \in [Ids -> Nat]  BY <1>0, <1>4 DEF Execute, TypeOK
  <2> QED  BY <1>0, <1>4, <2>1, <2>2, <2>3 DEF Execute, TypeOK, Counted, Phases, clientVars
<1>5. CASE Conclude(w)
  <2>1. /\ cache' \subseteq Entries /\ \A c \in cache' : Fits(c.place)
        /\ latest' \in [Ids -> Places]
    BY <1>0, <1>5, WorkerTypes, CachesType DEF Conclude
  <2>2. speaking' \in [Sessions -> Runtimes \cup {NoRuntime}]
    BY <1>0, <1>5, WorkerTypes DEF Conclude, Silence, TypeOK
  <2> QED  BY <1>0, <1>5, <2>1, <2>2 DEF Conclude, TypeOK, Counted, Phases, clientVars
<1>6. CASE Reply(w)
  BY <1>0, <1>6, WorkerTypes DEF Reply, TypeOK, Counted, Phases, clientVars
<1>7. CASE Settle(w)
  <2>1. Supervise(w) \in Runtimes \cup {NoRuntime}
    BY <1>0, WorkerTypes DEF Supervise, TypeOK
  <2>2. supervised' \in [Workers -> Runtimes \cup {NoRuntime}]
    BY <1>0, <1>7, <2>1 DEF Settle, TypeOK
  <2>3. speaking' \in [Sessions -> Runtimes \cup {NoRuntime}]
    BY <1>0, <1>7, WorkerTypes DEF Settle, Silence, TypeOK
  <2> QED  BY <1>0, <1>7, <2>2, <2>3 DEF Settle, TypeOK, Counted, Phases, clientVars
<1>8. CASE TakeQueued(w)
  BY <1>0, <1>8, TakeType DEF TakeQueued, TypeOK, Counted, Take, clientVars
<1>9. CASE Retire(w)
  <2>1. /\ registry' \in [Sessions -> 0..MaxDispatches]
        /\ \A s \in Sessions : registry'[s] <= registry[s] /\ registry[s] \in Nat
    BY <1>0, <1>9, WorkerTypes, ConstantsAssumption DEF Retire, TypeOK, NoWorker
  <2>2. Counted'
    BY <1>0, <1>9, <2>1 DEF Retire, TypeOK, Counted, clientVars
  <2> QED  BY <1>0, <1>9, <2>1, <2>2 DEF Retire, TypeOK, Phases, clientVars
<1> QED  BY <1>1, <1>2, <1>3, <1>4, <1>5, <1>6, <1>7, <1>8, <1>9 DEF WorkerStep

LEMMA PanicType ==
    ASSUME TypeInv, NEW w \in Workers, Panic(w)
    PROVE  TypeInv'
<1> USE DEF TypeInv
<1>1. lost' \subseteq Ids
  <2>1. \A n \in DOMAIN channel[w] : channel[w][n].request.id \in Ids \cup {Nil}
    <3> SUFFICES ASSUME NEW n \in DOMAIN channel[w]
                 PROVE  channel[w][n].request.id \in Ids \cup {Nil}
      OBVIOUS
    <3>1. channel[w] \in Seq(Dispatched) /\ n \in 1..Len(channel[w])  BY WorkerTypes
    <3>2. channel[w][n] \in Dispatched  BY <3>1, ElementOfSeq, Zenon
    <3> QED  BY <3>2 DEF Dispatched, Requests
  <2>2. Request(w).id \in Ids \cup {Nil} /\ lost \subseteq Ids  BY WorkerTypes DEF TypeOK
  <2>3. lost' = lost \cup ({Request(w).id} \ {Nil})
                     \cup ({channel[w][n].request.id : n \in DOMAIN channel[w]} \ {Nil})
    BY DEF Panic
  <2> QED  BY <2>1, <2>2, <2>3
<1>2. running' \in [Sessions -> Runtimes \cup {NoRuntime}]
  BY WorkerTypes DEF Panic, TypeOK, NoRuntime
<1>3. panics' \in 0..MaxPanics  BY ConstantsAssumption DEF Panic, TypeOK
<1> QED  BY <1>1, <1>2, <1>3 DEF Panic, TypeOK, Counted, Phases, clientVars

LEMMA RemovalType ==
    ASSUME TypeInv, NEW s \in Sessions, RemoveProject(s)
    PROVE  TypeInv'
BY ConstantsAssumption
   DEF TypeInv, RemoveProject, TypeOK, Counted, workerVars, clientVars, NoRuntime

LEMMA OtherType ==
    ASSUME TypeInv, OtherConcludes
    PROVE  TypeInv'
<1>1. TypeOK /\ Counted  BY DEF TypeInv
<1>2. /\ cache' \subseteq Entries /\ \A c \in cache' : Fits(c.place)
      /\ latest' \in [Ids -> Places]
  BY <1>1, OutcomeTypes, CachesType DEF OtherConcludes
<1>3. dispatches \in Nat /\ dispatches' = dispatches + 1 /\ dispatches' \in 0..MaxDispatches
  BY <1>1, ConstantsAssumption DEF OtherConcludes, TypeOK
<1>4. UNCHANGED <<registry, workerVars, speaking, running, submitted, born, taken,
                  executions, answered, lost, panics, removals>>
  BY DEF OtherConcludes
<1>5. TypeOK'  BY <1>1, <1>2, <1>3, <1>4 DEF TypeOK, workerVars
<1>6. Counted'  BY <1>1, <1>3, <1>4 DEF TypeOK, Counted
<1> QED  BY <1>5, <1>6 DEF TypeInv

\* Submitting, notifying and retrying are dispatches.
LEMMA NextCases ==
    ASSUME TypeOK, Next
    PROVE  \/ \E r \in Requests : Dispatch(r)
           \/ \E w \in Workers : WorkerStep(w)
           \/ \E w \in Workers : Panic(w)
           \/ \E s \in Sessions : RemoveProject(s)
           \/ OtherConcludes
<1>1. CASE \E s \in Sessions, i \in Ids, k \in Kinds, n \in Runtimes \cup {NoRuntime} :
               Submit(s, i, k, n)
  BY <1>1 DEF Submit, Requests
<1>2. CASE \E s \in Sessions, k \in Kinds, n \in Runtimes \cup {NoRuntime} : Notify(s, k, n)
  BY <1>2 DEF Notify, Requests
<1>3. CASE \E r \in submitted : Retry(r)
  BY <1>3 DEF Retry, TypeOK
<1> QED  BY <1>1, <1>2, <1>3 DEF Next

LEMMA NextType == TypeInv /\ [Next]_vars => TypeInv'
<1> SUFFICES ASSUME TypeInv, [Next]_vars PROVE TypeInv'  OBVIOUS
<1>1. CASE Next
  BY <1>1, NextCases, DispatchType, WorkerStepType, PanicType, RemovalType, OtherType
     DEF TypeInv
<1>2. CASE UNCHANGED vars
  BY <1>2 DEF vars, workerVars, clientVars, TypeInv, TypeOK, Counted
<1> QED  BY <1>1, <1>2

\* Whatever the sessions and the bounds, the state of the dispatcher is well
\* typed and the cache of outcomes never outgrows its two budgets (server.rs,
\* cache_response).
THEOREM TypeCorrect == Spec => []TypeOK
<1>1. Spec => []TypeInv  BY InitType, NextType, PTL DEF Spec
<1>2. TypeInv => TypeOK  BY DEF TypeInv
<1> QED  BY <1>1, <1>2, PTL

----------------------------------------------------------------------------
(* One worker per session, nothing stranded, dispatch order *)

MailboxInv == TypeInv /\ Untouched /\ Registered /\ NotStranded /\ Ordered /\ TakenBounded

LEMMA InitMailbox == Init => MailboxInv
<1> SUFFICES ASSUME Init PROVE MailboxInv  OBVIOUS
<1>1. TypeInv  BY InitType
<1>2. \A w \in Workers : pc[w] = "unborn" /\ channel[w] = <<>> /\ ~ Alive(w)
  BY DEF Init, Alive
<1>3. TakenBounded
  <2>1. (\A s \in Sessions : taken[s] = 0) /\ dispatches = 0  BY DEF Init
  <2> SUFFICES ASSUME NEW s \in Sessions PROVE taken[s] <= dispatches  BY DEF TakenBounded
  <2>2. taken[s] = 0 /\ dispatches = 0  BY <2>1
  <2> QED  BY <2>2
<1> QED  BY <1>1, <1>2, <1>3 DEF MailboxInv, Untouched, Registered, NotStranded, Ordered

\* A worker that lives makes its session reachable: this is what lets a dispatch
\* that finds no mailbox make one.
LEMMA AliveReachable ==
    ASSUME TypeOK, Registered, NEW w \in Workers, Alive(w)
    PROVE  Reachable(w[1]) /\ w = <<w[1], registry[w[1]]>>
BY DEF Registered, Reachable, Workers, NoWorker

\* Adding the next ticket, taking the first one and dispatching elsewhere keep
\* the order.
LEMMA AppendInOrder ==
    ASSUME NEW q \in Seq(Dispatched), NEW x \in Dispatched, NEW lo \in Nat, NEW hi \in Nat,
           lo <= hi, x.ticket = hi + 1, InOrder(q, lo, hi)
    PROVE  InOrder(Append(q, x), lo, hi + 1)
<1> DEFINE new == Append(q, x)
           n == Len(q)
<1>1. /\ n \in Nat /\ Len(new) = n + 1 /\ new[n + 1] = x
      /\ \A i \in 1..n : new[i] = q[i]
  OBVIOUS
<1>2. \A i \in 1..n : q[i].ticket \in Nat
  <2> SUFFICES ASSUME NEW i \in 1..n PROVE q[i].ticket \in Nat  OBVIOUS
  <2>1. q[i] \in Dispatched  BY ElementOfSeq, Zenon
  <2> QED  BY <2>1 DEF Dispatched
<1>3. \A j \in 1..n : /\ lo < q[j].ticket /\ q[j].ticket <= hi
                      /\ \A i \in 1..n : i < j => q[i].ticket < q[j].ticket
  BY DEF InOrder
<1> HIDE DEF n, new
<1>4. SUFFICES ASSUME NEW j \in 1..(n + 1)
               PROVE  /\ lo < new[j].ticket /\ new[j].ticket <= hi + 1
                      /\ \A i \in 1..(n + 1) : i < j => new[i].ticket < new[j].ticket
  BY <1>1 DEF InOrder, new
<1>5. CASE j = n + 1  BY <1>1, <1>2, <1>3, <1>5, SMTT(30)
<1>6. CASE j \in 1..n  BY <1>1, <1>2, <1>3, <1>6
<1> QED  BY <1>1, <1>5, <1>6

LEMMA TailInOrder ==
    ASSUME NEW q \in Seq(Dispatched), q # <<>>, NEW lo \in Nat, NEW hi \in Nat,
           InOrder(q, lo, hi)
    PROVE  /\ lo < Head(q).ticket /\ Head(q).ticket <= hi
           /\ Head(q) \in Dispatched
           /\ InOrder(Tail(q), Head(q).ticket, hi)
<1>1. /\ Len(q) \in Nat /\ Len(q) >= 1 /\ Head(q) = q[1]
      /\ Tail(q) \in Seq(Dispatched) /\ Len(Tail(q)) = Len(q) - 1
      /\ \A i \in 1..Len(Tail(q)) : Tail(q)[i] = q[i + 1]
  OBVIOUS
<1>2. Head(q) \in Dispatched  BY HeadTailProperties, Zenon
<1> QED  BY <1>1, <1>2 DEF InOrder

LEMMA LaterInOrder ==
    ASSUME NEW q \in Seq(Dispatched), NEW lo \in Nat, NEW hi \in Nat, InOrder(q, lo, hi)
    PROVE  InOrder(q, lo, hi + 1)
<1> SUFFICES ASSUME NEW j \in 1..Len(q) PROVE q[j].ticket <= hi + 1  BY DEF InOrder
<1>1. q[j] \in Dispatched  BY ElementOfSeq, Zenon
<1> QED  BY <1>1 DEF InOrder, Dispatched

LEMMA DispatchMailbox ==
    ASSUME MailboxInv, NEW r \in Requests, Dispatch(r)
    PROVE  MailboxInv'
<1> DEFINE s == r.session
           item == [request |-> r, ticket |-> dispatches + 1]
           w == <<s, IF Reachable(s) THEN registry[s] ELSE born[s] + 1>>
<1>0. /\ TypeOK /\ Counted /\ Untouched /\ Registered /\ NotStranded /\ Ordered
      /\ TakenBounded
  BY DEF MailboxInv, TypeInv
<1>1. TypeInv'  BY DispatchType DEF MailboxInv
<1>2. /\ s \in Sessions /\ dispatches \in Nat /\ dispatches < MaxDispatches
      /\ registry[s] \in Nat /\ born[s] \in Nat /\ taken[s] \in Nat
      /\ registry[s] <= born[s] /\ born[s] <= dispatches
      /\ taken' = taken /\ dispatches' = dispatches + 1
  BY <1>0, ConstantsAssumption DEF TypeOK, Counted, Requests, Dispatch
<1>3. TakenBounded'
  BY <1>0, <1>2 DEF TakenBounded, TypeOK
<1>4. CASE Enqueue(r)
  <2>1. w \in Workers /\ w[1] = s /\ w[2] \in 1..MaxDispatches
    BY <1>2, ConstantsAssumption DEF Workers, Reachable, NoWorker
  <2>2. /\ channel' = [channel EXCEPT ![w] = Append(@, item)]
        /\ registry' = [registry EXCEPT ![s] = w[2]]
        /\ born' = [born EXCEPT ![s] = IF Reachable(s) THEN @ ELSE @ + 1]
        /\ pc' = IF Reachable(s) THEN pc ELSE [pc EXCEPT ![w] = "receiving"]
    BY <1>4 DEF Enqueue, Queued
  <2>3. \A v \in Workers : v # w => pc'[v] = pc[v] /\ channel'[v] = channel[v]
    BY <1>0, <2>2 DEF TypeOK
  <2>4. pc'[w] \notin {"unborn", "retired", "panicked"} /\ channel'[w] = Append(channel[w], item)
    <3>1. CASE Reachable(s)  BY <1>0, <2>1, <2>2, <3>1 DEF Reachable, Alive, TypeOK
    <3>2. CASE ~ Reachable(s)  BY <1>0, <2>1, <2>2, <3>2 DEF TypeOK
    <3> QED  BY <3>1, <3>2
  <2>5. w[2] <= born'[s] /\ born'[s] \in Nat /\ \A t \in Sessions : born[t] <= born'[t]
    BY <1>0, <1>2, <2>1, <2>2, SMTT(30) DEF TypeOK
  <2> HIDE DEF w
  <2>6. Untouched'
    <3> SUFFICES ASSUME NEW v \in Workers, v[2] > born'[v[1]]
                 PROVE  pc'[v] = "unborn" /\ channel'[v] = <<>>
      BY DEF Untouched
    <3>1. v # w  BY <2>1, <2>5
    <3>2. v[1] \in Sessions /\ v[2] \in Nat  BY DEF Workers
    <3>3. v[2] > born[v[1]]
      <4>1. born[v[1]] \in Nat /\ born'[v[1]] \in Nat  BY <1>0, <1>1, <3>2 DEF TypeOK, TypeInv
      <4> QED  BY <2>5, <3>2, <4>1
    <3> QED  BY <1>0, <2>3, <3>1, <3>3 DEF Untouched
  <2>7. NotStranded'  BY <1>0, <2>3, <2>4 DEF NotStranded
  <2>8. Registered'
    <3> SUFFICES ASSUME NEW v \in Workers, Alive(v)'  PROVE  registry'[v[1]] = v[2]
      BY DEF Registered
    <3>1. v[1] \in Sessions  BY DEF Workers
    <3>2. CASE v = w  BY <1>0, <1>2, <2>1, <2>2, <3>2 DEF TypeOK
    <3>3. CASE v # w
      <4>1. Alive(v)  BY <2>3, <3>3 DEF Alive
      <4>2. v[1] # s  BY <1>0, <3>3, <4>1, AliveReachable DEF w
      <4> QED  BY <1>0, <2>2, <3>1, <4>1, <4>2 DEF Registered, TypeOK
    <3> QED  BY <3>2, <3>3
  <2>9. Ordered'
    <3> SUFFICES ASSUME NEW v \in Workers, Alive(v)'
                 PROVE  InOrder(channel'[v], taken[v[1]], dispatches + 1)
      BY <1>2 DEF Ordered
    <3>1. channel[v] \in Seq(Dispatched) /\ v[1] \in Sessions /\ taken[v[1]] \in Nat
      BY <1>0 DEF TypeOK, Workers
    <3>2. CASE v # w
      <4>1. Alive(v) /\ channel'[v] = channel[v]  BY <2>3, <3>2 DEF Alive
      <4> QED  BY <1>0, <1>2, <3>1, <4>1, LaterInOrder DEF Ordered
    <3>3. CASE v = w
      <4>1. InOrder(channel[v], taken[s], dispatches)
        <5>1. CASE Alive(v)  BY <1>0, <2>1, <3>3, <5>1 DEF Ordered
        <5>2. CASE ~ Alive(v)
          <6>1. ~ Reachable(s)  BY <1>0, <2>2, <2>4, <3>3, <5>2 DEF Alive
          <6>2. v[1] = s /\ v[2] = born[s] + 1  BY <3>3, <6>1 DEF w
          <6>3. channel[v] = <<>>  BY <1>0, <1>2, <6>2 DEF Untouched
          <6> QED  BY <6>3 DEF InOrder
        <5> QED  BY <5>1, <5>2
      <4>2. taken[s] <= dispatches /\ item.ticket = dispatches + 1 /\ item \in Dispatched
        BY <1>0, <1>2 DEF TakenBounded, Dispatched
      <4> HIDE DEF item
      <4> QED  BY <1>2, <2>1, <2>4, <3>1, <3>3, <4>1, <4>2, AppendInOrder
    <3> QED  BY <3>2, <3>3
  <2> QED  BY <1>1, <1>3, <2>6, <2>7, <2>8, <2>9 DEF MailboxInv
<1>5. CASE SpawnFails(r)
  <2>1. /\ channel' = channel /\ born' = born /\ pc' = pc
        /\ registry' = [registry EXCEPT ![s] = NoWorker] /\ ~ Reachable(s)
    BY <1>5 DEF SpawnFails
  <2>2. Untouched' /\ NotStranded'  BY <1>0, <2>1 DEF Untouched, NotStranded
  <2>3. Registered'
    <3> SUFFICES ASSUME NEW v \in Workers, Alive(v)  PROVE  registry'[v[1]] = v[2]
      BY <2>1 DEF Registered, Alive
    <3>1. v[1] # s /\ v[1] \in Sessions  BY <1>0, <2>1, AliveReachable DEF Workers
    <3> QED  BY <1>0, <2>1, <3>1 DEF Registered, TypeOK
  <2>4. Ordered'
    <3> SUFFICES ASSUME NEW v \in Workers, Alive(v)
                 PROVE  InOrder(channel[v], taken[v[1]], dispatches + 1)
      BY <1>2, <2>1 DEF Ordered, Alive
    <3>1. channel[v] \in Seq(Dispatched) /\ v[1] \in Sessions /\ taken[v[1]] \in Nat
      BY <1>0 DEF TypeOK, Workers
    <3> QED  BY <1>0, <1>2, <3>1, LaterInOrder DEF Ordered
  <2> QED  BY <1>1, <1>3, <2>2, <2>3, <2>4 DEF MailboxInv
<1> QED  BY <1>4, <1>5 DEF Dispatch

\* What the steps of a worker thread have in common.
LEMMA WorkerShape ==
    ASSUME TypeOK, NEW w \in Workers, WorkerStep(w) \/ Panic(w)
    PROVE  /\ Alive(w)
           /\ born' = born /\ dispatches' = dispatches
           /\ pc' = [pc EXCEPT ![w] = pc'[w]] /\ pc'[w] # "unborn"
           /\ \/ pc'[w] # "retired" /\ registry' = registry
              \/ pc'[w] = "retired" /\ Retire(w)
           /\ \/ channel' = channel /\ taken' = taken
              \/ channel[w] # <<>> /\ Take(w)
<1>0. \A p : pc' = [pc EXCEPT ![w] = p] => pc'[w] = p  BY DEF TypeOK
<1>1. CASE Receive(w)
  <2>1. /\ pc[w] = "receiving" /\ channel[w] # <<>> /\ Take(w)
        /\ UNCHANGED <<registry, born, dispatches>>
    BY <1>1 DEF Receive, clientVars
  <2>2. pc' = [pc EXCEPT ![w] = "lookup"]  BY <2>1 DEF Take
  <2> QED  BY <1>0, <2>1, <2>2 DEF Alive
<1>2. CASE LookupHit(w)  BY <1>0, <1>2 DEF LookupHit, Alive, clientVars
<1>3. CASE LookupMiss(w)  BY <1>0, <1>3 DEF LookupMiss, Alive, clientVars
<1>4. CASE Execute(w)  BY <1>0, <1>4 DEF Execute, Alive, clientVars
<1>5. CASE Conclude(w)  BY <1>0, <1>5 DEF Conclude, Alive, clientVars
<1>6. CASE Reply(w)  BY <1>0, <1>6 DEF Reply, Alive, clientVars
<1>7. CASE Settle(w)
  <2>1. /\ pc[w] = "settling"
        /\ UNCHANGED <<registry, channel, taken, born, dispatches>>
    BY <1>7 DEF Settle, clientVars
  <2>2. \/ pc' = [pc EXCEPT ![w] = "deciding"]
        \/ pc' = [pc EXCEPT ![w] = "receiving"]
    BY <1>7 DEF Settle
  <2> QED  BY <1>0, <2>1, <2>2 DEF Alive
<1>8. CASE TakeQueued(w)
  <2>1. /\ pc[w] = "deciding" /\ channel[w] # <<>> /\ Take(w)
        /\ UNCHANGED <<registry, born, dispatches>>
    BY <1>8 DEF TakeQueued, clientVars
  <2>2. pc' = [pc EXCEPT ![w] = "lookup"]  BY <2>1 DEF Take
  <2> QED  BY <1>0, <2>1, <2>2 DEF Alive
<1>9. CASE Retire(w)
  <2>1. /\ pc[w] = "deciding" /\ pc' = [pc EXCEPT ![w] = "retired"]
        /\ UNCHANGED <<channel, taken, born, dispatches>>
    BY <1>9 DEF Retire, clientVars
  <2> QED  BY <1>0, <1>9, <2>1 DEF Alive
<1>10. CASE Panic(w)  BY <1>0, <1>10 DEF Panic, Alive, clientVars
<1> QED
  BY <1>1, <1>2, <1>3, <1>4, <1>5, <1>6, <1>7, <1>8, <1>9, <1>10 DEF WorkerStep

\* Every step of a worker keeps the invariant: a retiring worker is the one the
\* registry names, and its channel is empty.
LEMMA WorkerMailbox ==
    ASSUME MailboxInv, NEW w \in Workers, WorkerStep(w) \/ Panic(w)
    PROVE  MailboxInv'
<1>0. /\ TypeOK /\ Counted /\ Untouched /\ Registered /\ NotStranded /\ Ordered
      /\ TakenBounded
  BY DEF MailboxInv, TypeInv
<1>1. TypeInv'  BY WorkerStepType, PanicType DEF MailboxInv
<1>2. Alive(w) /\ born' = born /\ dispatches' = dispatches /\ dispatches \in Nat
  BY <1>0, WorkerShape, ConstantsAssumption DEF TypeOK
<1>3. /\ pc' = [pc EXCEPT ![w] = pc'[w]] /\ pc'[w] # "unborn"
      /\ \/ pc'[w] # "retired" /\ registry' = registry
         \/ pc'[w] = "retired" /\ Retire(w)
  BY <1>0, WorkerShape
<1>4. \/ channel' = channel /\ taken' = taken
      \/ channel[w] # <<>> /\ Take(w)
  BY <1>0, WorkerShape
<1>5. \A v \in Workers : v # w => pc'[v] = pc[v] /\ channel'[v] = channel[v]
  BY <1>0, <1>3, <1>4 DEF TypeOK, Take
<1>7. \A v \in Workers : Alive(v)' => Alive(v)  BY <1>2, <1>5 DEF Alive
<1>8. w[1] \in Sessions /\ w[2] \in 1..MaxDispatches  BY DEF Workers
<1>9. Untouched'
  <2> SUFFICES ASSUME NEW v \in Workers, v[2] > born[v[1]]
               PROVE  pc'[v] = "unborn" /\ channel'[v] = <<>>
    BY <1>2 DEF Untouched
  <2>1. pc[v] = "unborn" /\ channel[v] = <<>>  BY <1>0 DEF Untouched
  <2>2. v # w  BY <1>2, <2>1 DEF Alive
  <2> QED  BY <1>5, <2>1, <2>2
<1>10. Registered'
  <2> SUFFICES ASSUME NEW v \in Workers, Alive(v)'  PROVE  registry'[v[1]] = v[2]
    BY DEF Registered
  <2>1. registry[v[1]] = v[2]  BY <1>0, <1>7 DEF Registered
  <2>2. CASE pc'[w] = "retired" /\ Retire(w)
    <3>1. v # w  BY <2>2 DEF Alive
    <3>2. registry[w[1]] = w[2]  BY <1>0, <1>2 DEF Registered
    <3>3. w = <<w[1], w[2]>> /\ v = <<v[1], v[2]>>  BY DEF Workers
    <3>4. v[1] # w[1]  BY <2>1, <3>1, <3>2, <3>3
    <3> QED  BY <1>0, <2>1, <2>2, <3>4 DEF Retire, TypeOK
  <2> QED  BY <1>3, <2>1, <2>2
<1>11. NotStranded'
  <2> SUFFICES ASSUME NEW v \in Workers, pc'[v] \in {"unborn", "retired"}
               PROVE  channel'[v] = <<>>
    BY DEF NotStranded
  <2>1. CASE v = w
    <3>1. Retire(w)  BY <1>3, <2>1
    <3> QED  BY <2>1, <3>1 DEF Retire, Idle
  <2>2. CASE v # w  BY <1>0, <1>5, <2>2 DEF NotStranded
  <2> QED  BY <2>1, <2>2
<1>12. TakenBounded' /\ Ordered'
  <2>1. CASE channel' = channel /\ taken' = taken
    BY <1>0, <1>2, <1>7, <2>1 DEF TakenBounded, Ordered
  <2>2. CASE channel[w] # <<>> /\ Take(w)
    <3>1. channel[w] \in Seq(Dispatched) /\ taken[w[1]] \in Nat
      BY <1>0, <1>8 DEF TypeOK
    <3>2. InOrder(channel[w], taken[w[1]], dispatches)  BY <1>0, <1>2 DEF Ordered
    <3>3. /\ Head(channel[w]).ticket <= dispatches
          /\ InOrder(Tail(channel[w]), Head(channel[w]).ticket, dispatches)
      BY <1>2, <2>2, <3>1, <3>2, TailInOrder
    <3>4. /\ taken' = [taken EXCEPT ![w[1]] = Head(channel[w]).ticket]
          /\ channel' = [channel EXCEPT ![w] = Tail(channel[w])]
      BY <2>2 DEF Take
    <3>5. TakenBounded'  BY <1>0, <1>2, <3>3, <3>4 DEF TakenBounded, TypeOK
    <3>6. Ordered'
      <4> SUFFICES ASSUME NEW v \in Workers, Alive(v)'
                   PROVE  InOrder(channel'[v], taken'[v[1]], dispatches)
        BY <1>2 DEF Ordered
      <4>1. CASE v = w  BY <1>0, <1>8, <3>3, <3>4, <4>1 DEF TypeOK
      <4>2. CASE v # w
        <5>1. registry[v[1]] = v[2] /\ registry[w[1]] = w[2]
          BY <1>0, <1>2, <1>7 DEF Registered
        <5>2. w = <<w[1], w[2]>> /\ v = <<v[1], v[2]>>  BY DEF Workers
        <5>3. v[1] # w[1] /\ v[1] \in Sessions  BY <4>2, <5>1, <5>2 DEF Workers
        <5>4. channel'[v] = channel[v] /\ taken'[v[1]] = taken[v[1]]
          BY <1>0, <1>5, <3>4, <4>2, <5>3 DEF TypeOK
        <5> QED  BY <1>0, <1>7, <5>4 DEF Ordered
      <4> QED  BY <4>1, <4>2
    <3> QED  BY <3>5, <3>6
  <2> QED  BY <1>4, <2>1, <2>2
<1> QED  BY <1>1, <1>9, <1>10, <1>11, <1>12 DEF MailboxInv

\* An independent request is dispatched beside the mailboxes.
LEMMA OtherMailbox ==
    ASSUME MailboxInv, TypeInv', OtherConcludes
    PROVE  MailboxInv'
<1>1. TypeOK /\ dispatches \in Nat /\ dispatches' = dispatches + 1
  BY ConstantsAssumption DEF MailboxInv, TypeInv, TypeOK, OtherConcludes
<1>2. UNCHANGED <<registry, born, pc, channel, taken>>
  BY DEF OtherConcludes, workerVars
<1>3. Untouched' /\ Registered' /\ NotStranded'
  BY <1>2 DEF MailboxInv, Untouched, Registered, NotStranded, Alive
<1>4. TakenBounded'  BY <1>1, <1>2 DEF MailboxInv, TakenBounded, TypeOK
<1>5. Ordered'
  <2> SUFFICES ASSUME NEW w \in Workers, Alive(w)
               PROVE  InOrder(channel[w], taken[w[1]], dispatches + 1)
    BY <1>1, <1>2 DEF Ordered, Alive
  <2>1. channel[w] \in Seq(Dispatched) /\ taken[w[1]] \in Nat
    BY <1>1 DEF TypeOK, Workers
  <2> QED  BY <1>1, <2>1, LaterInOrder DEF MailboxInv, Ordered
<1> QED  BY <1>3, <1>4, <1>5 DEF MailboxInv

LEMMA NextMailbox == MailboxInv /\ [Next]_vars => MailboxInv'
<1> SUFFICES ASSUME MailboxInv, [Next]_vars PROVE MailboxInv'  OBVIOUS
<1>1. TypeInv /\ TypeOK /\ TypeInv'  BY NextType DEF MailboxInv, TypeInv
<1>2. CASE Next
  <2>1. CASE \E s \in Sessions : RemoveProject(s)
    BY <1>1, <2>1 DEF RemoveProject, MailboxInv, Untouched, Registered, NotStranded, Ordered,
       TakenBounded, Alive, workerVars, clientVars
  <2>2. OtherConcludes => MailboxInv'  BY <1>1, OtherMailbox
  <2> QED  BY <1>1, <1>2, <2>1, <2>2, NextCases, DispatchMailbox, WorkerMailbox
<1>3. CASE UNCHANGED vars
  BY <1>1, <1>3 DEF vars, workerVars, clientVars, MailboxInv, Untouched, Registered,
     NotStranded, Ordered, TakenBounded, Alive
<1> QED  BY <1>2, <1>3

LEMMA MailboxInvariant == Spec => []MailboxInv
BY InitMailbox, NextMailbox, PTL DEF Spec

\* However many sessions, requests, retries and panics: two workers never serve
\* one session, so its lifecycle commands never run at the same time
\* (server.rs:204, dispatch_runtime and take_queued_request_or_retire).
THEOREM OneWorker == Spec => []OneWorkerPerSession
<1>1. MailboxInv => OneWorkerPerSession
  <2> SUFFICES ASSUME MailboxInv, NEW s \in Sessions,
                      NEW m \in 1..MaxDispatches, NEW n \in 1..MaxDispatches,
                      Alive(<<s, m>>), Alive(<<s, n>>)
               PROVE  m = n
    BY DEF OneWorkerPerSession
  <2>1. Registered /\ <<s, m>> \in Workers /\ <<s, n>> \in Workers
    BY DEF MailboxInv, Workers
  <2>2. registry[s] = m /\ registry[s] = n  BY <2>1 DEF Registered
  <2> QED  BY <2>2
<1> QED  BY <1>1, MailboxInvariant, PTL

\* A request never waits in the mailbox of a worker that retired
\* (server.rs:897, take_queued_request_or_retire).
THEOREM NothingStranded == Spec => []NotStranded
<1>1. MailboxInv => NotStranded  BY DEF MailboxInv
<1> QED  BY <1>1, MailboxInvariant, PTL

\* The requests of a session are taken in the order of dispatch, across the
\* retirement, the panic and the replacement of its workers (dispatch_runtime).
THEOREM DispatchOrder == Spec => SessionOrder
<1> DEFINE Grows == \A s \in Sessions : taken'[s] # taken[s] => taken'[s] > taken[s]
<1>1. MailboxInv /\ [Next]_vars => [Grows]_vars
  <2> SUFFICES ASSUME MailboxInv, Next, NEW s \in Sessions, taken'[s] # taken[s]
               PROVE  taken'[s] > taken[s]
    OBVIOUS
  <2>0. TypeOK /\ Ordered /\ dispatches \in Nat
    BY ConstantsAssumption DEF MailboxInv, TypeInv, TypeOK
  <2>1. PICK w \in Workers : WorkerStep(w) \/ Panic(w)
    BY <2>0, NextCases DEF Dispatch, RemoveProject, OtherConcludes
  <2>2. Alive(w) /\ channel[w] # <<>> /\ Take(w)  BY <2>0, <2>1, WorkerShape
  <2>3. channel[w] \in Seq(Dispatched) /\ w[1] \in Sessions /\ taken[w[1]] \in Nat
    BY <2>0 DEF TypeOK, Workers
  <2>4. taken[w[1]] < Head(channel[w]).ticket
    BY <2>0, <2>2, <2>3, TailInOrder DEF Ordered
  <2>5. taken' = [taken EXCEPT ![w[1]] = Head(channel[w]).ticket]  BY <2>2 DEF Take
  <2>6. s = w[1] /\ taken'[s] = Head(channel[w]).ticket  BY <2>0, <2>5 DEF TypeOK
  <2> QED  BY <2>4, <2>6
<1> QED  BY <1>1, MailboxInvariant, PTL DEF Spec, SessionOrder

----------------------------------------------------------------------------
(* The runtime a session runs is heard *)

\* Between a handler's effect on the driver and its effect on the hub.
PendingAt(w) ==
    /\ pc[w] = "executing" /\ Request(w).kind = "start"
           => speaking[w[1]] = Request(w).runtime
    /\ pc[w] = "executed" /\ FailedStart(w) => running[w[1]] = NoRuntime
    /\ /\ pc[w] \in {"executed", "replying", "settling"}
       /\ executed[w] /\ outcome[w].ok
       => /\ Request(w).kind = "remove" => running[w[1]] = NoRuntime
          /\ Request(w).kind = "close" /\ running[w[1]] # NoRuntime
                 => running[w[1]] # Request(w).runtime

Pending == \A w \in Workers : PendingAt(w)

HeardInv == MailboxInv /\ Pending /\ RunningIsHeard

LEMMA InitHeard == Init => HeardInv
<1> SUFFICES ASSUME Init PROVE HeardInv  OBVIOUS
<1>1. MailboxInv  BY InitMailbox
<1>2. \A w \in Workers : pc[w] = "unborn"  BY DEF Init
<1>3. \A s \in Sessions : running[s] = NoRuntime  BY DEF Init
<1> QED  BY <1>1, <1>2, <1>3 DEF HeardInv, Pending, PendingAt, RunningIsHeard

LEMMA OnlyOneAlive ==
    ASSUME MailboxInv, NEW v \in Workers, NEW w \in Workers, Alive(v), Alive(w), v[1] = w[1]
    PROVE  v = w
<1>1. v[2] = w[2]  BY DEF MailboxInv, Registered
<1> QED  BY <1>1 DEF Workers

\* A worker's step leaves other sessions and other workers alone.
LEMMA WorkerFrame ==
    ASSUME TypeOK, NEW w \in Workers, WorkerStep(w) \/ Panic(w)
    PROVE  /\ \A v \in Workers \ {w} : /\ pc'[v] = pc[v] /\ current'[v] = current[v]
                                       /\ executed'[v] = executed[v] /\ outcome'[v] = outcome[v]
           /\ \A t \in Sessions \ {w[1]} : /\ running'[t] = running[t]
                                           /\ speaking'[t] = speaking[t]
<1> DEFINE Goal == /\ \A v \in Workers \ {w} :
                          /\ pc'[v] = pc[v] /\ current'[v] = current[v]
                          /\ executed'[v] = executed[v] /\ outcome'[v] = outcome[v]
                   /\ \A t \in Sessions \ {w[1]} : /\ running'[t] = running[t]
                                                   /\ speaking'[t] = speaking[t]
<1>1. CASE Receive(w)  BY <1>1 DEF Receive, Take, TypeOK
<1>2. CASE LookupHit(w)  BY <1>2 DEF LookupHit, TypeOK
<1>3. CASE LookupMiss(w)  BY <1>3 DEF LookupMiss, TypeOK
<1>4. CASE Execute(w)
  <2>1. PICK o \in Outcomes : /\ Handle(w[1], Request(w), o)
                              /\ outcome' = [outcome EXCEPT ![w] = o]
    BY <1>4 DEF Execute
  <2>2. \A t \in Sessions \ {w[1]} : running'[t] = running[t]
    BY <2>1 DEF Handle, Drives, TypeOK
  <2> QED  BY <1>4, <2>1, <2>2 DEF Execute, TypeOK
<1>5. CASE Conclude(w)  BY <1>5 DEF Conclude, Silence, TypeOK
<1>6. CASE Reply(w)  BY <1>6 DEF Reply, TypeOK
<1>7. CASE Settle(w)  BY <1>7 DEF Settle, Silence, TypeOK
<1>8. CASE TakeQueued(w)  BY <1>8 DEF TakeQueued, Take, TypeOK
<1>9. CASE Retire(w)  BY <1>9 DEF Retire, TypeOK
<1>10. CASE Panic(w)  BY <1>10 DEF Panic, TypeOK
<1> QED
  BY <1>1, <1>2, <1>3, <1>4, <1>5, <1>6, <1>7, <1>8, <1>9, <1>10 DEF WorkerStep

Starts(w) == pc[w] = "executing" /\ Request(w).kind = "start"
HeardAt(s) == running[s] = NoRuntime \/ speaking[s] = running[s]

\* For the step of a worker it is enough to look at that worker and its session.
LEMMA WorkerHeard ==
    ASSUME HeardInv, NEW w \in Workers, WorkerStep(w) \/ Panic(w), MailboxInv',
           PendingAt(w)', HeardAt(w[1])' \/ Starts(w)'
    PROVE  HeardInv'
<1>0. MailboxInv /\ TypeOK  BY DEF HeardInv, MailboxInv, TypeInv
<1>1. Alive(w)  BY <1>0, WorkerShape
<1>2. \A v \in Workers \ {w} : /\ pc'[v] = pc[v] /\ current'[v] = current[v]
                               /\ executed'[v] = executed[v] /\ outcome'[v] = outcome[v]
  BY <1>0, WorkerFrame
<1>3. \A t \in Sessions \ {w[1]} : running'[t] = running[t] /\ speaking'[t] = speaking[t]
  BY <1>0, WorkerFrame
<1>4. Pending'
  <2> SUFFICES ASSUME NEW v \in Workers PROVE PendingAt(v)'  BY DEF Pending, PendingAt
  <2>1. CASE v = w  BY <2>1
  <2>2. CASE v # w /\ v[1] = w[1]
    <3>1. ~ Alive(v)  BY <1>0, <1>1, <2>2, OnlyOneAlive
    <3>2. pc'[v] \in {"unborn", "retired", "panicked"}  BY <1>2, <2>2, <3>1 DEF Alive
    <3> QED  BY <3>2 DEF PendingAt
  <2>3. CASE v # w /\ v[1] # w[1]
    <3>1. PendingAt(v)  BY DEF HeardInv, Pending, PendingAt
    <3>2. v[1] \in Sessions \ {w[1]}  BY <2>3 DEF Workers
    <3> QED  BY <1>2, <1>3, <2>3, <3>1, <3>2 DEF PendingAt, FailedStart, Request
  <2> QED  BY <2>1, <2>2, <2>3
<1>5. RunningIsHeard'
  <2> SUFFICES ASSUME NEW s \in Sessions
               PROVE  HeardAt(s)' \/ \E v \in Workers : v[1] = s /\ Starts(v)'
    BY DEF RunningIsHeard, HeardAt, Starts
  <2>1. CASE s = w[1]  BY <2>1
  <2>2. CASE s # w[1]
    <3>1. HeardAt(s) \/ \E v \in Workers : v[1] = s /\ Starts(v)
      BY DEF HeardInv, RunningIsHeard, HeardAt, Starts
    <3>2. HeardAt(s) => HeardAt(s)'  BY <1>3, <2>2 DEF HeardAt
    <3>3. \A v \in Workers : v[1] = s /\ Starts(v) => Starts(v)'
      BY <1>2, <2>2 DEF Starts, Request
    <3> QED  BY <3>1, <3>2, <3>3
  <2> QED  BY <2>1, <2>2
<1> QED  BY <1>4, <1>5 DEF HeardInv

\* The session of a worker that is not executing a start is heard.
LEMMA HeardUnlessStarting ==
    ASSUME HeardInv, NEW w \in Workers, Alive(w), ~ Starts(w)
    PROVE  HeardAt(w[1])
<1>1. \A v \in Workers : v[1] = w[1] /\ Starts(v) => v = w
  BY OnlyOneAlive DEF HeardInv, Starts, Alive
<1>2. w[1] \in Sessions  BY DEF Workers
<1> QED  BY <1>1, <1>2 DEF HeardInv, RunningIsHeard, HeardAt, Starts

LEMMA WorkerStepHeard ==
    ASSUME HeardInv, NEW w \in Workers, WorkerStep(w) \/ Panic(w)
    PROVE  HeardInv'
<1> DEFINE s == w[1]
           r == Request(w)
<1>0. MailboxInv /\ TypeOK /\ MailboxInv' /\ TypeOK'
  BY WorkerMailbox DEF HeardInv, MailboxInv, TypeInv
<1>1. s \in Sessions /\ Alive(w)  BY <1>0, WorkerShape, WorkerTypes
<1>2. PendingAt(w)  BY DEF HeardInv, Pending, PendingAt
<1>3. ~ Starts(w) => HeardAt(s)  BY <1>1, HeardUnlessStarting
<1>4. \A p : pc' = [pc EXCEPT ![w] = p] => pc'[w] = p  BY <1>0 DEF TypeOK
<1>5. SUFFICES PendingAt(w)' /\ (HeardAt(s)' \/ Starts(w)')
  BY <1>0, WorkerHeard
<1>6. CASE Receive(w) \/ TakeQueued(w)
  <2>1. pc[w] # "executing" /\ pc'[w] = "lookup" /\ UNCHANGED <<running, speaking>>
    BY <1>4, <1>6 DEF Receive, TakeQueued, Take
  <2> QED  BY <1>3, <2>1 DEF PendingAt, HeardAt, Starts
<1>7. CASE LookupHit(w)
  <2>1. /\ pc[w] = "lookup" /\ pc'[w] = "replying" /\ UNCHANGED <<running, speaking>>
        /\ executed'[w] = FALSE
    BY <1>0, <1>4, <1>7 DEF LookupHit, TypeOK
  <2> QED  BY <1>3, <2>1 DEF PendingAt, HeardAt, Starts
<1>8. CASE LookupMiss(w)
  <2>1. /\ pc[w] = "lookup" /\ pc'[w] = "executing" /\ UNCHANGED <<running, current>>
        /\ r.kind = "start" => speaking'[s] = r.runtime
        /\ r.kind # "start" => speaking' = speaking
    BY <1>0, <1>1, <1>4, <1>8 DEF LookupMiss, TypeOK
  <2> QED  BY <1>3, <2>1 DEF PendingAt, HeardAt, Starts, Request
<1>9. CASE Execute(w)
  <2>1. PICK o \in Outcomes : Handle(s, r, o) /\ outcome' = [outcome EXCEPT ![w] = o]
    BY <1>9 DEF Execute
  <2>2. /\ pc[w] = "executing" /\ pc'[w] = "executed" /\ outcome'[w] = o
        /\ UNCHANGED <<speaking, current, executed>>
    BY <1>0, <1>4, <1>9, <2>1 DEF Execute, TypeOK
  <2>3. /\ r.kind = "start" => running'[s] \in {NoRuntime, r.runtime}
        /\ r.kind = "start" /\ ~ o.ok => running'[s] = NoRuntime
        /\ r.kind # "start" => running'[s] \in {NoRuntime, running[s]}
        /\ r.kind = "remove" /\ o.ok => running'[s] = NoRuntime
        /\ r.kind = "close" /\ running'[s] # NoRuntime => running'[s] # r.runtime
    <3>1. \A n : Drives(s, n) => running'[s] = n  BY <1>0, <1>1 DEF Drives, TypeOK
    <3>2. Acked.ok /\ ~ Failed.ok  BY DEF Acked, Failed
    <3> HIDE DEF r, s
    <3> QED  BY <2>1, <3>1, <3>2 DEF Handle
  <2>4. PendingAt(w)'
    BY <2>2, <2>3 DEF PendingAt, FailedStart, Request
  <2>5. HeardAt(s)'
    BY <1>2, <1>3, <2>2, <2>3 DEF PendingAt, HeardAt, Starts
  <2> QED  BY <2>4, <2>5
<1>10. CASE Conclude(w)
  <2>1. /\ pc[w] = "executed" /\ pc'[w] = "replying"
        /\ UNCHANGED <<running, current, executed, outcome>>
        /\ ~ FailedStart(w) => speaking' = speaking
    BY <1>4, <1>10 DEF Conclude
  <2> QED  BY <1>2, <1>3, <2>1 DEF PendingAt, HeardAt, Starts, FailedStart, Request
<1>11. CASE Reply(w)
  <2>1. /\ pc[w] = "replying" /\ pc'[w] = "settling"
        /\ UNCHANGED <<running, speaking, current, executed, outcome>>
    BY <1>4, <1>11 DEF Reply
  <2> QED  BY <1>2, <1>3, <2>1 DEF PendingAt, HeardAt, Starts, Request
<1>12. CASE Settle(w)
  <2>1. /\ pc[w] = "settling" /\ pc'[w] \in {"deciding", "receiving"}
        /\ UNCHANGED running
    BY <1>4, <1>12 DEF Settle
  <2>2. HeardAt(s)
    BY <1>3, <2>1 DEF Starts
  <2>3. CASE executed[w] /\ Closes(w)
    <3>1. speaking' = Silence(s, r.kind = "remove", r.runtime)  BY <1>12, <2>3 DEF Settle
    <3>2. \/ running[s] = NoRuntime
          \/ r.kind = "close" /\ running[s] # r.runtime
      BY <1>2, <2>1, <2>3 DEF PendingAt, Closes
    <3>3. running[s] # NoRuntime => speaking'[s] = speaking[s]
      BY <2>2, <3>1, <3>2 DEF HeardAt, Silence
    <3> QED  BY <2>1, <2>2, <3>3 DEF PendingAt, HeardAt
  <2>4. CASE ~ (executed[w] /\ Closes(w))
    BY <1>12, <2>1, <2>2, <2>4 DEF Settle, PendingAt, HeardAt
  <2> QED  BY <2>3, <2>4
<1>13. CASE Retire(w)
  <2>1. pc[w] = "deciding" /\ pc'[w] = "retired" /\ UNCHANGED <<running, speaking>>
    BY <1>4, <1>13 DEF Retire
  <2> QED  BY <1>3, <2>1 DEF PendingAt, HeardAt, Starts
<1>14. CASE Panic(w)
  <2>1. /\ pc'[w] = "panicked" /\ speaking' = speaking
        /\ r.kind = "start" => running'[s] = NoRuntime
        /\ r.kind # "start" => running' = running
    BY <1>0, <1>1, <1>4, <1>14 DEF Panic, TypeOK
  <2> QED  BY <1>3, <2>1 DEF PendingAt, HeardAt, Starts
<1> QED
  BY <1>6, <1>7, <1>8, <1>9, <1>10, <1>11, <1>12, <1>13, <1>14 DEF WorkerStep

LEMMA DispatchHeard ==
    ASSUME HeardInv, NEW r \in Requests, Dispatch(r)
    PROVE  HeardInv'
<1>1. MailboxInv'  BY DispatchMailbox DEF HeardInv
<1>2. UNCHANGED <<current, executed, outcome, speaking, running>>  BY DEF Dispatch
<1>3. \A v \in Workers : pc'[v] = pc[v] \/ (pc'[v] = "receiving" /\ ~ Alive(v))
  <2>1. TypeOK /\ Untouched /\ Counted  BY DEF HeardInv, MailboxInv, TypeInv
  <2> DEFINE w == <<r.session, born[r.session] + 1>>
  <2>2. pc' = pc \/ pc' = [pc EXCEPT ![w] = "receiving"]
    BY DEF Dispatch, Enqueue, SpawnFails
  <2>3. w \in Workers => ~ Alive(w)
    BY <2>1 DEF Untouched, Alive, TypeOK, Requests
  <2> QED  BY <2>1, <2>2, <2>3 DEF TypeOK
<1>4. Pending'
  <2> SUFFICES ASSUME NEW v \in Workers PROVE PendingAt(v)'  BY DEF Pending, PendingAt
  <2>1. PendingAt(v)  BY DEF HeardInv, Pending, PendingAt
  <2> QED  BY <1>2, <1>3, <2>1 DEF PendingAt, FailedStart, Request
<1>5. RunningIsHeard'
  <2>1. \A v \in Workers : Starts(v) => Starts(v)'
    BY <1>2, <1>3 DEF Starts, Request, Alive
  <2> QED  BY <1>2, <2>1 DEF HeardInv, RunningIsHeard, Starts
<1> QED  BY <1>1, <1>4, <1>5 DEF HeardInv

LEMMA RemovalHeard ==
    ASSUME HeardInv, MailboxInv', NEW s \in Sessions, RemoveProject(s)
    PROVE  HeardInv'
<1>1. /\ running' = [running EXCEPT ![s] = NoRuntime]
      /\ UNCHANGED <<pc, current, executed, outcome, speaking>>
  BY DEF RemoveProject, workerVars
<1>2. \A t \in Sessions : running'[t] = NoRuntime \/ running'[t] = running[t]
  BY <1>1 DEF HeardInv, MailboxInv, TypeInv, TypeOK
<1>3. Pending'
  <2> SUFFICES ASSUME NEW v \in Workers PROVE PendingAt(v)'  BY DEF Pending, PendingAt
  <2>1. PendingAt(v) /\ v[1] \in Sessions  BY DEF HeardInv, Pending, PendingAt, Workers
  <2> QED  BY <1>1, <1>2, <2>1 DEF PendingAt, FailedStart, Request
<1>4. RunningIsHeard'
  BY <1>1, <1>2 DEF HeardInv, RunningIsHeard, Request
<1> QED  BY <1>3, <1>4 DEF HeardInv

LEMMA NextHeard == HeardInv /\ [Next]_vars => HeardInv'
<1> SUFFICES ASSUME HeardInv, [Next]_vars PROVE HeardInv'  OBVIOUS
<1>1. MailboxInv /\ TypeOK /\ MailboxInv'  BY NextMailbox DEF HeardInv, MailboxInv, TypeInv
<1>2. CASE Next
  <2>1. CASE OtherConcludes
    BY <1>1, <2>1 DEF OtherConcludes, workerVars, HeardInv, Pending, PendingAt, RunningIsHeard,
       FailedStart, Request
  <2> QED  BY <1>1, <1>2, <2>1, NextCases, DispatchHeard, WorkerStepHeard, RemovalHeard
<1>3. CASE UNCHANGED vars
  BY <1>1, <1>3 DEF vars, workerVars, HeardInv, Pending, PendingAt, RunningIsHeard, FailedStart, Request
<1> QED  BY <1>2, <1>3

\* The driver a session holds may speak to its clients, except while a start
\* replaces it: no close of an older runtime, failed start, retry, retirement or
\* panic ever silences it (handle_request, run_runtime_mailbox, end_runtime).
THEOREM LiveRuntimeHeard == Spec => []RunningIsHeard
<1>1. Spec => []HeardInv  BY InitHeard, NextHeard, PTL DEF Spec
<1>2. HeardInv => RunningIsHeard  BY DEF HeardInv
<1> QED  BY <1>1, <1>2, PTL
----------------------------------------------------------------------------
(* A request that was answered is not executed again *)

\* An id names one request.
OneRequest == \A q, r \in submitted : q.id # Nil /\ (q.id = r.id => q = r)

\* A request of session s; if it has an id, it is one of those submitted.
Known(r, s, rs) == r.session = s /\ (r.id # Nil => r \in rs)
Requested ==
    \A w \in Workers :
        /\ Known(current[w].request, w[1], submitted)
        /\ \A n \in 1..Len(channel[w]) : Known(channel[w][n].request, w[1], submitted)

\* An outcome of i was cached, and it is found or overdue; or the worker of i is
\* about to cache one.
Recorded(i) ==
    /\ latest[i].age > 0
    /\ \/ Overdue(i)
       \/ \E c \in cache : c.id = i /\ c.place = latest[i]
Concluding(i) == \E w \in Workers : pc[w] = "executed" /\ Request(w).id = i
Recalled == \A i \in Ids : executions[i] > 0 => Recorded(i) \/ Concluding(i)

\* Whoever executes an id again found no outcome of it.
Overtaken ==
    \A w \in Workers, i \in Ids :
        pc[w] = "executing" /\ Request(w).id = i /\ executions[i] > 0 => Overdue(i)

OnceInv == MailboxInv /\ OneRequest /\ Requested /\ Recalled /\ Overtaken

LEMMA InitOnce == Init => OnceInv
<1> SUFFICES ASSUME Init PROVE OnceInv  OBVIOUS
<1>1. MailboxInv  BY InitMailbox
<1>2. /\ \A w \in Workers : /\ pc[w] = "unborn" /\ channel[w] = <<>>
                            /\ current[w] = NoRequest(w[1])
      /\ \A j \in Ids : executions[j] = 0
      /\ submitted = {}
  BY DEF Init
<1>3. \A w \in Workers : Len(channel[w]) = 0  BY <1>2
<1>4. \A w \in Workers : Known(current[w].request, w[1], {})
  <2> SUFFICES ASSUME NEW w \in Workers PROVE Known(NoRequest(w[1]).request, w[1], {})
    BY <1>2
  <2> QED  BY DEF NoRequest, Known
<1>5. Requested  BY <1>2, <1>3, <1>4 DEF Requested
<1> QED  BY <1>1, <1>2, <1>5 DEF OnceInv, OneRequest, Recalled, Overtaken

\* Caching an outcome of i records i, and evicts no outcome too early.
LEMMA CachesRecord ==
    ASSUME TypeOK, NEW i \in Ids \cup {Nil, Other}, NEW o \in Outcomes, Caches(i, o)
    PROVE  /\ i \in Ids => Recorded(i)'
           /\ \A j \in Ids : Recorded(j) => Recorded(j)'
           /\ \A j \in Ids \ {i} : Overdue(j) => Overdue(j)'
<1>1. PICK b \in Sizes : cache' = Remember(i, o, b) /\ latest' = Overtake(i, b)  BY DEF Caches
<1>2. b \in Nat /\ CacheCap \in Nat \ {0} /\ CacheBytes \in Nat  BY ConstantsAssumption
<1>3. /\ cache \subseteq Entries
      /\ \A j \in Ids : latest[j] \in Places
  BY DEF TypeOK
<1>4. CASE i = Nil
  <2>1. i \notin Ids  BY <1>4 DEF Ids, Nil
  <2>2. UNCHANGED <<cache, latest>>  BY <1>1, <1>4 DEF Remember, Overtake
  <2> QED  BY <2>1, <2>2 DEF Recorded, Overdue
<1>5. CASE i # Nil
  <2> DEFINE new == [id |-> i, outcome |-> o, place |-> New(b)]
  <2>1. cache' = {c \in {[d EXCEPT !.place = Aged(@, b)] : d \in cache} \cup {new} :
                       Fits(c.place)}
    BY <1>1, <1>5 DEF Remember
  <2>2. i \in Ids => latest'[i] = New(b)  BY <1>1, <1>5 DEF Overtake
  <2>3. \A j \in Ids \ {i} :
            latest'[j] = IF latest[j].age = 0 THEN latest[j] ELSE Aged(latest[j], b)
    BY <1>1, <1>5 DEF Overtake
  <2>4. ASSUME i \in Ids PROVE Recorded(i)'
    <3>1. new.id = i /\ new.place = New(b) /\ New(b).age = 1 /\ New(b).load = b  BY DEF New
    <3>2. latest'[i] = New(b)  BY <2>2, <2>4
    <3>3. CASE b > CacheBytes  BY <3>1, <3>2, <3>3 DEF Recorded, Overdue
    <3>4. CASE b <= CacheBytes
      <4>1. new \in cache'  BY <1>2, <2>1, <3>1, <3>4 DEF Fits
      <4> QED  BY <3>1, <3>2, <4>1 DEF Recorded
    <3> QED  BY <1>2, <3>3, <3>4
  <2> HIDE DEF new
  <2>5. ASSUME NEW j \in Ids \ {i}
        PROVE  (Overdue(j) => Overdue(j)') /\ (Recorded(j) => Recorded(j)')
    <3>1. latest[j].age \in Nat /\ latest[j].load \in Nat  BY <1>3 DEF Places
    <3>2. CASE latest[j].age = 0
      <4>1. latest'[j] = latest[j]  BY <2>3, <3>2
      <4> QED  BY <3>2, <4>1 DEF Overdue, Recorded
    <3>3. CASE latest[j].age > 0
      <4>1. /\ latest'[j] = Aged(latest[j], b)
            /\ latest'[j].age = latest[j].age + 1 /\ latest'[j].load = latest[j].load + b
        BY <2>3, <3>1, <3>3 DEF Aged
      <4>2. Overdue(j) => Overdue(j)'  BY <1>2, <3>1, <4>1 DEF Overdue
      <4>3. ASSUME Recorded(j), ~ Overdue(j)' PROVE Recorded(j)'
        <5>1. PICK c \in cache : c.id = j /\ c.place = latest[j]
          BY <4>2, <4>3 DEF Recorded
        <5> DEFINE d == [c EXCEPT !.place = Aged(@, b)]
        <5>2. d.id = j /\ d.place = latest'[j]  BY <1>3, <4>1, <5>1 DEF Entries
        <5>3. Fits(d.place)  BY <1>2, <3>1, <4>1, <4>3, <5>2 DEF Overdue, Fits
        <5>4. d \in cache'  BY <2>1, <5>1, <5>3
        <5> HIDE DEF d
        <5> QED  BY <3>1, <4>1, <5>2, <5>4 DEF Recorded
      <4>4. Overdue(j)' => Recorded(j)'  BY <3>1, <4>1 DEF Recorded
      <4> QED  BY <4>2, <4>3, <4>4
    <3> QED  BY <3>1, <3>2, <3>3
  <2> QED  BY <2>4, <2>5
<1> QED  BY <1>4, <1>5

\* Two live workers never handle the same id.
LEMMA OneHandler ==
    ASSUME MailboxInv, OneRequest, Requested, NEW v \in Workers, NEW w \in Workers,
           Alive(v), Alive(w), Request(w).id # Nil, Request(v).id = Request(w).id
    PROVE  v = w
<1>1. Request(v) \in submitted /\ Request(w) \in submitted
  BY DEF Requested, Known, Request
<1>2. Request(v) = Request(w)  BY <1>1 DEF OneRequest
<1>3. v[1] = w[1]  BY <1>2 DEF Requested, Known, Request
<1> QED  BY <1>3, OnlyOneAlive

\* A dispatch is a new request, a notification or a retry.
Offered(r) == r.id = Nil \/ r \in submitted \/ \A q \in submitted : q.id < r.id

LEMMA OfferedCases ==
    ASSUME TypeOK, Next
    PROVE  \/ \E r \in Requests : Offered(r) /\ Dispatch(r)
           \/ \E w \in Workers : WorkerStep(w) \/ Panic(w)
           \/ \E s \in Sessions : RemoveProject(s)
           \/ OtherConcludes
<1>1. CASE \E s \in Sessions, i \in Ids, k \in Kinds, n \in Runtimes \cup {NoRuntime} :
               Submit(s, i, k, n)
  <2>1. PICK s \in Sessions, i \in Ids, k \in Kinds, n \in Runtimes \cup {NoRuntime} :
            Submit(s, i, k, n)
    BY <1>1
  <2> DEFINE r == [id |-> i, session |-> s, runtime |-> n, kind |-> k]
  <2>2. r \in Requests /\ r.id = i  BY DEF Requests
  <2>3. Dispatch(r) /\ \A q \in submitted : q.id < i  BY <2>1 DEF Submit, Fresh
  <2> HIDE DEF r
  <2>4. Offered(r)  BY <2>2, <2>3 DEF Offered
  <2> QED  BY <2>2, <2>3, <2>4
<1>2. CASE \E s \in Sessions, k \in Kinds, n \in Runtimes \cup {NoRuntime} : Notify(s, k, n)
  BY <1>2 DEF Notify, Requests, Offered
<1>3. CASE \E r \in submitted : Retry(r)
  BY <1>3 DEF Retry, TypeOK, Offered
<1> QED  BY <1>1, <1>2, <1>3 DEF Next

\* Only a worker that starts is touched by a dispatch.
LEMMA DispatchFrame ==
    ASSUME MailboxInv, NEW r \in Requests, Dispatch(r)
    PROVE  /\ \A v \in Workers : pc'[v] = pc[v] \/ (pc'[v] = "receiving" /\ ~ Alive(v))
           /\ \A v \in Workers :
                  \/ channel'[v] = channel[v]
                  \/ /\ v[1] = r.session
                     /\ channel'[v] = Append(channel[v], [request |-> r, ticket |-> dispatches + 1])
<1>1. TypeOK /\ Untouched /\ Counted  BY DEF MailboxInv, TypeInv
<1> DEFINE w == <<r.session, born[r.session] + 1>>
<1>2. pc' = pc \/ pc' = [pc EXCEPT ![w] = "receiving"]
  BY DEF Dispatch, Enqueue, SpawnFails
<1>3. w \in Workers => ~ Alive(w)
  BY <1>1 DEF Untouched, Alive, TypeOK, Requests
<1>4. \A v \in Workers : pc'[v] = pc[v] \/ (pc'[v] = "receiving" /\ ~ Alive(v))
  BY <1>1, <1>2, <1>3 DEF TypeOK
<1>5. \/ channel' = channel
      \/ \E n : channel' = [channel EXCEPT ![<<r.session, n>>] =
                               Append(@, [request |-> r, ticket |-> dispatches + 1])]
  BY DEF Dispatch, Enqueue, SpawnFails, Queued
<1>6. ASSUME NEW v \in Workers
      PROVE  \/ channel'[v] = channel[v]
             \/ /\ v[1] = r.session
                /\ channel'[v] = Append(channel[v], [request |-> r, ticket |-> dispatches + 1])
  <2> DEFINE item == [request |-> r, ticket |-> dispatches + 1]
  <2> HIDE DEF item
  <2>1. CASE \E n : channel' = [channel EXCEPT ![<<r.session, n>>] = Append(@, item)]
    <3>1. PICK n : channel' = [channel EXCEPT ![<<r.session, n>>] = Append(@, item)]  BY <2>1
    <3>2. CASE v = <<r.session, n>>  BY <1>1, <3>1, <3>2 DEF TypeOK, item
    <3>3. CASE v # <<r.session, n>>  BY <1>1, <3>1, <3>3 DEF TypeOK
    <3> QED  BY <3>2, <3>3
  <2> QED  BY <1>5, <2>1 DEF item
<1> QED  BY <1>4, <1>6

\* What is known of a request stays known.
LEMMA DispatchRequested ==
    ASSUME OnceInv, NEW r \in Requests, Offered(r), Dispatch(r)
    PROVE  OneRequest' /\ Requested'
<1>1. MailboxInv /\ TypeOK /\ OneRequest /\ Requested
  BY DEF OnceInv, MailboxInv, TypeInv
<1>2. submitted' = submitted \cup {q \in {r} : q.id # Nil} /\ UNCHANGED current
  BY DEF Dispatch
<1>3. OneRequest'
  <2>1. \A q \in submitted : q.id \in Int  BY <1>1 DEF TypeOK, Requests, Ids, Nil
  <2>2. ASSUME NEW q \in submitted, r.id # Nil, q.id = r.id PROVE q = r
    <3>1. ~ (q.id < r.id)  BY <2>1, <2>2
    <3>2. r \in submitted  BY <2>2, <3>1 DEF Offered
    <3> QED  BY <1>1, <2>2, <3>2 DEF OneRequest
  <2> QED  BY <1>1, <1>2, <2>2 DEF OneRequest
<1>4. \A q, s : Known(q, s, submitted) => Known(q, s, submitted')  BY <1>2 DEF Known
<1>5. Known(r, r.session, submitted')  BY <1>2 DEF Known
<1>6. Requested'
  <2> SUFFICES ASSUME NEW w \in Workers
               PROVE  \A n \in 1..Len(channel'[w]) :
                          Known(channel'[w][n].request, w[1], submitted')
    BY <1>1, <1>2, <1>4 DEF Requested
  <2>1. channel[w] \in Seq(Dispatched)  BY <1>1 DEF TypeOK
  <2>2. \A n \in 1..Len(channel[w]) : Known(channel[w][n].request, w[1], submitted')
    BY <1>1, <1>4 DEF Requested
  <2>3. CASE channel'[w] = channel[w]  BY <2>2, <2>3
  <2>4. CASE /\ w[1] = r.session
             /\ channel'[w] = Append(channel[w], [request |-> r, ticket |-> dispatches + 1])
    <3> DEFINE item == [request |-> r, ticket |-> dispatches + 1]
    <3>1. item.request = r  OBVIOUS
    <3> HIDE DEF item
    <3>2. /\ Len(channel'[w]) = Len(channel[w]) + 1 /\ channel'[w][Len(channel[w]) + 1] = item
          /\ \A n \in 1..Len(channel[w]) : channel'[w][n] = channel[w][n]
          /\ Len(channel[w]) \in Nat
      BY <2>1, <2>4 DEF item
    <3>3. \A n \in 1..Len(channel'[w]) : n \in 1..Len(channel[w]) \/ n = Len(channel[w]) + 1
      BY <3>2
    <3> QED  BY <1>5, <2>2, <2>4, <3>1, <3>2, <3>3
  <2> QED  BY <1>1, <2>3, <2>4, DispatchFrame
<1> QED  BY <1>3, <1>6

LEMMA DispatchOnce ==
    ASSUME OnceInv, NEW r \in Requests, Offered(r), Dispatch(r)
    PROVE  OnceInv'
<1>1. /\ MailboxInv /\ TypeOK /\ Registered /\ OneRequest /\ Requested /\ Recalled /\ Overtaken
      /\ r.id \in Ids \cup {Nil}
  BY DEF OnceInv, MailboxInv, TypeInv, Requests
<1>2. MailboxInv' /\ OneRequest' /\ Requested'
  BY <1>1, DispatchMailbox, DispatchRequested
<1>3. UNCHANGED <<current, executions>>  BY DEF Dispatch
<1>4. \A v \in Workers : pc'[v] = pc[v] \/ (pc'[v] = "receiving" /\ ~ Alive(v))
  BY <1>1, DispatchFrame
<1>5. \A v \in Workers : Request(v)' = Request(v)  BY <1>3 DEF Request
<1>6. \A i : Concluding(i) => Concluding(i)'
  BY <1>4, <1>5 DEF Concluding, Alive
<1>7. CASE UNCHANGED <<cache, latest>>
  <2>1. Recalled'  BY <1>1, <1>3, <1>6, <1>7 DEF Recalled, Recorded, Overdue
  <2>2. Overtaken'  BY <1>1, <1>3, <1>4, <1>5, <1>7 DEF Overtaken, Overdue
  <2> QED  BY <1>2, <2>1, <2>2 DEF OnceInv
<1>8. CASE SpawnFails(r)
  <2> DEFINE o == IF Cached(r.id) THEN Newest(r.id) ELSE Failed
  <2>1. o \in Outcomes  BY <1>1, NewestType, OutcomeTypes
  <2>2. Caches(r.id, o) /\ ~ Reachable(r.session)
    BY <1>8 DEF SpawnFails
  <2> HIDE DEF o
  <2>3. /\ \A j \in Ids : Recorded(j) => Recorded(j)'
        /\ \A j \in Ids \ {r.id} : Overdue(j) => Overdue(j)'
    BY <1>1, <2>1, <2>2, CachesRecord
  <2>4. Recalled'  BY <1>1, <1>3, <1>6, <2>3 DEF Recalled
  <2>5. Overtaken'
    <3> SUFFICES ASSUME NEW v \in Workers, NEW i \in Ids,
                        pc[v] = "executing", Request(v).id = i, executions[i] > 0
                 PROVE  Overdue(i)'
      BY <1>3, <1>4, <1>5 DEF Overtaken, Overdue
    <3>1. Overdue(i)  BY <1>1 DEF Overtaken, Overdue
    <3>2. CASE i # r.id  BY <2>3, <3>1, <3>2
    <3>3. CASE i = r.id
      <4>1. r \in submitted' /\ i # Nil  BY <3>3 DEF Dispatch, Ids, Nil
      <4>2. Request(v) \in submitted /\ Request(v).session = v[1]
        BY <1>1, <3>3, <4>1 DEF Requested, Known, Request
      <4>3. Request(v) = r
        <5>1. Request(v) \in submitted'  BY <4>2 DEF Dispatch
        <5> QED  BY <1>2, <3>3, <4>1, <5>1 DEF OneRequest
      <4>4. Alive(v)  BY DEF Alive
      <4> QED  BY <1>1, <2>2, <4>2, <4>3, <4>4, AliveReachable
    <3> QED  BY <3>2, <3>3
  <2> QED  BY <1>2, <2>4, <2>5 DEF OnceInv
<1> QED  BY <1>7, <1>8 DEF Dispatch, Enqueue

\* A worker takes what its channel held; nothing else changes what is known of
\* requests.
LEMMA WorkerRequested ==
    ASSUME OnceInv, NEW w \in Workers, WorkerStep(w) \/ Panic(w)
    PROVE  submitted' = submitted /\ OneRequest' /\ Requested'
<1>1. TypeOK /\ OneRequest /\ Requested  BY DEF OnceInv, MailboxInv, TypeInv
<1>2. submitted' = submitted
  BY DEF WorkerStep, Receive, LookupHit, LookupMiss, Execute, Conclude, Reply, Settle, TakeQueued,
         Retire, Panic, clientVars
<1>3. \/ channel' = channel /\ current' = current
      \/ channel[w] # <<>> /\ Take(w)
  BY DEF WorkerStep, Receive, LookupHit, LookupMiss, Execute, Conclude, Reply, Settle, TakeQueued,
         Retire, Panic
<1>4. CASE channel' = channel /\ current' = current
  BY <1>1, <1>2, <1>4 DEF OneRequest, Requested
<1>5. CASE channel[w] # <<>> /\ Take(w)
  <2>1. /\ current' = [current EXCEPT ![w] = Head(channel[w])]
        /\ channel' = [channel EXCEPT ![w] = Tail(channel[w])]
    BY <1>5 DEF Take
  <2>2. channel[w] \in Seq(Dispatched)  BY <1>1 DEF TypeOK
  <2>3. /\ Len(channel[w]) \in Nat /\ 1 \in 1..Len(channel[w]) /\ Head(channel[w]) = channel[w][1]
        /\ Len(Tail(channel[w])) = Len(channel[w]) - 1
        /\ \A n \in 1..Len(Tail(channel[w])) :
               n + 1 \in 1..Len(channel[w]) /\ Tail(channel[w])[n] = channel[w][n + 1]
    BY <1>5, <2>2
  <2>4. \A n \in 1..Len(channel[w]) : Known(channel[w][n].request, w[1], submitted)
    BY <1>1 DEF Requested
  <2>5. Known(Head(channel[w]).request, w[1], submitted)  BY <2>3, <2>4
  <2>6. \A n \in 1..Len(Tail(channel[w])) :
            Known(Tail(channel[w])[n].request, w[1], submitted)
    BY <2>3, <2>4
  <2>7. ASSUME NEW v \in Workers
        PROVE  /\ Known(current'[v].request, v[1], submitted)
               /\ \A n \in 1..Len(channel'[v]) :
                      Known(channel'[v][n].request, v[1], submitted)
    <3>1. CASE v = w
      <4>1. current'[v] = Head(channel[w]) /\ channel'[v] = Tail(channel[w])
        BY <1>1, <2>1, <3>1 DEF TypeOK
      <4> QED  BY <2>5, <2>6, <3>1, <4>1
    <3>2. CASE v # w
      <4>1. current'[v] = current[v] /\ channel'[v] = channel[v]
        BY <1>1, <2>1, <3>2 DEF TypeOK
      <4> QED  BY <1>1, <4>1 DEF Requested
    <3> QED  BY <3>1, <3>2
  <2> QED  BY <1>1, <1>2, <2>7 DEF OneRequest, Requested
<1> QED  BY <1>2, <1>3, <1>4, <1>5

\* A step that neither caches an outcome nor counts an execution, and whose
\* worker goes to look for no outcome.
LEMMA ElsewhereOnce ==
    ASSUME OnceInv, NEW w \in Workers, WorkerStep(w) \/ Panic(w),
           UNCHANGED <<cache, latest, executions>>,
           pc[w] # "executed", pc'[w] # "executing"
    PROVE  Recalled' /\ Overtaken'
<1>1. TypeOK /\ Recalled /\ Overtaken  BY DEF OnceInv, MailboxInv, TypeInv
<1>2. \A v \in Workers \ {w} : pc'[v] = pc[v] /\ Request(v)' = Request(v)
  BY <1>1, WorkerFrame DEF Request
<1>3. \A i : Concluding(i) => Concluding(i)'  BY <1>2 DEF Concluding
<1>4. Recalled'  BY <1>1, <1>3 DEF Recalled, Recorded, Overdue
<1>5. Overtaken'  BY <1>1, <1>2 DEF Overtaken, Overdue
<1> QED  BY <1>4, <1>5

LEMMA WorkerOnce ==
    ASSUME OnceInv, NEW w \in Workers, WorkerStep(w) \/ Panic(w)
    PROVE  OnceInv'
<1>1. /\ MailboxInv /\ TypeOK /\ OneRequest /\ Requested /\ Recalled /\ Overtaken
      /\ Alive(w) /\ Request(w).id \in Ids \cup {Nil} /\ outcome[w] \in Outcomes
  BY WorkerShape, WorkerTypes DEF OnceInv, MailboxInv, TypeInv
<1>2. MailboxInv' /\ OneRequest' /\ Requested'
  BY <1>1, WorkerMailbox, WorkerRequested
<1>3. \A v \in Workers \ {w} : pc'[v] = pc[v] /\ Request(v)' = Request(v)
  BY <1>1, WorkerFrame DEF Request
<1>4. \A v \in Workers, i \in Ids :
          Alive(v) /\ Request(v).id = i /\ Request(w).id = i => v = w
  <2>1. \A i \in Ids : i # Nil  BY DEF Ids, Nil
  <2> QED  BY <1>1, <2>1, OneHandler
<1>5. \A p : pc' = [pc EXCEPT ![w] = p] => pc'[w] = p  BY <1>1 DEF TypeOK
<1>6. SUFFICES Recalled' /\ Overtaken'  BY <1>2 DEF OnceInv
<1>7. CASE LookupMiss(w)
  <2>1. /\ pc[w] = "lookup" /\ pc'[w] = "executing"
        /\ Request(w).id = Nil \/ ~ Cached(Request(w).id)
        /\ UNCHANGED <<current, cache, latest, executions>>
    BY <1>5, <1>7 DEF LookupMiss
  <2>2. Recalled'
    <3>1. \A i : Concluding(i) => Concluding(i)'  BY <1>3, <2>1 DEF Concluding
    <3> QED  BY <1>1, <2>1, <3>1 DEF Recalled, Recorded, Overdue
  <2>3. ASSUME NEW i \in Ids, Request(w).id = i, executions[i] > 0
        PROVE  Overdue(i)
    <3>1. ~ Concluding(i)
      BY <1>4, <2>1, <2>3 DEF Concluding, Alive
    <3>2. \A c \in cache : c.id # i  BY <2>1, <2>3 DEF Ids, Nil, Cached
    <3> QED  BY <1>1, <2>3, <3>1, <3>2 DEF Recalled, Recorded, Overdue
  <2>4. Overtaken'
    <3> SUFFICES ASSUME NEW v \in Workers, NEW i \in Ids,
                        pc'[v] = "executing", Request(v)' = Request(v),
                        Request(v).id = i, executions[i] > 0
                 PROVE  Overdue(i)
      BY <2>1 DEF Overtaken, Overdue, Request
    <3>1. CASE v = w  BY <2>3, <3>1
    <3>2. CASE v # w  BY <1>1, <1>3, <3>2 DEF Overtaken, Overdue
    <3> QED  BY <3>1, <3>2
  <2> QED  BY <2>2, <2>4
<1>8. CASE Execute(w)
  <2>1. /\ pc[w] = "executing" /\ pc'[w] = "executed"
        /\ executions' = [i \in Ids |-> IF i = Request(w).id THEN executions[i] + 1
                                                             ELSE executions[i]]
        /\ UNCHANGED <<current, cache, latest>>
    BY <1>5, <1>8 DEF Execute
  <2>2. Request(w)' = Request(w)  BY <2>1 DEF Request
  <2>3. Recalled'
    <3> SUFFICES ASSUME NEW i \in Ids, executions'[i] > 0 PROVE (Recorded(i) \/ Concluding(i))'
      BY DEF Recalled
    <3>1. CASE i = Request(w).id  BY <2>1, <2>2, <3>1 DEF Concluding
    <3>2. CASE i # Request(w).id
      <4>1. executions[i] > 0  BY <2>1, <3>2
      <4>2. Recorded(i) \/ Concluding(i)  BY <1>1, <4>1 DEF Recalled
      <4>3. Concluding(i) => Concluding(i)'  BY <1>3, <2>1, <2>2 DEF Concluding
      <4> QED  BY <2>1, <4>2, <4>3 DEF Recorded, Overdue
    <3> QED  BY <3>1, <3>2
  <2>4. Overtaken'
    <3> SUFFICES ASSUME NEW v \in Workers, NEW i \in Ids,
                        pc'[v] = "executing", Request(v)'.id = i, executions'[i] > 0
                 PROVE  Overdue(i)
      BY <2>1 DEF Overtaken, Overdue
    <3>1. v # w  BY <2>1
    <3>2. pc[v] = "executing" /\ Request(v).id = i /\ Alive(v)  BY <1>3, <3>1 DEF Alive
    <3>3. i # Request(w).id  BY <1>4, <3>1, <3>2
    <3>4. executions[i] > 0  BY <2>1, <3>3
    <3> QED  BY <1>1, <3>2, <3>4 DEF Overtaken, Overdue
  <2> QED  BY <2>3, <2>4
<1>9. CASE Conclude(w)
  <2>1. /\ pc[w] = "executed" /\ pc'[w] = "replying"
        /\ Caches(Request(w).id, outcome[w])
        /\ UNCHANGED <<current, executions>>
    BY <1>5, <1>9 DEF Conclude
  <2>2. /\ Request(w).id \in Ids => Recorded(Request(w).id)'
        /\ \A j \in Ids : Recorded(j) => Recorded(j)'
        /\ \A j \in Ids \ {Request(w).id} : Overdue(j) => Overdue(j)'
    <3> HIDE DEF Request
    <3>1. \A i \in Ids \cup {Nil}, o \in Outcomes :
              Caches(i, o) => /\ i \in Ids => Recorded(i)'
                              /\ \A j \in Ids : Recorded(j) => Recorded(j)'
                              /\ \A j \in Ids \ {i} : Overdue(j) => Overdue(j)'
      BY <1>1, CachesRecord
    <3>2. Request(w)' = Request(w)  BY <2>1 DEF Request
    <3> QED  BY <1>1, <2>1, <3>1, <3>2
  <2>3. Recalled'
    <3> SUFFICES ASSUME NEW i \in Ids, executions[i] > 0 PROVE (Recorded(i) \/ Concluding(i))'
      BY <2>1 DEF Recalled
    <3>1. Recorded(i) \/ Concluding(i)  BY <1>1 DEF Recalled
    <3>2. CASE Concluding(i)
      <4>1. PICK v \in Workers : pc[v] = "executed" /\ Request(v).id = i
        BY <3>2 DEF Concluding
      <4>2. CASE v = w
        <5>1. i = Request(w).id /\ Request(w)' = Request(w)  BY <2>1, <4>1, <4>2 DEF Request
        <5> QED  BY <2>2, <5>1 DEF Recorded
      <4>3. CASE v # w
        <5>1. Concluding(i)'  BY <1>3, <4>1, <4>3 DEF Concluding
        <5> QED  BY <5>1
      <4> QED  BY <4>2, <4>3
    <3> QED  BY <2>2, <3>1, <3>2
  <2>4. Overtaken'
    <3> SUFFICES ASSUME NEW v \in Workers, NEW i \in Ids,
                        pc'[v] = "executing", Request(v)'.id = i, executions[i] > 0
                 PROVE  Overdue(i)'
      BY <2>1 DEF Overtaken, Overdue
    <3>1. v # w  BY <2>1
    <3>2. pc[v] = "executing" /\ Request(v).id = i /\ Alive(v)  BY <1>3, <3>1 DEF Alive
    <3>3. i # Request(w).id  BY <1>4, <3>1, <3>2
    <3> QED  BY <1>1, <2>2, <3>2, <3>3 DEF Overtaken, Overdue
  <2> QED  BY <2>3, <2>4
<1>10. CASE Receive(w) \/ LookupHit(w) \/ Reply(w) \/ Settle(w) \/ TakeQueued(w) \/ Retire(w)
            \/ Panic(w)
  <2>1. UNCHANGED <<cache, latest, executions>> /\ pc[w] # "executed" /\ pc'[w] # "executing"
    <3>1. CASE Receive(w) \/ TakeQueued(w)
      <4>1. pc' = [pc EXCEPT ![w] = "lookup"] /\ pc[w] \in {"receiving", "deciding"}
        BY <3>1 DEF Receive, TakeQueued, Take
      <4> QED  BY <1>5, <3>1, <4>1 DEF Receive, TakeQueued
    <3>2. CASE Settle(w)
      <4>1. \/ pc' = [pc EXCEPT ![w] = "deciding"]
            \/ pc' = [pc EXCEPT ![w] = "receiving"]
        BY <3>2 DEF Settle
      <4> QED  BY <1>5, <3>2, <4>1 DEF Settle
    <3>3. CASE LookupHit(w) \/ Reply(w) \/ Retire(w) \/ Panic(w)
      BY <1>5, <3>3 DEF LookupHit, Reply, Retire, Panic
    <3> QED  BY <1>10, <3>1, <3>2, <3>3
  <2> QED  BY <2>1, ElsewhereOnce
<1> QED  BY <1>7, <1>8, <1>9, <1>10 DEF WorkerStep

LEMMA OtherOnce ==
    ASSUME OnceInv, MailboxInv', OtherConcludes
    PROVE  OnceInv'
<1>1. /\ TypeOK /\ OneRequest /\ Requested /\ Recalled /\ Overtaken
      /\ UNCHANGED <<submitted, channel, current, pc, executions>>
  BY DEF OnceInv, MailboxInv, TypeInv, OtherConcludes, workerVars, clientVars
<1>2. /\ \A j \in Ids : Recorded(j) => Recorded(j)'
      /\ \A j \in Ids : Overdue(j) => Overdue(j)'
  <2>1. Other \notin Ids  BY DEF Other, Ids
  <2>2. Caches(Other, Acked) /\ Acked \in Outcomes  BY OutcomeTypes DEF OtherConcludes
  <2> QED  BY <1>1, <2>1, <2>2, CachesRecord
<1>3. OneRequest' /\ Requested'  BY <1>1 DEF OneRequest, Requested
<1>4. \A i : Concluding(i) => Concluding(i)'  BY <1>1 DEF Concluding, Request
<1>5. Recalled'  BY <1>1, <1>2, <1>4 DEF Recalled
<1>6. Overtaken'  BY <1>1, <1>2 DEF Overtaken, Overdue, Request
<1> QED  BY <1>3, <1>5, <1>6 DEF OnceInv

LEMMA NextOnce == OnceInv /\ [Next]_vars => OnceInv'
<1> SUFFICES ASSUME OnceInv, [Next]_vars PROVE OnceInv'  OBVIOUS
<1>1. MailboxInv /\ TypeOK /\ MailboxInv'  BY NextMailbox DEF OnceInv, MailboxInv, TypeInv
<1>2. CASE (\E s \in Sessions : RemoveProject(s)) \/ UNCHANGED vars
  <2>1. UNCHANGED <<submitted, channel, current, pc, cache, latest, executions>>
    BY <1>2 DEF RemoveProject, vars, workerVars, clientVars
  <2> QED
    BY <1>1, <2>1 DEF OnceInv, OneRequest, Requested, Recalled, Recorded, Concluding, Overtaken,
       Overdue, Request
<1> QED  BY <1>1, <1>2, OfferedCases, DispatchOnce, WorkerOnce, OtherOnce

\* A request that reached an outcome is executed again only if outcomes that were
\* cached since have pushed its own over the number or the bytes the cache holds,
\* for any number of sessions, retries, panics, independent requests and threads
\* that could not be spawned, and any sizes (handle_request, cache_response).
THEOREM NotExecutedAgain == Spec => ExecutedOnce
<1> DEFINE Once == \A i \in Ids : executions'[i] > executions[i]
                                     => executions[i] = 0 \/ Overdue(i)
<1>1. OnceInv /\ [Next]_vars => [Once]_vars
  <2> SUFFICES ASSUME OnceInv, Next, NEW i \in Ids, executions'[i] > executions[i]
               PROVE  executions[i] = 0 \/ Overdue(i)
    OBVIOUS
  <2>1. TypeOK /\ executions[i] \in Nat /\ Overtaken
    BY DEF OnceInv, MailboxInv, TypeInv, TypeOK
  <2>2. executions' # executions  BY <2>1
  <2>3. PICK w \in Workers : WorkerStep(w) \/ Panic(w)
    BY <2>1, <2>2, OfferedCases DEF Dispatch, RemoveProject, OtherConcludes
  <2>4. Execute(w)
    BY <2>2, <2>3 DEF WorkerStep, Receive, LookupHit, LookupMiss, Conclude, Reply, Settle,
                      TakeQueued, Retire, Panic
  <2>5. pc[w] = "executing" /\ i = Request(w).id
    BY <2>1, <2>4 DEF Execute
  <2> QED  BY <2>1, <2>5 DEF Overtaken, Overdue
<1>2. Spec => []OnceInv  BY InitOnce, NextOnce, PTL DEF Spec
<1> QED  BY <1>1, <1>2, PTL DEF Spec, ExecutedOnce
=============================================================================
