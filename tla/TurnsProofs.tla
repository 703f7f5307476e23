----------------------------- MODULE TurnsProofs -----------------------------
(***************************************************************************)
(* Proofs about Turns, for any number of messages and incidents: the type  *)
(* invariant, that no message is lost on its way through the composer, the *)
(* queue, a steer and the transcript, that the provider reads none twice,  *)
(* and, as long as no turn began too early, that a turn shown as completed *)
(* was answered, that none is left running below a later one, and that no  *)
(* message has two.                                                        *)
(***************************************************************************)
EXTENDS Turns, FiniteSetTheorems, SequenceTheorems, WellFoundedInduction, TLAPS

----------------------------------------------------------------------------
(* Where the elements of a set stand in a sequence                         *)

Hits(s, S) == \E i \in DOMAIN s : s[i] \in S
Lone(s, S) == \A i, j \in DOMAIN s : s[i] \in S /\ s[j] \in S => i = j

LEMMA EmptyMarks == ASSUME NEW S PROVE Lone(<<>>, S) /\ ~Hits(<<>>, S)
BY DEF Lone, Hits

LEMMA OneMark ==
    ASSUME NEW T, NEW x \in T, NEW S
    PROVE  <<x>> \in Seq(T) /\ Lone(<<x>>, S) /\ (Hits(<<x>>, S) <=> x \in S)
BY DEF Lone, Hits

LEMMA AppendMarks ==
    ASSUME NEW T, NEW s \in Seq(T), NEW x \in T, NEW S
    PROVE  /\ Append(s, x) \in Seq(T)
           /\ Hits(Append(s, x), S) <=> Hits(s, S) \/ x \in S
           /\ Lone(s, S) /\ ~(x \in S /\ Hits(s, S)) => Lone(Append(s, x), S)
<1> DEFINE t == Append(s, x)
<1>1. /\ t \in Seq(T) /\ Len(s) \in Nat /\ Len(t) = Len(s) + 1
      /\ DOMAIN s = 1..Len(s) /\ DOMAIN t = 1..Len(s) + 1
      /\ \A i \in 1..Len(s) : t[i] = s[i]
      /\ t[Len(s) + 1] = x
  BY AppendProperties, LenProperties
<1> HIDE DEF t
<1>2. Hits(t, S) <=> Hits(s, S) \/ x \in S  BY <1>1 DEF Hits
<1>3. Lone(s, S) /\ ~(x \in S /\ Hits(s, S)) => Lone(t, S)  BY <1>1 DEF Hits, Lone
<1> QED  BY <1>1, <1>2, <1>3 DEF t

LEMMA ConcatMarks ==
    ASSUME NEW T, NEW s \in Seq(T), NEW t \in Seq(T), NEW S
    PROVE  /\ s \o t \in Seq(T)
           /\ Hits(s \o t, S) <=> Hits(s, S) \/ Hits(t, S)
           /\ Lone(s, S) /\ Lone(t, S) /\ ~(Hits(s, S) /\ Hits(t, S)) => Lone(s \o t, S)
<1> DEFINE u == s \o t
<1>1. /\ u \in Seq(T) /\ Len(s) \in Nat /\ Len(t) \in Nat
      /\ DOMAIN s = 1..Len(s) /\ DOMAIN t = 1..Len(t) /\ DOMAIN u = 1..Len(s) + Len(t)
      /\ \A i \in 1..Len(s) + Len(t) : u[i] = IF i <= Len(s) THEN s[i] ELSE t[i - Len(s)]
  BY ConcatProperties, LenProperties
<1> HIDE DEF u
<1>2. \A i \in DOMAIN t : Len(s) + i \in DOMAIN u /\ u[Len(s) + i] = t[i]  BY <1>1
<1>3. \A i \in DOMAIN s : i \in DOMAIN u /\ u[i] = s[i]  BY <1>1
<1>4. \A i \in DOMAIN u : \/ i \in DOMAIN s /\ u[i] = s[i]
                          \/ i - Len(s) \in DOMAIN t /\ u[i] = t[i - Len(s)]
  BY <1>1
<1>5. Hits(u, S) <=> Hits(s, S) \/ Hits(t, S)  BY <1>2, <1>3, <1>4 DEF Hits
<1>6. ASSUME Lone(s, S), Lone(t, S), ~(Hits(s, S) /\ Hits(t, S)) PROVE Lone(u, S)
  <2> SUFFICES ASSUME NEW i \in DOMAIN u, NEW j \in DOMAIN u, u[i] \in S, u[j] \in S PROVE i = j
    BY DEF Lone
  <2>1. CASE i \in DOMAIN s /\ u[i] = s[i] /\ j \in DOMAIN s /\ u[j] = s[j]  BY <2>1, <1>6 DEF Lone
  <2>2. CASE /\ i - Len(s) \in DOMAIN t /\ u[i] = t[i - Len(s)]
             /\ j - Len(s) \in DOMAIN t /\ u[j] = t[j - Len(s)]
    <3>1. i - Len(s) = j - Len(s)  BY <2>2, <1>6 DEF Lone
    <3> QED  BY <3>1, <1>1
  <2> QED  BY <2>1, <2>2, <1>4, <1>6 DEF Hits
<1> QED  BY <1>1, <1>5, <1>6 DEF u

LEMMA TailMarks ==
    ASSUME NEW T, NEW s \in Seq(T), s # <<>>, NEW S
    PROVE  /\ Tail(s) \in Seq(T) /\ Head(s) \in T
           /\ Hits(s, S) <=> Head(s) \in S \/ Hits(Tail(s), S)
           /\ Lone(s, S) => Lone(Tail(s), S) /\ ~(Head(s) \in S /\ Hits(Tail(s), S))
<1> DEFINE t == Tail(s)
<1>1. /\ t \in Seq(T) /\ Len(s) \in Nat \ {0} /\ DOMAIN s = 1..Len(s) /\ DOMAIN t = 1..Len(s) - 1
      /\ \A i \in 1..Len(s) - 1 : t[i] = s[i + 1]
      /\ Head(s) = s[1] /\ s[1] \in T
  BY HeadTailProperties, LenProperties, EmptySeq, ElementOfSeq
<1> HIDE DEF t
<1>2. \A i \in DOMAIN t : i + 1 \in DOMAIN s /\ t[i] = s[i + 1]  BY <1>1
<1>3. \A i \in DOMAIN s : i = 1 \/ (i - 1 \in DOMAIN t /\ t[i - 1] = s[i])  BY <1>1
<1>4. 1 \in DOMAIN s  BY <1>1
<1>5. Hits(s, S) <=> Head(s) \in S \/ Hits(t, S)  BY <1>1, <1>2, <1>3, <1>4 DEF Hits
<1>6. ASSUME Lone(s, S) PROVE Lone(t, S)
  <2> SUFFICES ASSUME NEW i \in DOMAIN t, NEW j \in DOMAIN t, t[i] \in S, t[j] \in S PROVE i = j
    BY DEF Lone
  <2>1. i + 1 = j + 1  BY <1>2, <1>6 DEF Lone
  <2> QED  BY <2>1, <1>1
<1>7. ASSUME Lone(s, S), Head(s) \in S, Hits(t, S) PROVE FALSE
  <2>1. PICK i \in DOMAIN t : t[i] \in S  BY <1>7 DEF Hits
  <2>2. i + 1 = 1  BY <2>1, <1>1, <1>2, <1>4, <1>7 DEF Lone
  <2> QED  BY <2>2, <1>1
<1> QED  BY <1>1, <1>5, <1>6, <1>7 DEF t

LEMMA RemoveAtMarks ==
    ASSUME NEW T, NEW s \in Seq(T), NEW n \in DOMAIN s, NEW S
    PROVE  /\ RemoveAt(s, n) \in Seq(T)
           /\ Hits(RemoveAt(s, n), S) => Hits(s, S)
           /\ Lone(s, S) => /\ Lone(RemoveAt(s, n), S)
                            /\ s[n] \in S => ~Hits(RemoveAt(s, n), S)
           /\ \A i \in DOMAIN s : i = n \/ \E j \in DOMAIN RemoveAt(s, n) : RemoveAt(s, n)[j] = s[i]
<1> DEFINE a == SubSeq(s, 1, n - 1)
           b == SubSeq(s, n + 1, Len(s))
           u == RemoveAt(s, n)
<1>1. Len(s) \in Nat /\ DOMAIN s = 1..Len(s) /\ n \in 1..Len(s)  BY LenProperties
<1>2. a \in Seq(T) /\ Len(a) = n - 1 /\ \A i \in 1..n - 1 : a[i] = s[i]
  BY <1>1, SubSeqProperties
<1>3. b \in Seq(T) /\ Len(b) = Len(s) - n /\ \A i \in 1..Len(s) - n : b[i] = s[n + i]
  BY <1>1, SubSeqProperties
<1>4. u = a \o b  BY DEF RemoveAt
<1> HIDE DEF a, b, u
<1>5. /\ u \in Seq(T) /\ DOMAIN u = 1..Len(s) - 1
      /\ \A i \in 1..Len(s) - 1 : u[i] = IF i < n THEN s[i] ELSE s[i + 1]
  <2>1. u \in Seq(T) /\ Len(u) = Len(a) + Len(b)  BY <1>2, <1>3, <1>4, ConcatProperties
  <2>2. Len(a) + Len(b) = Len(s) - 1  BY <1>1, <1>2, <1>3
  <2>3. DOMAIN u = 1..Len(s) - 1  BY <2>1, <2>2, LenProperties
  <2>4. \A i \in 1..Len(a) + Len(b) : u[i] = IF i <= Len(a) THEN a[i] ELSE b[i - Len(a)]
    BY <1>2, <1>3, <1>4, ConcatProperties
  <2>5. \A i \in 1..Len(s) - 1 : u[i] = IF i <= n - 1 THEN a[i] ELSE b[i - (n - 1)]
    BY <2>2, <2>4, <1>2
  <2>6. ASSUME NEW i \in 1..Len(s) - 1 PROVE u[i] = IF i < n THEN s[i] ELSE s[i + 1]
    <3>1. CASE i < n
      <4>1. i \in 1..n - 1 /\ i <= n - 1  BY <3>1, <1>1
      <4> QED  BY <4>1, <3>1, <2>5, <1>2
    <3>2. CASE ~(i < n)
      <4>1. i - (n - 1) \in 1..Len(s) - n /\ n + (i - (n - 1)) = i + 1 /\ ~(i <= n - 1)
        BY <3>2, <1>1
      <4>2. u[i] = b[i - (n - 1)]  BY <4>1, <2>5
      <4>3. b[i - (n - 1)] = s[n + (i - (n - 1))]  BY <4>1, <1>3
      <4> QED  BY <4>1, <4>2, <4>3, <3>2
    <3> QED  BY <3>1, <3>2
  <2> QED  BY <2>1, <2>3, <2>6
<1> DEFINE from(i) == IF i < n THEN i ELSE i + 1
<1>6. \A i \in DOMAIN u : from(i) \in DOMAIN s /\ u[i] = s[from(i)] /\ from(i) # n  BY <1>1, <1>5
<1>7. \A i, j \in DOMAIN u : from(i) = from(j) => i = j  BY <1>1, <1>5
<1>8. \A i \in DOMAIN s : i = n \/ \E j \in DOMAIN u : u[j] = s[i]
  <2> SUFFICES ASSUME NEW i \in DOMAIN s, i # n PROVE \E j \in DOMAIN u : u[j] = s[i]  OBVIOUS
  <2>1. CASE i < n  BY <2>1, <1>1, <1>5
  <2>2. CASE ~(i < n)
    <3>1. i - 1 \in DOMAIN u /\ ~(i - 1 < n) /\ (i - 1) + 1 = i  BY <2>2, <1>1, <1>5
    <3>2. u[i - 1] = s[i]  BY <3>1, <1>5
    <3> QED  BY <3>1, <3>2
  <2> QED  BY <2>1, <2>2
<1> HIDE DEF from
<1>9. Hits(u, S) => Hits(s, S)  BY <1>6 DEF Hits
<1>10. Lone(s, S) => Lone(u, S)  BY <1>6, <1>7 DEF Lone
<1>11. Lone(s, S) /\ s[n] \in S => ~Hits(u, S)  BY <1>6 DEF Lone, Hits
<1> QED  BY <1>5, <1>8, <1>9, <1>10, <1>11 DEF u

LEMMA LeastNumber ==
    ASSUME NEW K \in SUBSET Nat, K # {}
    PROVE  \E n \in K : \A k \in K : n <= k
<1> DEFINE R == OpToRel(<, Nat)
<1>1. PICK n \in K : \A k \in K : <<k, n>> \notin R  BY NatLessThanWellFounded, WFMin, Zenon
<1>2. \A k \in K : ~(k < n)  BY <1>1 DEF OpToRel
<1> QED  BY <1>2

\* The first element that is e goes, the others stay.
LEMMA RemoveFirstKeeps ==
    ASSUME NEW T, NEW s \in Seq(T), NEW e
    PROVE  /\ RemoveFirst(s, e) \in Seq(T)
           /\ \A x \in ToSet(s) : x = e \/ x \in ToSet(RemoveFirst(s, e))
<1>1. CASE \E i \in 1..Len(s) : s[i] = e
  <2> DEFINE K == {i \in 1..Len(s) : s[i] = e}
             n == Min(K)
  <2>1. K \in SUBSET Nat /\ K # {} /\ DOMAIN s = 1..Len(s)  BY <1>1, LenProperties
  <2>2. n \in K  BY <2>1, LeastNumber DEF Min
  <2>3. SelectInSeq(s, LAMBDA v : v = e) = n  BY <2>1 DEF SelectInSeq
  <2>4. RemoveFirst(s, e) = RemoveAt(s, n)  BY <1>1, <2>3 DEF RemoveFirst
  <2> HIDE DEF n
  <2>5. n \in DOMAIN s /\ s[n] = e  BY <2>1, <2>2
  <2>6. /\ RemoveAt(s, n) \in Seq(T)
        /\ \A i \in DOMAIN s : i = n \/ \E j \in DOMAIN RemoveAt(s, n) : RemoveAt(s, n)[j] = s[i]
    BY <2>5, RemoveAtMarks
  <2> QED  BY <2>4, <2>5, <2>6 DEF ToSet
<1>2. CASE ~\E i \in 1..Len(s) : s[i] = e  BY <1>2 DEF RemoveFirst
<1> QED  BY <1>1, <1>2

LEMMA LastTurn ==
    ASSUME NEW T, NEW s \in Seq(T), s # <<>>
    PROVE  /\ Len(s) \in DOMAIN s /\ Last(s) = s[Len(s)] /\ Last(s) \in T
           /\ \A x \in T : /\ [s EXCEPT ![Len(s)] = x] \in Seq(T)
                           /\ Len([s EXCEPT ![Len(s)] = x]) = Len(s)
                           /\ DOMAIN [s EXCEPT ![Len(s)] = x] = DOMAIN s
           /\ Front(s) \in Seq(T)
           /\ \A i \in DOMAIN s : i # Len(s) => i \in DOMAIN Front(s) /\ Front(s)[i] = s[i]
<1>1. Len(s) \in Nat \ {0} /\ DOMAIN s = 1..Len(s)  BY LenProperties, EmptySeq
<1>2. Len(s) \in DOMAIN s /\ Last(s) = s[Len(s)] /\ Last(s) \in T  BY <1>1, ElementOfSeq DEF Last
<1>3. ASSUME NEW x \in T
      PROVE  /\ [s EXCEPT ![Len(s)] = x] \in Seq(T)
             /\ Len([s EXCEPT ![Len(s)] = x]) = Len(s)
             /\ DOMAIN [s EXCEPT ![Len(s)] = x] = DOMAIN s
  BY <1>1, ExceptSeq
<1>4. Front(s) = SubSeq(s, 1, Len(s) - 1)  BY DEF Front
<1>5. /\ Front(s) \in Seq(T) /\ Len(Front(s)) = Len(s) - 1
      /\ \A i \in 1..Len(s) - 1 : Front(s)[i] = s[i]
  BY <1>1, <1>4, SubSeqProperties
<1>6. DOMAIN Front(s) = 1..Len(s) - 1  BY <1>5, LenProperties
<1> QED  BY <1>1, <1>2, <1>3, <1>5, <1>6

----------------------------------------------------------------------------
(* What the handlers of the client keep                                    *)

\* m is in the transcript of d.
ShownIn(d, m) == m \in d.loose \/ \E i \in DOMAIN d.turns :
                     m \in d.turns[i].folded \cup {d.turns[i].opener}

\* e still shows the messages that d shows, and differs in turns, status,
\* queue, steers, and what is history of the steers only.
ShowsOn(d, e) ==
    /\ e \in Desk /\ e.worktree = d.worktree /\ e.preparing = d.preparing
    /\ \A m \in Messages : ShownIn(d, m) => ShownIn(e, m)

\* e has the queue and the steers of d, too.
Keeps(d, e) ==
    /\ ShowsOn(d, e) /\ e.runtime = d.runtime /\ e.queue = d.queue /\ e.steers = d.steers
    /\ e.misread = d.misread /\ e.dropped = d.dropped

LEMMA KeepsTrans ==
    ASSUME NEW c, NEW d, NEW e, Keeps(c, d), Keeps(d, e) PROVE Keeps(c, e)
BY DEF Keeps, ShowsOn

LEMMA KeepsSelf == ASSUME NEW d \in Desk PROVE Keeps(d, d)
BY DEF Keeps, ShowsOn

\* d with another status, drain flag or set of captures.
WithStatus(d, s) == [d EXCEPT !.status = s]
WithDrain(d, b) == [d EXCEPT !.drain = b]
WithCaptures(d, c) == [d EXCEPT !.captures = c]

LEMMA StatusKeeps ==
    ASSUME NEW d \in Desk, NEW s \in Statuses
    PROVE  Keeps(d, WithStatus(d, s)) /\ WithStatus(d, s).status = s
<1> DEFINE e == WithStatus(d, s)
<1>1. e \in Desk /\ e.turns = d.turns /\ e.loose = d.loose /\ e.status = s
  BY DEF Desk, WithStatus
<1>2. /\ e.worktree = d.worktree /\ e.preparing = d.preparing /\ e.runtime = d.runtime
      /\ e.queue = d.queue /\ e.steers = d.steers /\ e.misread = d.misread /\ e.dropped = d.dropped
  BY DEF Desk, WithStatus
<1> HIDE DEF e
<1> QED  BY <1>1, <1>2 DEF Keeps, ShowsOn, ShownIn, e

LEMMA DrainFlagKeeps ==
    ASSUME NEW d \in Desk, NEW b \in BOOLEAN
    PROVE  Keeps(d, WithDrain(d, b)) /\ WithDrain(d, b).status = d.status
           /\ WithDrain(d, b).turns = d.turns
<1> DEFINE e == WithDrain(d, b)
<1>1. e \in Desk /\ e.turns = d.turns /\ e.loose = d.loose /\ e.status = d.status
  BY DEF Desk, WithDrain
<1>2. /\ e.worktree = d.worktree /\ e.preparing = d.preparing /\ e.runtime = d.runtime
      /\ e.queue = d.queue /\ e.steers = d.steers /\ e.misread = d.misread /\ e.dropped = d.dropped
  BY DEF Desk, WithDrain
<1> HIDE DEF e
<1> QED  BY <1>1, <1>2 DEF Keeps, ShowsOn, ShownIn, e

LEMMA CapturesKeep ==
    ASSUME NEW d \in Desk, NEW c \in SUBSET Nat
    PROVE  Keeps(d, WithCaptures(d, c)) /\ WithCaptures(d, c).status = d.status
           /\ WithCaptures(d, c).turns = d.turns
<1> DEFINE e == WithCaptures(d, c)
<1>1. e \in Desk /\ e.turns = d.turns /\ e.loose = d.loose /\ e.status = d.status
  BY DEF Desk, WithCaptures
<1>2. /\ e.worktree = d.worktree /\ e.preparing = d.preparing /\ e.runtime = d.runtime
      /\ e.queue = d.queue /\ e.steers = d.steers /\ e.misread = d.misread /\ e.dropped = d.dropped
  BY DEF Desk, WithCaptures
<1> HIDE DEF e
<1> QED  BY <1>1, <1>2 DEF Keeps, ShowsOn, ShownIn, e

LEMMA BeginKeeps ==
    ASSUME NEW d \in Desk, NEW m \in Messages \cup {None}
    PROVE  /\ Keeps(d, Begin(d, m)) /\ ShownIn(Begin(d, m), m) /\ Active(Begin(d, m))
           /\ Begin(d, m).turns # <<>> /\ Begin(d, m).status = d.status
           /\ Last(Begin(d, m).turns) = [opener |-> m, folded |-> {}, state |-> "Running",
                                         started |-> FALSE]
<1> DEFINE t == [opener |-> m, folded |-> {}, state |-> "Running", started |-> FALSE]
           e == Begin(d, m)
           n == Len(d.turns)
<1>1. t \in Turn  BY DEF Turn
<1>2. d.turns \in Seq(Turn)  BY DEF Desk
<1>3. e = [d EXCEPT !.turns = Append(d.turns, t)]  BY DEF Begin
<1> HIDE DEF t
<1>4. /\ Append(d.turns, t) \in Seq(Turn) /\ n \in Nat /\ DOMAIN d.turns = 1..n
      /\ DOMAIN Append(d.turns, t) = 1..n + 1 /\ Len(Append(d.turns, t)) = n + 1
      /\ \A i \in 1..n : Append(d.turns, t)[i] = d.turns[i]
      /\ Append(d.turns, t)[n + 1] = t
  BY <1>1, <1>2, AppendProperties, LenProperties
<1> HIDE DEF e, n
<1>5. e \in Desk  BY <1>3, <1>4 DEF Desk
<1>6. /\ e.turns = Append(d.turns, t) /\ e.loose = d.loose /\ e.queue = d.queue
      /\ e.steers = d.steers /\ e.misread = d.misread /\ e.dropped = d.dropped
      /\ e.runtime = d.runtime /\ e.worktree = d.worktree /\ e.preparing = d.preparing
      /\ e.status = d.status
  BY <1>3 DEF Desk
<1>7. ASSUME NEW x \in Messages, ShownIn(d, x) PROVE ShownIn(e, x)
  BY <1>4, <1>6, <1>7 DEF ShownIn
<1>8. n + 1 \in DOMAIN e.turns /\ e.turns[n + 1] = t /\ Last(e.turns) = t
  BY <1>4, <1>6 DEF Last
<1>9. ShownIn(e, m)  BY <1>8 DEF ShownIn, t
<1>10. e.turns # <<>>  BY <1>4, <1>6, EmptySeq
<1>11. Active(e)  BY <1>8, <1>10 DEF Active, t
<1> QED  BY <1>5, <1>6, <1>7, <1>8, <1>9, <1>10, <1>11 DEF Keeps, ShowsOn, e, t

LEMMA OnTurnKeeps ==
    ASSUME NEW d \in Desk, d.turns # <<>>, NEW t \in Turn,
           \A m \in Messages : m \in Last(d.turns).folded \cup {Last(d.turns).opener}
                                   => m \in t.folded \cup {t.opener}
    PROVE  /\ Keeps(d, OnTurn(d, t)) /\ OnTurn(d, t).turns # <<>>
           /\ OnTurn(d, t).status = d.status /\ Last(OnTurn(d, t).turns) = t
<1> DEFINE e == OnTurn(d, t)
           n == Len(d.turns)
<1>1. d.turns \in Seq(Turn)  BY DEF Desk
<1>2. e = [d EXCEPT !.turns = [d.turns EXCEPT ![n] = t]]  BY DEF OnTurn
<1>3. /\ n \in DOMAIN d.turns /\ Last(d.turns) = d.turns[n]
      /\ [d.turns EXCEPT ![n] = t] \in Seq(Turn)
      /\ Len([d.turns EXCEPT ![n] = t]) = n
      /\ DOMAIN [d.turns EXCEPT ![n] = t] = DOMAIN d.turns
  BY <1>1, LastTurn, ZenonT(40)
<1>4. /\ [d.turns EXCEPT ![n] = t][n] = t
      /\ \A i \in DOMAIN d.turns : i # n => [d.turns EXCEPT ![n] = t][i] = d.turns[i]
  BY <1>1, <1>3
<1> HIDE DEF e, n
<1>5. e \in Desk  BY <1>2, <1>3 DEF Desk
<1>6. /\ e.turns = [d.turns EXCEPT ![n] = t] /\ e.loose = d.loose /\ e.queue = d.queue
      /\ e.steers = d.steers /\ e.misread = d.misread /\ e.dropped = d.dropped
      /\ e.runtime = d.runtime /\ e.worktree = d.worktree /\ e.preparing = d.preparing
      /\ e.status = d.status
  BY <1>2 DEF Desk
<1>7. DOMAIN e.turns = DOMAIN d.turns /\ e.turns[n] = t
      /\ \A i \in DOMAIN d.turns : i # n => e.turns[i] = d.turns[i]
  BY <1>3, <1>4, <1>6
<1>8. ASSUME NEW x \in Messages, ShownIn(d, x) PROVE ShownIn(e, x)
  <2>1. CASE x \in d.loose  BY <2>1, <1>6 DEF ShownIn
  <2>2. ASSUME NEW i \in DOMAIN d.turns, x \in d.turns[i].folded \cup {d.turns[i].opener}
        PROVE ShownIn(e, x)
    <3>1. CASE i = n  BY <3>1, <2>2, <1>3, <1>7 DEF ShownIn
    <3>2. CASE i # n  BY <3>2, <2>2, <1>7 DEF ShownIn
    <3> QED  BY <3>1, <3>2
  <2> QED  BY <2>1, <2>2, <1>8 DEF ShownIn
<1>9. e.turns # <<>>  BY <1>3, <1>7, EmptySeq
<1>10. Last(e.turns) = t  BY <1>3, <1>6, <1>7 DEF Last
<1> QED  BY <1>5, <1>6, <1>8, <1>9, <1>10 DEF Keeps, ShowsOn, e

LEMMA StartedKeeps ==
    ASSUME NEW d \in Desk PROVE Keeps(d, Started(d)) /\ Started(d).status = d.status
<1>1. CASE Active(d)
  <2> DEFINE l == Last(d.turns)
             t == [l EXCEPT !.started = TRUE]
  <2>1. d.turns # <<>> /\ l \in Turn  BY <1>1, LastTurn DEF Active, Desk
  <2>2. t \in Turn /\ t.folded = l.folded /\ t.opener = l.opener  BY <2>1 DEF Turn
  <2>3. Started(d) = OnTurn(d, t)  BY <1>1 DEF Started
  <2> HIDE DEF l, t
  <2>4. \A m \in Messages : m \in l.folded \cup {l.opener} => m \in t.folded \cup {t.opener}
    BY <2>2
  <2> QED  BY <2>1, <2>2, <2>3, <2>4, OnTurnKeeps DEF l
<1>2. CASE ~Active(d)  BY <1>2, KeepsSelf DEF Started
<1> QED  BY <1>1, <1>2

LEMMA FinishedKeeps ==
    ASSUME NEW d \in Desk, NEW ending \in Endings
    PROVE  Keeps(d, Finished(d, ending)) /\ Finished(d, ending).status = d.status
<1>1. CASE Active(d)
  <2> DEFINE l == Last(d.turns)
             t == [l EXCEPT !.state = ending]
             e == OnTurn(d, t)
             c == e.captures \cup {Len(d.turns)}
  <2>1. d.turns # <<>> /\ l \in Turn  BY <1>1, LastTurn DEF Active, Desk
  <2>2. t \in Turn /\ t.folded = l.folded /\ t.opener = l.opener  BY <2>1 DEF Turn
  <2>3. \A m \in Messages : m \in l.folded \cup {l.opener} => m \in t.folded \cup {t.opener}
    BY <2>2
  <2>4. Keeps(d, e) /\ e.status = d.status  BY <2>1, <2>2, <2>3, OnTurnKeeps
  <2>5. e \in Desk /\ Len(d.turns) \in Nat  BY <2>4, LenProperties DEF Keeps, ShowsOn, Desk
  <2>6. c \in SUBSET Nat  BY <2>5 DEF Desk
  <2>7. Finished(d, ending) = WithCaptures(e, c)  BY <1>1 DEF Finished, WithCaptures
  <2> HIDE DEF e, c, t, l
  <2>8. Keeps(e, WithCaptures(e, c)) /\ WithCaptures(e, c).status = e.status
    BY <2>5, <2>6, CapturesKeep
  <2> QED  BY <2>4, <2>7, <2>8, KeepsTrans
<1>2. CASE ~Active(d)  BY <1>2, KeepsSelf DEF Finished
<1> QED  BY <1>1, <1>2

\* A turn that is taken back takes its own messages along only.
LEMMA UnwoundShows ==
    ASSUME NEW d \in Desk, Active(d), ~Last(d.turns).started
    PROVE  /\ Unwound(d) \in Desk /\ Unwound(d).status = d.status
           /\ Unwound(d).queue = d.queue /\ Unwound(d).steers = d.steers
           /\ Unwound(d).misread = d.misread /\ Unwound(d).dropped = d.dropped
           /\ Unwound(d).runtime = d.runtime /\ Unwound(d).worktree = d.worktree
           /\ Unwound(d).preparing = d.preparing
           /\ \A m : ShownIn(d, m) => \/ ShownIn(Unwound(d), m)
                                      \/ m \in Last(d.turns).folded \cup {Last(d.turns).opener}
<1> DEFINE e == Unwound(d)
           n == Len(d.turns)
<1>1. d.turns # <<>> /\ d.turns \in Seq(Turn)  BY DEF Active, Desk
<1>2. e = [d EXCEPT !.turns = Front(d.turns)]  BY DEF Unwound
<1>3. /\ Last(d.turns) = d.turns[n] /\ Front(d.turns) \in Seq(Turn)
      /\ \A i \in DOMAIN d.turns : i # n => i \in DOMAIN Front(d.turns)
                                            /\ Front(d.turns)[i] = d.turns[i]
  BY <1>1, LastTurn
<1> HIDE DEF e, n
<1>4. e \in Desk  BY <1>2, <1>3 DEF Desk
<1>5. /\ e.turns = Front(d.turns) /\ e.loose = d.loose /\ e.queue = d.queue
      /\ e.steers = d.steers /\ e.misread = d.misread /\ e.dropped = d.dropped
      /\ e.runtime = d.runtime /\ e.worktree = d.worktree /\ e.preparing = d.preparing
      /\ e.status = d.status
  BY <1>2 DEF Desk
<1>6. ASSUME NEW m, ShownIn(d, m)
      PROVE  ShownIn(e, m) \/ m \in Last(d.turns).folded \cup {Last(d.turns).opener}
  <2>1. CASE m \in d.loose  BY <2>1, <1>5 DEF ShownIn
  <2>2. ASSUME NEW i \in DOMAIN d.turns, m \in d.turns[i].folded \cup {d.turns[i].opener}
        PROVE  ShownIn(e, m) \/ m \in Last(d.turns).folded \cup {Last(d.turns).opener}
    <3>1. CASE i = n  BY <3>1, <2>2, <1>3
    <3>2. CASE i # n  BY <3>2, <2>2, <1>3, <1>5 DEF ShownIn
    <3> QED  BY <3>1, <3>2
  <2> QED  BY <1>6, <2>1, <2>2 DEF ShownIn
<1> QED  BY <1>4, <1>5, <1>6 DEF e

LEMMA AdoptedKeeps ==
    ASSUME NEW d \in Desk, NEW m \in Messages PROVE Keeps(d, Adopted(d, m))
<1>1. CASE ~Active(d)
  <2>1. Keeps(d, Begin(d, m))  BY BeginKeeps
  <2>2. Adopted(d, m) = WithStatus(Begin(d, m), "Connecting")  BY <1>1 DEF Adopted, WithStatus
  <2>3. Keeps(Begin(d, m), Adopted(d, m))
    BY <2>1, <2>2, StatusKeeps DEF Statuses, Keeps, ShowsOn
  <2> QED  BY <2>1, <2>3, KeepsTrans
<1>2. CASE Active(d) /\ Prompted(d)  BY <1>2, KeepsSelf DEF Adopted
<1>3. CASE Active(d) /\ ~Prompted(d)
  <2> DEFINE l == Last(d.turns)
             t == [l EXCEPT !.opener = m]
  <2>1. d.turns # <<>> /\ l \in Turn  BY <1>3, LastTurn DEF Active, Desk
  <2>2. t \in Turn  BY <2>1 DEF Turn
  <2>3. l.folded = {} /\ l.opener = None  BY <1>3 DEF Prompted
  <2>4. Adopted(d, m) = OnTurn(d, t)  BY <1>3 DEF Adopted
  <2> HIDE DEF l, t
  <2>5. \A x \in Messages : x \notin l.folded \cup {l.opener}  BY <2>3, ConstantsAssumption
  <2> QED  BY <2>1, <2>2, <2>4, <2>5, OnTurnKeeps DEF l
<1> QED  BY <1>1, <1>2, <1>3

LEMMA TurnStartedKeeps == ASSUME NEW d \in Desk PROVE Keeps(d, TurnStarted(d))
<1> DEFINE c == IF Active(d) THEN d ELSE Begin(d, None)
<1>1. Keeps(d, c)  BY BeginKeeps, KeepsSelf
<1>2. TurnStarted(d) = WithStatus(Started(c), "Working")  BY DEF TurnStarted, WithStatus
<1> HIDE DEF c
<1>3. c \in Desk  BY <1>1 DEF Keeps, ShowsOn
<1>4. Keeps(c, Started(c))  BY <1>3, StartedKeeps
<1>5. Started(c) \in Desk  BY <1>4 DEF Keeps, ShowsOn
<1>6. Keeps(Started(c), TurnStarted(d))  BY <1>2, <1>5, StatusKeeps DEF Statuses
<1> QED  BY <1>1, <1>4, <1>6, KeepsTrans

LEMMA SettledKeeps ==
    ASSUME NEW d \in Desk, NEW ending \in Endings, NEW s \in Statuses, NEW b \in BOOLEAN
    PROVE  /\ Keeps(d, [Finished(d, ending) EXCEPT !.status = s])
           /\ Keeps(d, [Finished(d, ending) EXCEPT !.status = s, !.drain = b])
<1> DEFINE e == Finished(d, ending)
           f == WithStatus(e, s)
           g == WithDrain(f, b)
<1>1. Keeps(d, e) /\ e \in Desk  BY FinishedKeeps DEF Keeps, ShowsOn
<1> HIDE DEF e
<1>2. Keeps(e, f) /\ f \in Desk  BY <1>1, StatusKeeps DEF Keeps, ShowsOn
<1>3. Keeps(f, g)  BY <1>2, DrainFlagKeeps
<1>4. /\ f = [e EXCEPT !.status = s]
      /\ g = [e EXCEPT !.status = s, !.drain = b]
  BY DEF WithStatus, WithDrain
<1>5. Keeps(d, f) /\ Keeps(d, g)  BY <1>1, <1>2, <1>3, KeepsTrans
<1> QED  BY <1>4, <1>5 DEF e

LEMMA TurnFinishedKeeps ==
    ASSUME NEW d \in Desk, NEW success \in BOOLEAN, NEW drains \in BOOLEAN
    PROVE  Keeps(d, TurnFinished(d, success, drains))
<1>1. CASE ~Active(d)  BY <1>1, KeepsSelf DEF TurnFinished
<1>2. CASE Active(d)
  <2> DEFINE ending == IF success THEN "Completed" ELSE "Failed"
             s == IF success THEN "Idle" ELSE "Failed"
             e == Finished(d, ending)
             b == e.drain \/ (drains /\ success)
  <2>1. ending \in Endings /\ s \in Statuses  BY DEF Endings, Statuses
  <2>2. b \in BOOLEAN  OBVIOUS
  <2>3. TurnFinished(d, success, drains) = [e EXCEPT !.status = s, !.drain = b]
    BY <1>2 DEF TurnFinished
  <2> HIDE DEF ending, s, b
  <2>4. Keeps(d, [e EXCEPT !.status = s, !.drain = b])  BY <2>1, <2>2, SettledKeeps
  <2> QED  BY <2>3, <2>4
<1> QED  BY <1>1, <1>2

LEMMA ErrorShownKeeps == ASSUME NEW d \in Desk PROVE Keeps(d, ErrorShown(d))
<1>1. CASE Active(d) /\ ~Prompted(d) /\ ~Last(d.turns).started
  <2> DEFINE e == Unwound(d)
             s == IF Busy(d) THEN "Idle" ELSE e.status
  <2>1. Last(d.turns).folded = {} /\ Last(d.turns).opener = None  BY <1>1 DEF Prompted
  <2>2. \A m \in Messages : m \notin Last(d.turns).folded \cup {Last(d.turns).opener}
    BY <2>1, ConstantsAssumption
  <2>3. Keeps(d, e) /\ e \in Desk  BY <1>1, <2>2, UnwoundShows DEF Keeps, ShowsOn
  <2>4. s \in Statuses  BY <2>3 DEF Desk, Statuses
  <2>5. ErrorShown(d) = WithStatus(e, s)  BY <1>1 DEF ErrorShown, WithStatus
  <2> HIDE DEF e, s
  <2>6. Keeps(e, WithStatus(e, s))  BY <2>3, <2>4, StatusKeeps
  <2> QED  BY <2>3, <2>5, <2>6, KeepsTrans
<1>2. CASE ~(Active(d) /\ ~Prompted(d) /\ ~Last(d.turns).started)
  <2>1. ErrorShown(d) \in {d, WithStatus(d, "Failed")}  BY <1>2 DEF ErrorShown, WithStatus
  <2>2. Keeps(d, WithStatus(d, "Failed"))  BY StatusKeeps DEF Statuses
  <2> QED  BY <2>1, <2>2, KeepsSelf
<1> QED  BY <1>1, <1>2

----------------------------------------------------------------------------
(* One event of the provider                                               *)

\* The user still has m, as far as d can tell: it waits or is shown, or was
\* dropped or misread.
Has(d, m) ==
    \/ m \in ToSet(d.queue) \/ m \in ToSet(d.steers) \/ ShownIn(d, m)
    \/ m \in d.dropped \cup d.misread

\* The queue of e holds no more copies of m than that of d.
QueuesNoMore(d, e, m) ==
    /\ Hits(e.queue, {m}) => Hits(d.queue, {m})
    /\ Lone(d.queue, {m}) => Lone(e.queue, {m})

Refusal(m) == {[kind |-> "rejected", message |-> m]}

\* What one event does to messages: none goes, and none is queued but the one
\* that is refused; one that is queued in its stead has been misread.
Moves(d, h, e) ==
    /\ h \in Desk /\ h.worktree = d.worktree /\ h.preparing = d.preparing
    /\ d.misread \subseteq h.misread
    /\ \A m \in Messages : Has(d, m) => Has(h, m)
    /\ \A m \in Messages \ h.misread :
           \/ QueuesNoMore(d, h, m)
           \/ e \in Refusal(m) /\ (Lone(d.queue, {m}) /\ ~Hits(d.queue, {m}) => Lone(h.queue, {m}))

LEMMA KeepsMoves == ASSUME NEW d, NEW h, Keeps(d, h), NEW e PROVE Moves(d, h, e)
<1>1. /\ h \in Desk /\ h.worktree = d.worktree /\ h.preparing = d.preparing
      /\ h.queue = d.queue /\ h.steers = d.steers /\ h.misread = d.misread /\ h.dropped = d.dropped
      /\ \A m \in Messages : ShownIn(d, m) => ShownIn(h, m)
  BY DEF Keeps, ShowsOn
<1>2. \A m \in Messages : Has(d, m) => Has(h, m)  BY <1>1 DEF Has
<1> QED  BY <1>1, <1>2 DEF Moves, QueuesNoMore

\* The steer an answer settles goes, or it was the only one there is to settle.
LEMMA UnsteeredKeeps ==
    ASSUME NEW d \in Desk, NEW m \in Messages
    PROVE  /\ Answered(d, m) \in Messages
           /\ LET e == Unsteered(d, m)
                  n == Answered(d, m)
              IN /\ ShowsOn(d, e) /\ e.queue = d.queue /\ e.dropped = d.dropped
                 /\ e.status = d.status /\ e.turns = d.turns /\ e.runtime = d.runtime
                 /\ e.loose = d.loose /\ e.drain = d.drain
                 /\ e.misread = d.misread \cup ({n} \ {m})
                 /\ \A x \in Messages : x \in ToSet(d.steers) => x = n \/ x \in ToSet(e.steers)
<1> DEFINE n == Answered(d, m)
           q == RemoveFirst(d.steers, n)
           e == Unsteered(d, m)
<1>1. d.steers \in Seq(Messages)  BY DEF Desk
<1>2. n \in Messages
  <2>1. CASE m \in ToSet(d.steers) \/ d.steers = <<>>  BY <2>1 DEF Answered
  <2>2. CASE ~(m \in ToSet(d.steers) \/ d.steers = <<>>)
    BY <2>2, <1>1, HeadTailProperties DEF Answered
  <2> QED  BY <2>1, <2>2
<1>3. q \in Seq(Messages) /\ \A x \in ToSet(d.steers) : x = n \/ x \in ToSet(q)
  BY <1>1, RemoveFirstKeeps
<1> DEFINE r == d.misread \cup ({n} \ {m})
<1>4. e = [d EXCEPT !.steers = q, !.misread = r]  BY DEF Unsteered
<1> HIDE DEF n, q, e
<1>5. r \in SUBSET Messages  BY <1>2 DEF Desk
<1> HIDE DEF r
<1>6. e \in Desk  BY <1>3, <1>4, <1>5 DEF Desk
<1>7. /\ e.queue = d.queue /\ e.dropped = d.dropped /\ e.steers = q /\ e.misread = r
      /\ e.status = d.status /\ e.turns = d.turns /\ e.runtime = d.runtime
      /\ e.loose = d.loose /\ e.drain = d.drain
      /\ e.worktree = d.worktree /\ e.preparing = d.preparing
  BY <1>4 DEF Desk
<1>8. \A x : ShownIn(d, x) => ShownIn(e, x)  BY <1>7 DEF ShownIn
<1> QED  BY <1>2, <1>3, <1>6, <1>7, <1>8 DEF ShowsOn, n, e, r

LEMMA SteerShownMoves ==
    ASSUME NEW d \in Desk, NEW m \in Messages, NEW e
    PROVE  Moves(d, SteerShown(d, m), e)
<1> DEFINE c == Unsteered(d, m)
           n == Answered(d, m)
           h == SteerShown(d, m)
<1>1. n \in Messages  BY UnsteeredKeeps
<1>2. /\ ShowsOn(d, c) /\ c.queue = d.queue /\ c.dropped = d.dropped
      /\ c.turns = d.turns /\ c.loose = d.loose
      /\ c.misread = d.misread \cup ({n} \ {m})
      /\ \A x \in Messages : x \in ToSet(d.steers) => x = n \/ x \in ToSet(c.steers)
  BY UnsteeredKeeps
<1>3. c \in Desk  BY <1>2 DEF ShowsOn
<1>4. h = IF Active(d) THEN OnTurn(c, [Last(d.turns) EXCEPT !.folded = @ \cup {m}])
          ELSE [c EXCEPT !.loose = @ \cup {m}]
  BY DEF SteerShown
<1> HIDE DEF c, n, h
<1>5. Keeps(c, h) /\ ShownIn(h, m)
  <2>1. CASE Active(d)
    <3> DEFINE l == Last(d.turns)
               t == [l EXCEPT !.folded = l.folded \cup {m}]
    <3>1. d.turns # <<>> /\ l \in Turn  BY <2>1, LastTurn DEF Active, Desk
    <3>2. t \in Turn /\ t.opener = l.opener /\ t.folded = l.folded \cup {m}  BY <3>1 DEF Turn
    <3>3. h = OnTurn(c, t) /\ Last(c.turns) = l  BY <2>1, <1>2, <1>4
    <3> HIDE DEF l, t
    <3>4. \A x \in Messages : x \in l.folded \cup {l.opener} => x \in t.folded \cup {t.opener}
      BY <3>2
    <3>5. Keeps(c, h) /\ h.turns # <<>> /\ Last(h.turns) = t
      BY <3>1, <3>2, <3>3, <3>4, <1>2, <1>3, OnTurnKeeps
    <3>6. Len(h.turns) \in DOMAIN h.turns /\ h.turns[Len(h.turns)] = t
      BY <3>5, LastTurn DEF Keeps, ShowsOn, Desk
    <3>7. ShownIn(h, m)  BY <3>2, <3>6 DEF ShownIn
    <3> QED  BY <3>5, <3>7
  <2>2. CASE ~Active(d)
    <3>1. h = [c EXCEPT !.loose = c.loose \cup {m}]  BY <2>2, <1>4
    <3>2. h \in Desk  BY <3>1, <1>3 DEF Desk
    <3>3. /\ h.turns = c.turns /\ h.loose = c.loose \cup {m} /\ h.queue = c.queue
          /\ h.steers = c.steers /\ h.misread = c.misread /\ h.dropped = c.dropped
          /\ h.runtime = c.runtime /\ h.worktree = c.worktree /\ h.preparing = c.preparing
      BY <3>1, <1>3 DEF Desk
    <3> QED  BY <3>2, <3>3 DEF Keeps, ShowsOn, ShownIn
  <2> QED  BY <2>1, <2>2
<1>6. /\ h \in Desk /\ h.worktree = d.worktree /\ h.preparing = d.preparing
      /\ h.queue = d.queue /\ h.steers = c.steers /\ h.misread = c.misread /\ h.dropped = d.dropped
      /\ \A x \in Messages : ShownIn(d, x) => ShownIn(h, x)
  BY <1>2, <1>5 DEF Keeps, ShowsOn
<1>7. \A x \in Messages : Has(d, x) => Has(h, x)  BY <1>2, <1>5, <1>6 DEF Has
<1> QED  BY <1>2, <1>6, <1>7 DEF Moves, QueuesNoMore, h

\* One more message at either end of a queue.
LEMMA QueuedMarks ==
    ASSUME NEW q \in Seq(Messages), NEW n \in Messages
    PROVE  /\ Append(q, n) \in Seq(Messages) /\ <<n>> \o q \in Seq(Messages)
           /\ ToSet(Append(q, n)) = ToSet(q) \cup {n} /\ ToSet(<<n>> \o q) = ToSet(q) \cup {n}
           /\ \A x : /\ Hits(Append(q, n), {x}) <=> Hits(q, {x}) \/ x = n
                     /\ Hits(<<n>> \o q, {x}) <=> Hits(q, {x}) \/ x = n
                     /\ Lone(q, {x}) /\ ~(x = n /\ Hits(q, {x})) =>
                            Lone(Append(q, n), {x}) /\ Lone(<<n>> \o q, {x})
<1>1. Append(q, n) \in Seq(Messages) /\ <<n>> \o q \in Seq(Messages)
  BY AppendMarks, ConcatMarks, OneMark
<1>2. ASSUME NEW x
      PROVE  /\ Hits(Append(q, n), {x}) <=> Hits(q, {x}) \/ x = n
             /\ Hits(<<n>> \o q, {x}) <=> Hits(q, {x}) \/ x = n
             /\ Lone(q, {x}) /\ ~(x = n /\ Hits(q, {x})) =>
                    Lone(Append(q, n), {x}) /\ Lone(<<n>> \o q, {x})
  <2> DEFINE S == {x}
  <2>0. n \in S <=> x = n  OBVIOUS
  <2> HIDE DEF S
  <2>1. /\ Hits(Append(q, n), S) <=> Hits(q, S) \/ n \in S
        /\ Lone(q, S) /\ ~(n \in S /\ Hits(q, S)) => Lone(Append(q, n), S)
    BY AppendMarks
  <2>2. /\ <<n>> \in Seq(Messages) /\ Lone(<<n>>, S) /\ (Hits(<<n>>, S) <=> n \in S)
    BY OneMark
  <2>3. /\ Hits(<<n>> \o q, S) <=> Hits(<<n>>, S) \/ Hits(q, S)
        /\ Lone(<<n>>, S) /\ Lone(q, S) /\ ~(Hits(<<n>>, S) /\ Hits(q, S)) => Lone(<<n>> \o q, S)
    BY <2>2, ConcatMarks
  <2> QED  BY <2>0, <2>1, <2>2, <2>3 DEF S
<1>3. \A s, x : x \in ToSet(s) <=> Hits(s, {x})  BY DEF ToSet, Hits
<1> QED  BY <1>1, <1>2, <1>3

LEMMA SteerReturnedMoves ==
    ASSUME NEW d \in Desk, NEW m \in Messages, NEW drains \in BOOLEAN
    PROVE  Moves(d, SteerReturned(d, m, drains), [kind |-> "rejected", message |-> m])
<1> DEFINE c == Unsteered(d, m)
           n == Answered(d, m)
           h == SteerReturned(d, m, drains)
           b == c.drain \/ drains
<1>1. n \in Messages  BY UnsteeredKeeps
<1>2. /\ ShowsOn(d, c) /\ c.queue = d.queue /\ c.dropped = d.dropped
      /\ c.misread = d.misread \cup ({n} \ {m})
      /\ \A x \in Messages : x \in ToSet(d.steers) => x = n \/ x \in ToSet(c.steers)
  BY UnsteeredKeeps
<1>3. c \in Desk /\ d.queue \in Seq(Messages)  BY <1>2 DEF ShowsOn, Desk
<1>4. \E q \in {Append(d.queue, n), <<n>> \o d.queue} :
          \/ h = [c EXCEPT !.queue = q]
          \/ h = [c EXCEPT !.queue = q, !.drain = b]
  BY <1>2 DEF SteerReturned, Enqueued
<1>5. b \in BOOLEAN  OBVIOUS
<1> HIDE DEF c, n, h, b
<1>6. PICK q \in {Append(d.queue, n), <<n>> \o d.queue} :
          \/ h = [c EXCEPT !.queue = q]
          \/ h = [c EXCEPT !.queue = q, !.drain = b]
  BY <1>4
<1>7. /\ q \in Seq(Messages) /\ ToSet(q) = ToSet(d.queue) \cup {n}
      /\ \A x : /\ Hits(q, {x}) <=> Hits(d.queue, {x}) \/ x = n
                /\ Lone(d.queue, {x}) /\ ~(x = n /\ Hits(d.queue, {x})) => Lone(q, {x})
  <2>1. CASE q = Append(d.queue, n)  BY <2>1, <1>1, <1>3, QueuedMarks
  <2>2. CASE q = <<n>> \o d.queue  BY <2>2, <1>1, <1>3, QueuedMarks
  <2> QED  BY <2>1, <2>2
<1>8. h \in Desk
  <2>1. CASE h = [c EXCEPT !.queue = q]  BY <2>1, <1>3, <1>7 DEF Desk
  <2>2. CASE h = [c EXCEPT !.queue = q, !.drain = b]  BY <2>2, <1>3, <1>5, <1>7 DEF Desk
  <2> QED  BY <2>1, <2>2, <1>6
<1>9. /\ h.turns = c.turns /\ h.loose = c.loose /\ h.queue = q
      /\ h.steers = c.steers /\ h.misread = c.misread /\ h.dropped = c.dropped
      /\ h.worktree = c.worktree /\ h.preparing = c.preparing
  BY <1>3, <1>6 DEF Desk
<1>10. \A x \in Messages : ShownIn(d, x) => ShownIn(h, x)
  BY <1>2, <1>9 DEF ShownIn, ShowsOn
<1>11. \A x \in Messages : Has(d, x) => Has(h, x)  BY <1>2, <1>7, <1>9, <1>10 DEF Has
<1>12. \A x \in Messages \ h.misread : x # n \/ n = m  BY <1>2, <1>9
<1>13. ASSUME NEW x \in Messages \ h.misread
       PROVE  \/ QueuesNoMore(d, h, x)
              \/ /\ [kind |-> "rejected", message |-> m] \in Refusal(x)
                 /\ Lone(d.queue, {x}) /\ ~Hits(d.queue, {x}) => Lone(h.queue, {x})
  <2>1. CASE x # n  BY <2>1, <1>7, <1>9 DEF QueuesNoMore
  <2>2. CASE x = n  BY <2>2, <1>7, <1>9, <1>12 DEF Refusal
  <2> QED  BY <2>1, <2>2
<1> QED  BY <1>2, <1>8, <1>9, <1>11, <1>13 DEF Moves, ShowsOn, h

LEMMA RuntimeLostMoves ==
    ASSUME NEW d \in Desk, NEW e PROVE Moves(d, RuntimeLost(d), e)
<1> DEFINE c == IF Busy(d) THEN [Finished(d, "Failed") EXCEPT !.status = "Failed"] ELSE d
           h == RuntimeLost(d)
           r == c.dropped \cup ToSet(d.steers)
<1>1. Keeps(d, c)  BY SettledKeeps, KeepsSelf DEF Endings, Statuses
<1>2. h = [c EXCEPT !.runtime = FALSE, !.steers = <<>>, !.dropped = r]  BY DEF RuntimeLost
<1> HIDE DEF c, h
<1>3. /\ c \in Desk /\ c.queue = d.queue /\ c.misread = d.misread /\ c.dropped = d.dropped
      /\ c.worktree = d.worktree /\ c.preparing = d.preparing /\ d.steers \in Seq(Messages)
      /\ \A m \in Messages : ShownIn(d, m) => ShownIn(c, m)
  BY <1>1 DEF Keeps, ShowsOn, Desk
<1>4. r \in SUBSET Messages
  <2>1. ToSet(d.steers) \subseteq Messages  BY <1>3, ElementOfSeq DEF ToSet
  <2> QED  BY <2>1, <1>3 DEF Desk
<1> HIDE DEF r
<1>5. <<>> \in Seq(Messages)  BY EmptySeq
<1>6. h \in Desk  BY <1>2, <1>3, <1>4, <1>5 DEF Desk
<1>7. /\ h.turns = c.turns /\ h.loose = c.loose /\ h.queue = c.queue /\ h.misread = c.misread
      /\ h.dropped = r /\ h.worktree = c.worktree /\ h.preparing = c.preparing
  BY <1>2, <1>3 DEF Desk
<1>8. \A m \in Messages : Has(d, m) => Has(h, m)
  BY <1>3, <1>7 DEF Has, ShownIn, r
<1> QED  BY <1>3, <1>6, <1>7, <1>8 DEF Moves, QueuesNoMore, h

LEMMA HandledMoves ==
    ASSUME NEW d \in Desk, NEW e \in Events, NEW drains \in BOOLEAN
    PROVE  /\ Moves(d, Handled(d, e, drains), e)
           /\ ~d.runtime => Handled(d, e, drains) = d
<1>1. CASE ~d.runtime
  <2>1. Handled(d, e, drains) = d  BY <1>1 DEF Handled
  <2> QED  BY <2>1, KeepsSelf, KeepsMoves
<1>2. CASE d.runtime
  <2> DEFINE h == Handled(d, e, drains)
  <2>1. CASE e.kind = "submitted"
    <3>1. h = Adopted(d, e.message) /\ e.message \in Messages  BY <1>2, <2>1 DEF Handled, Events
    <3> QED  BY <3>1, <1>2, AdoptedKeeps, KeepsMoves
  <2>2. CASE e.kind = "started"
    <3>1. h = TurnStarted(d)  BY <1>2, <2>2 DEF Handled
    <3> QED  BY <3>1, <1>2, TurnStartedKeeps, KeepsMoves
  <2>3. CASE e.kind = "parked"
    <3>1. h \in {d, WithStatus(d, "Background")}  BY <1>2, <2>3 DEF Handled, WithStatus
    <3>2. Keeps(d, WithStatus(d, "Background"))  BY StatusKeeps DEF Statuses
    <3>3. Keeps(d, h)  BY <3>1, <3>2, KeepsSelf
    <3> QED  BY <3>3, <1>2, KeepsMoves
  <2>4. CASE e.kind = "accepted"
    <3>1. h = SteerShown(d, e.message) /\ e.message \in Messages  BY <1>2, <2>4 DEF Handled, Events
    <3> QED  BY <3>1, <1>2, SteerShownMoves
  <2>5. CASE e.kind = "rejected"
    <3>1. h = SteerReturned(d, e.message, drains)  BY <1>2, <2>5 DEF Handled
    <3>2. e.message \in Messages /\ e = [kind |-> "rejected", message |-> e.message]
      BY <2>5 DEF Events
    <3> QED  BY <3>1, <3>2, <1>2, SteerReturnedMoves
  <2>6. CASE e.kind = "finished"
    <3>1. h = TurnFinished(d, TRUE, drains)  BY <1>2, <2>6 DEF Handled
    <3> QED  BY <3>1, <1>2, TurnFinishedKeeps, KeepsMoves
  <2>7. CASE e.kind = "failed"
    <3>1. h = TurnFinished(d, FALSE, drains)  BY <1>2, <2>7 DEF Handled
    <3> QED  BY <3>1, <1>2, TurnFinishedKeeps, KeepsMoves
  <2>8. CASE e.kind = "error"
    <3>1. h = ErrorShown(d)  BY <1>2, <2>8 DEF Handled
    <3> QED  BY <3>1, <1>2, ErrorShownKeeps, KeepsMoves
  <2>9. CASE e.kind = "exited"
    <3>1. h = RuntimeLost(d)  BY <1>2, <2>9 DEF Handled
    <3> QED  BY <3>1, <1>2, RuntimeLostMoves
  <2> QED  BY <2>1, <2>2, <2>3, <2>4, <2>5, <2>6, <2>7, <2>8, <2>9 DEF Events
<1> QED  BY <1>1, <1>2

----------------------------------------------------------------------------
(* All the events that have come                                           *)

\* The function that HandledAll defines exists: the shortest list of events
\* without one would extend a shorter list with one.
IsAfter(f, d, es, drains, k) ==
    f = [j \in 0..k |-> IF j = 0 THEN d ELSE Handled(f[j - 1], es[j], drains)]

LEMMA AfterExists ==
    ASSUME NEW d, NEW es, NEW drains, NEW n \in Nat
    PROVE  \E f : IsAfter(f, d, es, drains, n)
<1> DEFINE K == {k \in Nat : ~\E f : IsAfter(f, d, es, drains, k)}
<1> SUFFICES ASSUME K # {} PROVE FALSE  OBVIOUS
<1>1. PICK k \in K : \A j \in K : k <= j  BY LeastNumber
<1>2. k # 0
  <2> DEFINE f == [j \in 0..0 |-> d]
  <2>1. IsAfter(f, d, es, drains, 0)  BY DEF IsAfter
  <2> QED  BY <2>1, <1>1
<1>3. k - 1 \in Nat /\ k - 1 \notin K  BY <1>1, <1>2
<1>4. PICK f : IsAfter(f, d, es, drains, k - 1)  BY <1>3
<1> DEFINE g == [j \in 0..k |-> IF j = k THEN Handled(f[k - 1], es[k], drains) ELSE f[j]]
<1>5. IsAfter(g, d, es, drains, k)
  <2>1. ASSUME NEW j \in 0..k PROVE g[j] = IF j = 0 THEN d ELSE Handled(g[j - 1], es[j], drains)
    <3>1. CASE j = 0
      <4>1. 0 \in 0..k - 1 /\ f[0] = d  BY <1>3, <1>4 DEF IsAfter
      <4> QED  BY <4>1, <3>1, <1>2
    <3>2. CASE j = k
      <4>1. k - 1 \in 0..k /\ k - 1 # k  BY <1>1, <1>3
      <4>2. g[k - 1] = f[k - 1]  BY <4>1
      <4> QED  BY <4>2, <3>2, <1>2
    <3>3. CASE j # 0 /\ j # k
      <4>1. j \in 0..k - 1 /\ j - 1 \in 0..k /\ j - 1 # k  BY <3>3, <1>1
      <4>2. g[j] = f[j] /\ g[j - 1] = f[j - 1]  BY <4>1, <3>3
      <4>3. f[j] = Handled(f[j - 1], es[j], drains)  BY <4>1, <3>3, <1>4 DEF IsAfter
      <4> QED  BY <4>2, <4>3, <3>3
    <3> QED  BY <3>1, <3>2, <3>3
  <2>2. g = [j \in 0..k |-> g[j]]  OBVIOUS
  <2> HIDE DEF g
  <2>3. [j \in 0..k |-> g[j]]
            = [j \in 0..k |-> IF j = 0 THEN d ELSE Handled(g[j - 1], es[j], drains)]
    BY <2>1
  <2> QED  BY <2>2, <2>3 DEF IsAfter
<1> QED  BY <1>1, <1>5

\* f leads from d through the handling of the first n events of es.
Leads(f, d, es, drains, n) ==
    /\ f[0] = d /\ f[n] = HandledAll(d, es, drains)
    /\ \A k \in 1..n : f[k] = Handled(f[k - 1], es[k], drains)

LEMMA HandledAllSteps ==
    ASSUME NEW d, NEW es, NEW drains, NEW n \in Nat, Len(es) = n
    PROVE  \E f : Leads(f, d, es, drains, n)
<1> DEFINE after == CHOOSE f : IsAfter(f, d, es, drains, n)
<1>1. \E f : IsAfter(f, d, es, drains, n)  BY AfterExists
<1>2. IsAfter(after, d, es, drains, n)  BY <1>1
<1>3. HandledAll(d, es, drains) = after[n]  BY DEF HandledAll, IsAfter
<1> HIDE DEF after
<1>4. after[0] = d /\ \A k \in 1..n : after[k] = Handled(after[k - 1], es[k], drains)
  BY <1>2 DEF IsAfter
<1> QED  BY <1>3, <1>4 DEF Leads

----------------------------------------------------------------------------
(* The invariant                                                           *)

AtMostOne(a, b, c, d, e, f, g) ==
    /\ a => ~b /\ ~c /\ ~d /\ ~e /\ ~f /\ ~g
    /\ b => ~c /\ ~d /\ ~e /\ ~f /\ ~g
    /\ c => ~d /\ ~e /\ ~f /\ ~g
    /\ d => ~e /\ ~f /\ ~g
    /\ e => ~f /\ ~g
    /\ f => ~g

Sends(m) == [op : {"prompt", "steer"}, message : {m}]
Prepares(ps, m) == \E p \in ps : p.message = m

\* There is one copy of m that may yet be sent, or that was read: in the
\* composer, the queue, a preparation, either channel, or in a refusal.
OneCopy(m, box, queue, ps, ib, si, es, n) ==
    /\ AtMostOne(m \in box, Hits(queue, {m}), Prepares(ps, m), Hits(ib, Sends(m)),
                 Hits(si, Sends(m)), Hits(es, Refusal(m)), n # 0)
    /\ Lone(queue, {m}) /\ Lone(ib, Sends(m)) /\ Lone(si, Sends(m)) /\ Lone(es, Refusal(m))
    /\ \A p, r \in ps : p.message = m /\ r.message = m => p = r
    /\ n \in {0, 1}

\* ... of every message, if d is the desk and es the events that it has not seen.
OneCopyEach(d, es) ==
    \A m \in Messages \ d.misread :
        OneCopy(m, composer, d.queue, preparations, inbox, stdin, es, delivered[m])

\* The user still has every message, if d is the desk.
HasAll(d) == \A m \in Messages : m \in composer \cup discarded \cup mislaid \/ Has(d, m)

\* As long as the workspace does not exist nothing was sent, and a preparation
\* is the one of the last turn, which has not been touched.
Fresh(d, ps) ==
    ~d.worktree =>
        /\ ~d.runtime
        /\ \A p \in ps :
              /\ p.starts /\ d.preparing /\ d.status = "Connecting" /\ d.turns # <<>>
              /\ Last(d.turns) = [opener |-> p.message, folded |-> {}, state |-> "Running",
                                  started |-> FALSE]

TurnsInv == TypeOK /\ OneCopyEach(desk, events) /\ HasAll(desk) /\ Fresh(desk, preparations)

\* One event is handled.
LEMMA EventStep ==
    ASSUME NEW d \in Desk, NEW es \in Seq(Events), es # <<>>, NEW drains \in BOOLEAN,
           OneCopyEach(d, es)
    PROVE  OneCopyEach(Handled(d, Head(es), drains), Tail(es))
<1> DEFINE e == Head(es)
           h == Handled(d, e, drains)
<1>1. e \in Events  BY HeadTailProperties
<1>2. Moves(d, h, e)  BY <1>1, HandledMoves
<1> HIDE DEF h
<1> SUFFICES ASSUME NEW m \in Messages \ h.misread
             PROVE  OneCopy(m, composer, h.queue, preparations, inbox, stdin, Tail(es), delivered[m])
  BY DEF OneCopyEach, h
<1>3. OneCopy(m, composer, d.queue, preparations, inbox, stdin, es, delivered[m])
  BY <1>2 DEF OneCopyEach, Moves
<1>4. /\ Hits(es, Refusal(m)) <=> e \in Refusal(m) \/ Hits(Tail(es), Refusal(m))
      /\ Lone(es, Refusal(m)) =>
            Lone(Tail(es), Refusal(m)) /\ ~(e \in Refusal(m) /\ Hits(Tail(es), Refusal(m)))
  BY TailMarks
<1>5. CASE QueuesNoMore(d, h, m)
  BY <1>3, <1>4, <1>5 DEF QueuesNoMore, OneCopy, AtMostOne
<1>6. CASE e \in Refusal(m) /\ (Lone(d.queue, {m}) /\ ~Hits(d.queue, {m}) => Lone(h.queue, {m}))
  BY <1>3, <1>4, <1>6 DEF OneCopy, AtMostOne
<1> QED  BY <1>2, <1>5, <1>6 DEF Moves

\* The first n of the events that have come are handled.
LEMMA HandledAllKeeps ==
    ASSUME TurnsInv, NEW n \in 0..Len(events), NEW drains \in BOOLEAN
    PROVE  LET d == HandledAll(desk, SubSeq(events, 1, n), drains)
               rest == SubSeq(events, n + 1, Len(events))
           IN /\ d \in Desk /\ rest \in Seq(Events)
              /\ OneCopyEach(d, rest) /\ HasAll(d)
              /\ d.worktree = desk.worktree /\ d.preparing = desk.preparing
              /\ ~desk.runtime => d = desk
<1> DEFINE es == SubSeq(events, 1, n)
           left(k) == SubSeq(events, k + 1, Len(events))
<1>1. events \in Seq(Events) /\ desk \in Desk /\ Len(events) \in Nat /\ n \in Nat /\ n <= Len(events)
  BY LenProperties DEF TurnsInv, TypeOK
<1>2. es \in Seq(Events) /\ Len(es) = n /\ \A k \in 1..n : es[k] = events[k]
  BY <1>1, SubSeqProperties
<1>3. PICK f : /\ f[0] = desk /\ f[n] = HandledAll(desk, es, drains)
               /\ \A k \in 1..n : f[k] = Handled(f[k - 1], es[k], drains)
  <2>1. Len(es) = n /\ n \in Nat  BY <1>1, <1>2
  <2> HIDE DEF es
  <2>2. \E f : Leads(f, desk, es, drains, n)  BY <2>1, HandledAllSteps
  <2> QED  BY <2>2 DEF Leads
<1>4. ASSUME NEW k \in 0..n - 1
      PROVE  /\ left(k) \in Seq(Events) /\ left(k) # <<>>
             /\ Head(left(k)) = es[k + 1] /\ Tail(left(k)) = left(k + 1)
  <2>1. k + 1 \in 1..n /\ k + 1 \in 1..Len(events)  BY <1>1
  <2>2. /\ left(k) \in Seq(Events) /\ Len(left(k)) = Len(events) - k
        /\ \A i \in 1..Len(events) - k : left(k)[i] = events[k + i]
    BY <1>1, <2>1, SubSeqProperties
  <2>3. /\ left(k + 1) \in Seq(Events) /\ Len(left(k + 1)) = Len(events) - (k + 1)
        /\ \A i \in 1..Len(events) - (k + 1) : left(k + 1)[i] = events[(k + 1) + i]
    BY <1>1, <2>1, SubSeqProperties
  <2> HIDE DEF left
  <2>4. left(k) # <<>>  BY <2>1, <2>2, <1>1, EmptySeq
  <2>5. /\ Head(left(k)) = left(k)[1] /\ Tail(left(k)) \in Seq(Events)
        /\ Len(Tail(left(k))) = Len(left(k)) - 1
        /\ \A i \in 1..Len(left(k)) - 1 : Tail(left(k))[i] = left(k)[i + 1]
    BY <2>2, <2>4, HeadTailProperties, LenProperties
  <2>6. Head(left(k)) = es[k + 1]  BY <2>1, <2>2, <2>5, <1>1, <1>2
  <2>7. Len(Tail(left(k))) = Len(left(k + 1))  BY <2>1, <2>2, <2>3, <2>5, <1>1
  <2>8. ASSUME NEW i \in 1..Len(left(k + 1)) PROVE Tail(left(k))[i] = left(k + 1)[i]
    <3>1. i \in 1..Len(left(k)) - 1 /\ i + 1 \in 1..Len(events) - k
          /\ k + (i + 1) = (k + 1) + i /\ i \in 1..Len(events) - (k + 1)
      BY <2>1, <2>2, <2>3, <1>1
    <3>2. Tail(left(k))[i] = left(k)[i + 1]  BY <3>1, <2>5
    <3>3. left(k)[i + 1] = events[k + (i + 1)]  BY <3>1, <2>2
    <3>4. left(k + 1)[i] = events[(k + 1) + i]  BY <3>1, <2>3
    <3> QED  BY <3>1, <3>2, <3>3, <3>4
  <2>9. Tail(left(k)) = left(k + 1)  BY <2>3, <2>5, <2>7, <2>8, SeqEqual
  <2> QED  BY <2>2, <2>4, <2>6, <2>9
<1> DEFINE P(k) == /\ f[k] \in Desk
                   /\ OneCopyEach(f[k], left(k)) /\ HasAll(f[k])
                   /\ f[k].worktree = desk.worktree /\ f[k].preparing = desk.preparing
                   /\ ~desk.runtime => f[k] = desk
<1>5. P(0)
  <2>1. left(0) = events  BY <1>1, SubSeqProperties, SeqEqual
  <2> QED  BY <1>1, <1>3, <2>1 DEF TurnsInv
<1>6. ASSUME NEW k \in 0..n - 1, P(k) PROVE P(k + 1)
  <2> DEFINE d == f[k]
             e == Head(left(k))
             h == Handled(d, e, drains)
  <2>1. k + 1 \in 1..n /\ (k + 1) - 1 = k  BY <1>1
  <2>2. f[k + 1] = h  BY <2>1, <1>3, <1>4
  <2>3. d \in Desk /\ OneCopyEach(d, left(k)) /\ HasAll(d)  BY <1>6
  <2>4. left(k) \in Seq(Events) /\ left(k) # <<>> /\ Tail(left(k)) = left(k + 1)  BY <1>4
  <2>5. e \in Events  BY <2>4, HeadTailProperties
  <2> HIDE DEF left
  <2>6. OneCopyEach(h, left(k + 1))  BY <2>3, <2>4, EventStep
  <2>7. Moves(d, h, e) /\ (~d.runtime => h = d)  BY <2>3, <2>5, HandledMoves
  <2>8. HasAll(h)  BY <2>3, <2>7 DEF HasAll, Moves
  <2> HIDE DEF h
  <2> QED  BY <1>6, <2>2, <2>6, <2>7, <2>8 DEF Moves
<1> HIDE DEF left, P
<1>7. P(n)
  <2> DEFINE K == {k \in 0..n : ~P(k)}
  <2> SUFFICES ASSUME K # {} PROVE FALSE  BY <1>1
  <2>1. K \in SUBSET Nat  BY <1>1
  <2>2. PICK k \in K : \A j \in K : k <= j  BY <2>1, LeastNumber
  <2>3. k # 0  BY <2>2, <1>5
  <2>4. k - 1 \in 0..n - 1 /\ k - 1 \notin K /\ (k - 1) + 1 = k  BY <2>2, <2>3, <1>1
  <2>5. k - 1 \in 0..n  BY <2>4, <1>1
  <2>6. P(k - 1)  BY <2>4, <2>5
  <2>7. P((k - 1) + 1)  BY <2>4, <2>6, <1>6
  <2> QED  BY <2>2, <2>4, <2>7
<1>8. left(n) \in Seq(Events)  BY <1>1, SubSeqProperties DEF left
<1> QED  BY <1>3, <1>7, <1>8 DEF P, left

----------------------------------------------------------------------------
(* A message leaves its place                                              *)

NoCopy(m, box, queue, ps, ib, si, es, n) ==
    /\ m \notin box /\ ~Hits(queue, {m}) /\ ~Prepares(ps, m) /\ ~Hits(ib, Sends(m))
    /\ ~Hits(si, Sends(m)) /\ ~Hits(es, Refusal(m)) /\ n = 0

\* No place but the one it left, which is what is known of m in each use.
LEMMA LeavesComposer ==
    ASSUME NEW m, NEW x, NEW box, NEW queue, NEW ps, NEW ib, NEW si, NEW es, NEW n,
           OneCopy(x, box, queue, ps, ib, si, es, n), m \in box
    PROVE  /\ OneCopy(x, box \ {m}, queue, ps, ib, si, es, n)
           /\ x = m => NoCopy(x, box \ {m}, queue, ps, ib, si, es, n)
BY DEF OneCopy, NoCopy, AtMostOne

LEMMA LeavesQueue ==
    ASSUME NEW x, NEW box, NEW queue \in Seq(Messages), NEW i \in DOMAIN queue, NEW ps, NEW ib,
           NEW si, NEW es, NEW n, OneCopy(x, box, queue, ps, ib, si, es, n)
    PROVE  /\ OneCopy(x, box, RemoveAt(queue, i), ps, ib, si, es, n)
           /\ x = queue[i] => NoCopy(x, box, RemoveAt(queue, i), ps, ib, si, es, n)
<1> DEFINE S == {x}
           q == RemoveAt(queue, i)
<1>1. /\ Hits(q, S) => Hits(queue, S)
      /\ Lone(queue, S) => Lone(q, S) /\ (queue[i] \in S => ~Hits(q, S))
  BY RemoveAtMarks
<1>2. x = queue[i] => queue[i] \in S /\ Hits(queue, S)  BY DEF Hits
<1> HIDE DEF q
<1> QED  BY <1>1, <1>2 DEF OneCopy, NoCopy, AtMostOne, q

LEMMA LeavesHead ==
    ASSUME NEW x, NEW box, NEW queue \in Seq(Messages), queue # <<>>, NEW ps, NEW ib,
           NEW si, NEW es, NEW n, OneCopy(x, box, queue, ps, ib, si, es, n)
    PROVE  /\ OneCopy(x, box, Tail(queue), ps, ib, si, es, n)
           /\ x = Head(queue) => NoCopy(x, box, Tail(queue), ps, ib, si, es, n)
<1> DEFINE S == {x}
<1>1. /\ Hits(queue, S) <=> Head(queue) \in S \/ Hits(Tail(queue), S)
      /\ Lone(queue, S) => Lone(Tail(queue), S) /\ ~(Head(queue) \in S /\ Hits(Tail(queue), S))
  BY TailMarks
<1> QED  BY <1>1 DEF OneCopy, NoCopy, AtMostOne

\* What d still has when its queue is q.
WithQueue(d, q) == [d EXCEPT !.queue = q]

LEMMA DeskWithout ==
    ASSUME NEW d \in Desk, NEW q \in Seq(Messages)
    PROVE  LET e == WithQueue(d, q)
           IN /\ e \in Desk /\ e.queue = q /\ e.runtime = d.runtime /\ e.worktree = d.worktree
              /\ e.misread = d.misread /\ e.status = d.status /\ e.turns = d.turns
              /\ e.preparing = d.preparing /\ e.captures = d.captures /\ e.drain = d.drain
              /\ \A x : Has(d, x) => x \in ToSet(d.queue) \ ToSet(q) \/ Has(e, x)
<1> DEFINE e == WithQueue(d, q)
<1>1. e \in Desk  BY DEF Desk, WithQueue
<1>2. /\ e.queue = q /\ e.runtime = d.runtime /\ e.worktree = d.worktree
      /\ e.misread = d.misread /\ e.status = d.status /\ e.turns = d.turns
      /\ e.preparing = d.preparing /\ e.steers = d.steers /\ e.loose = d.loose
      /\ e.dropped = d.dropped /\ e.captures = d.captures /\ e.drain = d.drain
  BY DEF Desk, WithQueue
<1> HIDE DEF e
<1>3. \A x : Has(d, x) => x \in ToSet(d.queue) \ ToSet(q) \/ Has(e, x)  BY <1>2 DEF Has, ShownIn
<1> QED  BY <1>1, <1>2, <1>3 DEF e

----------------------------------------------------------------------------
(* ... and goes to the queue, a preparation or the driver                  *)

\* m goes to one of them from the desk d, and the inbox ib becomes jb.
Goes(d, m, ib, jb) ==
    /\ desk' \in Desk /\ desk'.worktree = d.worktree /\ desk'.runtime = d.runtime
    /\ desk'.misread = d.misread
    /\ \A x \in Messages : Has(d, x) \/ x = m => Has(desk', x)
    /\ \/ /\ desk'.queue = Append(d.queue, m) /\ preparations' = preparations /\ jb = ib
          /\ desk'.preparing = d.preparing /\ desk'.status = d.status /\ desk'.turns = d.turns
       \/ /\ desk'.queue = d.queue /\ jb = ib /\ ~Busy(d)
          /\ preparations' = preparations \cup {Preparation(d, m)}
          /\ desk'.preparing /\ desk'.status = "Connecting" /\ desk'.turns # <<>>
          /\ Last(desk'.turns) = [opener |-> m, folded |-> {}, state |-> "Running",
                                  started |-> FALSE]
       \/ /\ desk'.queue = d.queue /\ preparations' = preparations /\ d.runtime
          /\ jb = Append(ib, [op |-> "steer", message |-> m])

LEMMA EnqueuedGoes ==
    ASSUME NEW d \in Desk, NEW m \in Messages, preparations' = preparations, NEW ib,
           desk' = Enqueued(d, m) \/ desk' = [Enqueued(d, m) EXCEPT !.drain = TRUE]
    PROVE  Goes(d, m, ib, ib)
<1> DEFINE q == Append(d.queue, m)
<1>1. q \in Seq(Messages) /\ ToSet(q) = ToSet(d.queue) \cup {m}  BY QueuedMarks DEF Desk
<1>2. \/ desk' = [d EXCEPT !.queue = q]
      \/ desk' = [d EXCEPT !.queue = q, !.drain = TRUE]
  BY DEF Enqueued
<1> HIDE DEF q
<1>3. desk' \in Desk  BY <1>1, <1>2 DEF Desk
<1>4. /\ desk'.queue = q /\ desk'.runtime = d.runtime /\ desk'.worktree = d.worktree
      /\ desk'.misread = d.misread /\ desk'.status = d.status /\ desk'.turns = d.turns
      /\ desk'.preparing = d.preparing /\ desk'.steers = d.steers /\ desk'.loose = d.loose
      /\ desk'.dropped = d.dropped
  BY <1>2 DEF Desk
<1>5. \A x \in Messages : Has(d, x) \/ x = m => Has(desk', x)  BY <1>1, <1>4 DEF Has, ShownIn
<1> QED  BY <1>3, <1>4, <1>5 DEF Goes, q

LEMMA SubmitGoes ==
    ASSUME NEW d \in Desk, NEW m \in Messages, NEW es, Submit(d, m, es), NEW ib
    PROVE  Goes(d, m, ib, ib)
<1>1. CASE CapturePending(d)
  <2>1. desk' = [Enqueued(d, m) EXCEPT !.drain = TRUE] /\ preparations' = preparations
    BY <1>1 DEF Submit, Submitted, Accepts
  <2> QED  BY <2>1, EnqueuedGoes
<1>2. CASE ~CapturePending(d) /\ Busy(d)
  <2>1. desk' = Enqueued(d, m) /\ preparations' = preparations
    BY <1>2 DEF Submit, Submitted, Accepts
  <2> QED  BY <2>1, EnqueuedGoes
<1>3. CASE ~CapturePending(d) /\ ~Busy(d)
  <2> DEFINE e == Begin(d, m)
  <2>1. /\ desk' = [e EXCEPT !.status = "Connecting", !.preparing = TRUE]
        /\ preparations' = preparations \cup {Preparation(d, m)}
    BY <1>3 DEF Submit, Submitted, Accepts
  <2>2. /\ Keeps(d, e) /\ ShownIn(e, m) /\ e.turns # <<>>
        /\ Last(e.turns) = [opener |-> m, folded |-> {}, state |-> "Running", started |-> FALSE]
    BY BeginKeeps
  <2>3. e \in Desk  BY <2>2 DEF Keeps, ShowsOn
  <2> HIDE DEF e
  <2>4. desk' \in Desk  BY <2>1, <2>3 DEF Desk, Statuses
  <2>5. /\ desk'.queue = e.queue /\ desk'.runtime = e.runtime /\ desk'.worktree = e.worktree
        /\ desk'.misread = e.misread /\ desk'.status = "Connecting" /\ desk'.turns = e.turns
        /\ desk'.preparing = TRUE /\ desk'.steers = e.steers /\ desk'.loose = e.loose
        /\ desk'.dropped = e.dropped
    BY <2>1, <2>3 DEF Desk
  <2>6. \A x : ShownIn(e, x) => ShownIn(desk', x)  BY <2>5 DEF ShownIn
  <2>7. \A x \in Messages : Has(d, x) \/ x = m => Has(desk', x)
    BY <2>2, <2>5, <2>6 DEF Has, Keeps, ShowsOn
  <2> QED  BY <1>3, <2>1, <2>2, <2>4, <2>5, <2>7 DEF Goes, Keeps, ShowsOn
<1> QED  BY <1>1, <1>2, <1>3

LEMMA SteerGoes ==
    ASSUME NEW d \in Desk, NEW m \in Messages, SteerMessage(d, m)
    PROVE  Goes(d, m, inbox, inbox')
<1>1. CASE ~Busy(d)  BY <1>1, SubmitGoes DEF SteerMessage
<1>2. CASE Busy(d) /\ ~CanSteer(d)  BY <1>2, EnqueuedGoes DEF SteerMessage
<1>3. CASE Busy(d) /\ CanSteer(d)
  <2> DEFINE q == Append(d.steers, m)
  <2>1. q \in Seq(Messages) /\ ToSet(q) = ToSet(d.steers) \cup {m}  BY QueuedMarks DEF Desk
  <2>2. /\ desk' = [d EXCEPT !.steers = q] /\ preparations' = preparations
        /\ inbox' = Append(inbox, [op |-> "steer", message |-> m]) /\ d.runtime
    BY <1>3 DEF SteerMessage, CanSteer
  <2> HIDE DEF q
  <2>3. desk' \in Desk  BY <2>1, <2>2 DEF Desk
  <2>4. /\ desk'.queue = d.queue /\ desk'.runtime = d.runtime /\ desk'.worktree = d.worktree
        /\ desk'.misread = d.misread /\ desk'.turns = d.turns
        /\ desk'.steers = q /\ desk'.loose = d.loose /\ desk'.dropped = d.dropped
    BY <2>2 DEF Desk
  <2>5. \A x \in Messages : Has(d, x) \/ x = m => Has(desk', x)  BY <2>1, <2>4 DEF Has, ShownIn
  <2> QED  BY <2>2, <2>3, <2>4, <2>5 DEF Goes
<1> QED  BY <1>1, <1>2, <1>3

\* Where the message goes it is the only copy.
LEMMA GoesOnce ==
    ASSUME NEW d \in Desk, NEW m \in Messages, NEW ib \in Seq(Commands), NEW jb, Goes(d, m, ib, jb),
           NEW x, NEW box, NEW si, NEW es, NEW n,
           OneCopy(x, box, d.queue, preparations, ib, si, es, n),
           x = m => NoCopy(x, box, d.queue, preparations, ib, si, es, n)
    PROVE  OneCopy(x, box, desk'.queue, preparations', jb, si, es, n)
<1>1. CASE desk'.queue = Append(d.queue, m) /\ preparations' = preparations /\ jb = ib
  <2>1. /\ Hits(Append(d.queue, m), {x}) <=> Hits(d.queue, {x}) \/ x = m
        /\ Lone(d.queue, {x}) /\ ~(x = m /\ Hits(d.queue, {x})) => Lone(Append(d.queue, m), {x})
    BY QueuedMarks DEF Desk
  <2> QED  BY <1>1, <2>1 DEF OneCopy, NoCopy, AtMostOne
<1>2. CASE /\ desk'.queue = d.queue /\ jb = ib
           /\ preparations' = preparations \cup {Preparation(d, m)}
  <2>1. Preparation(d, m).message = m  BY DEF Preparation
  <2>2. Prepares(preparations', x) <=> Prepares(preparations, x) \/ x = m
    BY <1>2, <2>1 DEF Prepares
  <2>3. \A p, r \in preparations' : p.message = x /\ r.message = x => p = r
    BY <1>2, <2>1 DEF OneCopy, NoCopy, Prepares
  <2> QED  BY <1>2, <2>2, <2>3 DEF OneCopy, NoCopy, AtMostOne
<1>3. CASE /\ desk'.queue = d.queue /\ preparations' = preparations
           /\ jb = Append(ib, [op |-> "steer", message |-> m])
  <2> DEFINE c == [op |-> "steer", message |-> m]
  <2>1. c \in Commands /\ (c \in Sends(x) <=> x = m)  BY DEF Commands, Sends
  <2>2. /\ Hits(jb, Sends(x)) <=> Hits(ib, Sends(x)) \/ c \in Sends(x)
        /\ Lone(ib, Sends(x)) /\ ~(c \in Sends(x) /\ Hits(ib, Sends(x))) => Lone(jb, Sends(x))
    BY <1>3, <2>1, AppendMarks
  <2> HIDE DEF c
  <2> QED  BY <1>3, <2>1, <2>2 DEF OneCopy, NoCopy, AtMostOne
<1> QED  BY <1>1, <1>2, <1>3 DEF Goes

LEMMA GoesType ==
    ASSUME NEW d \in Desk, NEW m \in Messages, NEW ib \in Seq(Commands), NEW jb, Goes(d, m, ib, jb),
           preparations \subseteq [message : Messages, starts : BOOLEAN], Fresh(d, preparations)
    PROVE  /\ desk' \in Desk /\ jb \in Seq(Commands) /\ Fresh(desk', preparations')
           /\ preparations' \subseteq [message : Messages, starts : BOOLEAN]
<1>1. Preparation(d, m) \in [message : Messages, starts : BOOLEAN]  BY DEF Preparation
<1>2. [op |-> "steer", message |-> m] \in Commands  BY DEF Commands
<1>3. jb \in Seq(Commands)  BY <1>2, AppendMarks DEF Goes
<1>4. ASSUME ~d.worktree, NEW p \in preparations PROVE Busy(d)
  BY <1>4 DEF Fresh, Busy
<1>5. Fresh(desk', preparations')
  <2> SUFFICES ASSUME ~d.worktree PROVE Fresh(desk', preparations')
    BY DEF Goes, Fresh
  <2>1. CASE /\ preparations' = preparations /\ desk'.preparing = d.preparing
             /\ desk'.status = d.status /\ desk'.turns = d.turns
    BY <2>1 DEF Goes, Fresh
  <2>2. CASE /\ ~Busy(d) /\ preparations' = preparations \cup {Preparation(d, m)}
             /\ desk'.preparing /\ desk'.status = "Connecting" /\ desk'.turns # <<>>
             /\ Last(desk'.turns) = [opener |-> m, folded |-> {}, state |-> "Running",
                                     started |-> FALSE]
    <3>1. preparations' = {Preparation(d, m)}  BY <1>4, <2>2
    <3>2. Preparation(d, m).starts /\ Preparation(d, m).message = m  BY DEF Preparation, Fresh
    <3>3. ~desk'.runtime  BY DEF Goes, Fresh
    <3> QED  BY <2>2, <3>1, <3>2, <3>3 DEF Fresh
  <2>3. CASE d.runtime  BY <2>3 DEF Fresh
  <2> QED  BY <2>1, <2>2, <2>3 DEF Goes
<1> QED  BY <1>1, <1>3, <1>5 DEF Goes

----------------------------------------------------------------------------
(* The steps of the user                                                   *)

\* The types in the forms in which they are used.
LEMMA Types ==
    ASSUME TypeOK
    PROVE  /\ desk \in Desk /\ desk.queue \in Seq(Messages) /\ composer \subseteq Messages
           /\ preparations \subseteq [message : Messages, starts : BOOLEAN]
           /\ inbox \in Seq(Commands) /\ stdin \in Seq(Commands) /\ events \in Seq(Events)
           /\ driver \in [active : BOOLEAN, parked : BOOLEAN, writing : BOOLEAN]
           /\ cli \in [alive : BOOLEAN, running : BOOLEAN, spoke : BOOLEAN, interrupted : BOOLEAN,
                       serving : SUBSET Messages, tasks : BOOLEAN, exited : BOOLEAN]
           /\ cli.spoke => cli.running
           /\ incidents \subseteq {"stop", "detach", "crash", "failure"}
           /\ delivered \in [Messages -> Nat] /\ answered \subseteq Messages
           /\ discarded \subseteq Messages /\ mislaid \subseteq Messages
           /\ mixed \in BOOLEAN /\ swallowed \in BOOLEAN
BY DEF TypeOK, Desk

\* A step of the user leaves driver and process alone.
LEMMA UserType ==
    ASSUME TypeOK, desk' \in Desk, composer' \subseteq Messages, inbox' \in Seq(Commands),
           preparations' \subseteq [message : Messages, starts : BOOLEAN],
           discarded' \subseteq Messages, mislaid' \subseteq Messages, mixed' \in BOOLEAN,
           UNCHANGED <<events, driver, stdin, cli, incidents, delivered, answered, swallowed>>
    PROVE  TypeOK'
BY DEF TypeOK

LEMMA SubmitMixes == ASSUME NEW d, NEW m, NEW es, Submit(d, m, es) PROVE mixed' \in BOOLEAN
BY DEF Submit

LEMMA SteerMixes ==
    ASSUME NEW d, NEW m, SteerMessage(d, m), mixed \in BOOLEAN PROVE mixed' \in BOOLEAN
BY SubmitMixes DEF SteerMessage

\* A message leaves the composer.
LEMMA ComposerKeeps ==
    ASSUME TurnsInv, NEW m \in composer, composer' = composer \ {m},
           Goes(desk, m, inbox, inbox'), mixed' \in BOOLEAN,
           UNCHANGED <<events, driver, stdin, cli, incidents, delivered, answered, discarded, mislaid,
                       swallowed>>
    PROVE  TurnsInv'
<1>1. TypeOK /\ OneCopyEach(desk, events) /\ HasAll(desk) /\ Fresh(desk, preparations)
  BY DEF TurnsInv
<1>2. /\ desk \in Desk /\ composer \subseteq Messages /\ inbox \in Seq(Commands) /\ m \in Messages
      /\ preparations \subseteq [message : Messages, starts : BOOLEAN] /\ discarded \subseteq Messages
      /\ mislaid \subseteq Messages
  BY <1>1, Types
<1>3. /\ desk' \in Desk /\ inbox' \in Seq(Commands) /\ Fresh(desk', preparations')
      /\ preparations' \subseteq [message : Messages, starts : BOOLEAN]
  BY <1>1, <1>2, GoesType
<1>4. TypeOK'  BY <1>1, <1>2, <1>3, UserType
<1>5. OneCopyEach(desk, events)'
  <2> SUFFICES ASSUME NEW x \in Messages \ desk'.misread
               PROVE  OneCopy(x, composer', desk'.queue, preparations', inbox', stdin', events',
                              delivered'[x])
    BY DEF OneCopyEach
  <2>1. OneCopy(x, composer, desk.queue, preparations, inbox, stdin, events, delivered[x])
    BY <1>1 DEF OneCopyEach, Goes
  <2>2. /\ OneCopy(x, composer', desk.queue, preparations, inbox, stdin, events, delivered[x])
        /\ x = m => NoCopy(x, composer', desk.queue, preparations, inbox, stdin, events, delivered[x])
    BY <2>1, LeavesComposer
  <2>3. OneCopy(x, composer', desk'.queue, preparations', inbox', stdin, events, delivered[x])
    BY <2>2, <1>2, GoesOnce
  <2> QED  BY <2>3
<1>6. HasAll(desk)'  BY <1>1 DEF HasAll, Goes
<1> QED  BY <1>3, <1>4, <1>5, <1>6 DEF TurnsInv

LEMMA SendKeeps == ASSUME TurnsInv, NEW m \in Messages, Send(m) PROVE TurnsInv'
<1>1. desk \in Desk /\ mixed \in BOOLEAN  BY Types DEF TurnsInv
<1>2. Goes(desk, m, inbox, inbox') /\ mixed' \in BOOLEAN
  <2>1. CASE desk.status = "Background"
    <3>1. SteerMessage(desk, m)  BY <2>1 DEF Send
    <3> QED  BY <3>1, <1>1, SteerGoes, SteerMixes
  <2>2. CASE desk.status # "Background" /\ Busy(desk)
    <3>1. desk' = Enqueued(desk, m) /\ UNCHANGED <<preparations, inbox, mixed>>  BY <2>2 DEF Send
    <3> QED  BY <3>1, <1>1, EnqueuedGoes
  <2>3. CASE desk.status # "Background" /\ ~Busy(desk)
    <3>1. Submit(desk, m, events) /\ inbox' = inbox  BY <2>3 DEF Send
    <3> QED  BY <3>1, <1>1, SubmitGoes, SubmitMixes
  <2> QED  BY <2>1, <2>2, <2>3
<1> QED  BY <1>2, ComposerKeeps DEF Send

LEMMA SteerKeeps == ASSUME TurnsInv, NEW m \in Messages, Steer(m) PROVE TurnsInv'
<1>1. desk \in Desk /\ mixed \in BOOLEAN  BY Types DEF TurnsInv
<1>2. Goes(desk, m, inbox, inbox') /\ mixed' \in BOOLEAN
  BY <1>1, SteerGoes, SteerMixes DEF Steer
<1> QED  BY <1>2, ComposerKeeps DEF Steer

\* What is left when the user takes an entry of the queue.
LEMMA UnqueuedKeeps ==
    ASSUME TurnsInv, NEW i \in DOMAIN desk.queue
    PROVE  LET d == Unqueued(i)
               m == desk.queue[i]
           IN /\ m \in Messages /\ d \in Desk /\ d.misread = desk.misread
              /\ Fresh(d, preparations)
              /\ \A x : Has(desk, x) => x = m \/ Has(d, x)
              /\ \A x \in Messages \ d.misread :
                    /\ OneCopy(x, composer, d.queue, preparations, inbox, stdin, events, delivered[x])
                    /\ x = m => NoCopy(x, composer, d.queue, preparations, inbox, stdin, events,
                                       delivered[x])
<1> DEFINE d == Unqueued(i)
           m == desk.queue[i]
           q == RemoveAt(desk.queue, i)
<1>1. OneCopyEach(desk, events) /\ Fresh(desk, preparations) /\ desk \in Desk
      /\ desk.queue \in Seq(Messages)
  BY Types DEF TurnsInv
<1>2. m \in Messages  BY <1>1, ElementOfSeq, LenProperties
<1>3. /\ q \in Seq(Messages)
      /\ \A k \in DOMAIN desk.queue : k = i \/ \E j \in DOMAIN q : q[j] = desk.queue[k]
  BY <1>1, RemoveAtMarks
<1>4. \A x \in ToSet(desk.queue) : x = m \/ x \in ToSet(q)  BY <1>3 DEF ToSet
<1>5. d = WithQueue(desk, q)  BY DEF Unqueued, WithQueue
<1> HIDE DEF d
<1>6. /\ d \in Desk /\ d.queue = q /\ d.runtime = desk.runtime /\ d.worktree = desk.worktree
      /\ d.misread = desk.misread /\ d.status = desk.status /\ d.turns = desk.turns
      /\ d.preparing = desk.preparing
      /\ \A x : Has(desk, x) => x = m \/ Has(d, x)
  BY <1>1, <1>3, <1>4, <1>5, DeskWithout
<1>7. Fresh(d, preparations)  BY <1>1, <1>6 DEF Fresh
<1>8. ASSUME NEW x \in Messages \ d.misread
      PROVE  /\ OneCopy(x, composer, d.queue, preparations, inbox, stdin, events, delivered[x])
             /\ x = m => NoCopy(x, composer, d.queue, preparations, inbox, stdin, events,
                                delivered[x])
  <2>1. OneCopy(x, composer, desk.queue, preparations, inbox, stdin, events, delivered[x])
    BY <1>1, <1>6 DEF OneCopyEach
  <2>2. /\ OneCopy(x, composer, q, preparations, inbox, stdin, events, delivered[x])
        /\ x = m => NoCopy(x, composer, q, preparations, inbox, stdin, events, delivered[x])
    BY <2>1, <1>1, LeavesQueue
  <2> QED  BY <2>2, <1>6
<1> QED  BY <1>2, <1>6, <1>7, <1>8 DEF d

LEMMA SteerQueuedKeeps == ASSUME TurnsInv, NEW i \in DOMAIN desk.queue, SteerQueued(i) PROVE TurnsInv'
<1> DEFINE d == Unqueued(i)
           m == desk.queue[i]
<1>1. /\ m \in Messages /\ d \in Desk /\ d.misread = desk.misread /\ Fresh(d, preparations)
      /\ \A x : Has(desk, x) => x = m \/ Has(d, x)
      /\ \A x \in Messages \ d.misread :
            /\ OneCopy(x, composer, d.queue, preparations, inbox, stdin, events, delivered[x])
            /\ x = m => NoCopy(x, composer, d.queue, preparations, inbox, stdin, events, delivered[x])
  BY UnqueuedKeeps
<1>2. /\ SteerMessage(d, m)
      /\ UNCHANGED <<composer, events, driver, stdin, cli, incidents, delivered, answered, discarded,
                     mislaid,
                     swallowed>>
  BY DEF SteerQueued
<1>3. /\ TypeOK /\ HasAll(desk) /\ composer \subseteq Messages /\ inbox \in Seq(Commands)
      /\ preparations \subseteq [message : Messages, starts : BOOLEAN] /\ discarded \subseteq Messages
      /\ mislaid \subseteq Messages /\ mixed \in BOOLEAN
  BY Types DEF TurnsInv
<1> HIDE DEF d, m
<1>4. Goes(d, m, inbox, inbox') /\ mixed' \in BOOLEAN  BY <1>1, <1>2, <1>3, SteerGoes, SteerMixes
<1>5. /\ desk' \in Desk /\ inbox' \in Seq(Commands) /\ Fresh(desk', preparations')
      /\ preparations' \subseteq [message : Messages, starts : BOOLEAN]
  BY <1>1, <1>3, <1>4, GoesType
<1>6. TypeOK'  BY <1>2, <1>3, <1>4, <1>5, UserType
<1>7. OneCopyEach(desk, events)'
  <2> SUFFICES ASSUME NEW x \in Messages \ desk'.misread
               PROVE  OneCopy(x, composer, desk'.queue, preparations', inbox', stdin, events,
                              delivered[x])
    BY <1>2 DEF OneCopyEach
  <2>1. /\ OneCopy(x, composer, d.queue, preparations, inbox, stdin, events, delivered[x])
        /\ x = m => NoCopy(x, composer, d.queue, preparations, inbox, stdin, events, delivered[x])
    BY <1>1, <1>4 DEF Goes
  <2> QED  BY <2>1, <1>1, <1>3, <1>4, GoesOnce
<1>8. HasAll(desk)'  BY <1>1, <1>2, <1>3, <1>4 DEF HasAll, Goes
<1> QED  BY <1>5, <1>6, <1>7, <1>8 DEF TurnsInv

\* A message that comes back to the composer, and the draft it replaces, are there
\* or mislaid.
LEMMA RestoredMoves ==
    ASSUME NEW m, Restored(m)
    PROVE  /\ composer' \subseteq composer \cup {m} /\ mislaid' \subseteq mislaid \cup composer
           /\ composer \cup mislaid \cup {m} \subseteq composer' \cup mislaid'
BY DEF Restored

LEMMA EditKeeps == ASSUME TurnsInv, NEW i \in DOMAIN desk.queue, EditQueued(i) PROVE TurnsInv'
<1> DEFINE d == Unqueued(i)
           m == desk.queue[i]
<1>1. /\ m \in Messages /\ d \in Desk /\ d.misread = desk.misread /\ Fresh(d, preparations)
      /\ \A x : Has(desk, x) => x = m \/ Has(d, x)
      /\ \A x \in Messages \ d.misread :
            /\ OneCopy(x, composer, d.queue, preparations, inbox, stdin, events, delivered[x])
            /\ x = m => NoCopy(x, composer, d.queue, preparations, inbox, stdin, events, delivered[x])
  BY UnqueuedKeeps
<1>2. /\ desk' = d
      /\ UNCHANGED <<preparations, inbox, events, driver, stdin, cli, incidents, delivered, answered,
                     discarded, mixed, swallowed>>
  BY DEF EditQueued, driverVars, history
<1>0. /\ composer' \subseteq composer \cup {m} /\ mislaid' \subseteq mislaid \cup composer
      /\ composer \cup mislaid \cup {m} \subseteq composer' \cup mislaid'
  BY RestoredMoves DEF EditQueued
<1>3. /\ TypeOK /\ HasAll(desk) /\ composer \subseteq Messages /\ inbox \in Seq(Commands)
      /\ preparations \subseteq [message : Messages, starts : BOOLEAN] /\ discarded \subseteq Messages
      /\ mislaid \subseteq Messages /\ mixed \in BOOLEAN
  BY Types DEF TurnsInv
<1> HIDE DEF d, m
<1>4. TypeOK'  BY <1>0, <1>1, <1>2, <1>3, UserType
<1>5. OneCopyEach(desk, events)'
  <2> SUFFICES ASSUME NEW x \in Messages \ d.misread
               PROVE  OneCopy(x, composer', d.queue, preparations, inbox, stdin, events, delivered[x])
    BY <1>2 DEF OneCopyEach
  <2> QED  BY <1>0, <1>1, <1>2 DEF OneCopy, NoCopy, AtMostOne
<1>6. HasAll(desk)'  BY <1>0, <1>1, <1>2, <1>3 DEF HasAll
<1> QED  BY <1>1, <1>2, <1>4, <1>5, <1>6 DEF TurnsInv

LEMMA RemoveKeeps == ASSUME TurnsInv, NEW i \in DOMAIN desk.queue, RemoveQueued(i) PROVE TurnsInv'
<1> DEFINE d == Unqueued(i)
           m == desk.queue[i]
<1>1. /\ m \in Messages /\ d \in Desk /\ Fresh(d, preparations)
      /\ \A x : Has(desk, x) => x = m \/ Has(d, x)
      /\ \A x \in Messages \ d.misread :
             OneCopy(x, composer, d.queue, preparations, inbox, stdin, events, delivered[x])
  BY UnqueuedKeeps
<1>2. /\ desk' = d /\ discarded' = discarded \cup {m}
      /\ UNCHANGED <<composer, mislaid, preparations, inbox, events, driver, stdin, cli, incidents,
                     delivered, answered, mixed, swallowed>>
  BY DEF RemoveQueued, driverVars
<1>3. /\ TypeOK /\ HasAll(desk) /\ composer \subseteq Messages /\ inbox \in Seq(Commands)
      /\ preparations \subseteq [message : Messages, starts : BOOLEAN] /\ discarded \subseteq Messages
      /\ mislaid \subseteq Messages /\ mixed \in BOOLEAN
  BY Types DEF TurnsInv
<1> HIDE DEF d, m
<1>4. TypeOK'  BY <1>1, <1>2, <1>3, UserType
<1>5. OneCopyEach(desk, events)'  BY <1>1, <1>2 DEF OneCopyEach
<1>6. HasAll(desk)'  BY <1>1, <1>2, <1>3 DEF HasAll
<1> QED  BY <1>1, <1>2, <1>4, <1>5, <1>6 DEF TurnsInv

----------------------------------------------------------------------------
(* The steps of the client                                                 *)

LEMMA ClosedOnce ==
    ASSUME NEW x, NEW box, NEW queue, NEW ps, NEW ib, NEW si, NEW es, NEW n,
           OneCopy(x, box, queue, ps, ib, si, es, n)
    PROVE  OneCopy(x, box, queue, ps, <<>>, <<>>, <<>>, n)
BY EmptyMarks DEF OneCopy, AtMostOne

LEMMA ClosedType ==
    ASSUME Closed
    PROVE  /\ inbox' = <<>> /\ events' = <<>> /\ stdin' = <<>>
           /\ inbox' \in Seq(Commands) /\ stdin' \in Seq(Commands) /\ events' \in Seq(Events)
           /\ driver' \in [active : BOOLEAN, parked : BOOLEAN, writing : BOOLEAN]
           /\ cli' \in [alive : BOOLEAN, running : BOOLEAN, spoke : BOOLEAN, interrupted : BOOLEAN,
                        serving : SUBSET Messages, tasks : BOOLEAN, exited : BOOLEAN]
           /\ cli'.spoke => cli'.running
<1>1. <<>> \in Seq(Commands) /\ <<>> \in Seq(Events)  BY EmptySeq
<1> QED  BY <1>1 DEF Closed, NewDriver, NewCli

\* The head of the queue of d is submitted.
LEMMA DrainKeeps ==
    ASSUME NEW d \in Desk, d.queue # <<>>, NEW rest,
           Submit([d EXCEPT !.queue = Tail(@)], Head(d.queue), rest), Fresh(d, preparations),
           preparations \subseteq [message : Messages, starts : BOOLEAN], NEW ib \in Seq(Commands)
    PROVE  /\ desk' \in Desk /\ desk'.misread = d.misread /\ Fresh(desk', preparations')
           /\ preparations' \subseteq [message : Messages, starts : BOOLEAN] /\ mixed' \in BOOLEAN
           /\ \A x \in Messages : Has(d, x) => Has(desk', x)
           /\ \A x, box, si, es, n : OneCopy(x, box, d.queue, preparations, ib, si, es, n) =>
                                         OneCopy(x, box, desk'.queue, preparations', ib, si, es, n)
<1> DEFINE q == Tail(d.queue)
           m == Head(d.queue)
           e == WithQueue(d, q)
<1>1. d.queue \in Seq(Messages)  BY DEF Desk
<1>2. /\ q \in Seq(Messages) /\ m \in Messages
      /\ \A x : Hits(d.queue, {x}) <=> m \in {x} \/ Hits(q, {x})
  BY <1>1, TailMarks
<1>3. \A x \in ToSet(d.queue) : x = m \/ x \in ToSet(q)  BY <1>2 DEF ToSet, Hits
<1> HIDE DEF q, m
<1>4. /\ e \in Desk /\ e.queue = q /\ e.runtime = d.runtime /\ e.worktree = d.worktree
      /\ e.misread = d.misread /\ e.status = d.status /\ e.turns = d.turns
      /\ e.preparing = d.preparing
      /\ \A x : Has(d, x) => x = m \/ Has(e, x)
  BY <1>2, <1>3, DeskWithout
<1>5. Submit(e, m, rest)  BY DEF e, q, m, WithQueue
<1> HIDE DEF e
<1>6. Goes(e, m, ib, ib) /\ mixed' \in BOOLEAN  BY <1>2, <1>4, <1>5, SubmitGoes, SubmitMixes
<1>7. Fresh(e, preparations)  BY <1>4 DEF Fresh
<1>8. /\ desk' \in Desk /\ Fresh(desk', preparations')
      /\ preparations' \subseteq [message : Messages, starts : BOOLEAN]
  BY <1>2, <1>4, <1>6, <1>7, GoesType
<1>9. \A x \in Messages : Has(d, x) => Has(desk', x)  BY <1>4, <1>6 DEF Goes
<1>10. ASSUME NEW x, NEW box, NEW si, NEW es, NEW n,
              OneCopy(x, box, d.queue, preparations, ib, si, es, n)
       PROVE  OneCopy(x, box, desk'.queue, preparations', ib, si, es, n)
  <2>1. /\ OneCopy(x, box, q, preparations, ib, si, es, n)
        /\ x = m => NoCopy(x, box, q, preparations, ib, si, es, n)
    BY <1>1, <1>10, LeavesHead DEF q, m
  <2> QED  BY <2>1, <1>2, <1>4, <1>6, GoesOnce
<1> QED  BY <1>4, <1>6, <1>8, <1>9, <1>10 DEF Goes

LEMMA PumpKeeps == ASSUME TurnsInv, Pump PROVE TurnsInv'
<1>1. PICK n \in 1..Len(events) :
        LET d == HandledAll(desk, SubSeq(events, 1, n), TRUE)
            ready == d.drain /\ ~CapturePending(d)
            undrained == [d EXCEPT !.drain = @ /\ ~ready]
            rest == SubSeq(events, n + 1, Len(events))
        IN /\ IF ready /\ Drains(d)
              THEN Submit([undrained EXCEPT !.queue = Tail(@)], Head(d.queue), rest)
              ELSE desk' = undrained /\ UNCHANGED <<preparations, mixed>>
           /\ IF d.runtime THEN events' = rest /\ UNCHANGED <<inbox, stdin, driver, cli>>
              ELSE Closed
           /\ UNCHANGED <<composer, incidents, delivered, answered, discarded, mislaid, swallowed>>
  BY DEF Pump
<1> DEFINE d == HandledAll(desk, SubSeq(events, 1, n), TRUE)
           rest == SubSeq(events, n + 1, Len(events))
           ready == d.drain /\ ~CapturePending(d)
           b == d.drain /\ ~ready
           u == WithDrain(d, b)
<1>2. /\ TypeOK /\ Fresh(desk, preparations) /\ composer \subseteq Messages
      /\ inbox \in Seq(Commands) /\ stdin \in Seq(Commands) /\ mixed \in BOOLEAN
      /\ preparations \subseteq [message : Messages, starts : BOOLEAN]
      /\ events \in Seq(Events)
  BY Types DEF TurnsInv
<1>3. n \in 0..Len(events)  BY <1>2, LenProperties
<1>4. /\ d \in Desk /\ rest \in Seq(Events) /\ OneCopyEach(d, rest) /\ HasAll(d)
      /\ d.worktree = desk.worktree /\ d.preparing = desk.preparing /\ (~desk.runtime => d = desk)
  BY <1>3, HandledAllKeeps
<1>5. Fresh(d, preparations)  BY <1>2, <1>4 DEF Fresh
<1>6. /\ IF ready /\ Drains(d) THEN Submit([u EXCEPT !.queue = Tail(@)], Head(d.queue), rest)
         ELSE desk' = u /\ UNCHANGED <<preparations, mixed>>
      /\ IF d.runtime THEN events' = rest /\ UNCHANGED <<inbox, stdin, driver, cli>> ELSE Closed
      /\ UNCHANGED <<composer, incidents, delivered, answered, discarded, mislaid, swallowed>>
  BY <1>1 DEF WithDrain
<1>7. b \in BOOLEAN /\ (ready /\ Drains(d) => d.queue # <<>>)  BY DEF Drains
<1> HIDE DEF d, rest, ready, b
<1>8. Keeps(d, u) /\ u \in Desk /\ u.queue = d.queue /\ u.misread = d.misread
      /\ u.runtime = d.runtime /\ u.worktree = d.worktree /\ u.status = d.status
      /\ u.turns = d.turns /\ u.preparing = d.preparing
  <2>1. Keeps(d, u) /\ u.status = d.status /\ u.turns = d.turns
    BY <1>4, <1>7, DrainFlagKeeps
  <2> QED  BY <2>1 DEF Keeps, ShowsOn
<1>9. Fresh(u, preparations)  BY <1>5, <1>8 DEF Fresh
<1>10. \A x \in Messages : Has(d, x) => Has(u, x)  BY <1>8 DEF Has, Keeps, ShowsOn
<1> HIDE DEF u
<1>11. /\ inbox' \in Seq(Commands) /\ stdin' \in Seq(Commands) /\ events' \in Seq(Events)
       /\ driver' \in [active : BOOLEAN, parked : BOOLEAN, writing : BOOLEAN]
       /\ cli' \in [alive : BOOLEAN, running : BOOLEAN, spoke : BOOLEAN, interrupted : BOOLEAN,
                    serving : SUBSET Messages, tasks : BOOLEAN, exited : BOOLEAN]
       /\ cli'.spoke => cli'.running
  BY <1>2, <1>4, <1>6, ClosedType, Types
<1>12. ASSUME NEW x \in Messages \ d.misread
       PROVE  OneCopy(x, composer, d.queue, preparations, inbox', stdin', events', delivered[x])
  <2>1. OneCopy(x, composer, d.queue, preparations, inbox, stdin, rest, delivered[x])
    BY <1>4 DEF OneCopyEach
  <2>2. CASE d.runtime  BY <2>1, <2>2, <1>6
  <2>3. CASE ~d.runtime
    <3>1. inbox' = <<>> /\ stdin' = <<>> /\ events' = <<>>  BY <2>3, <1>6, ClosedType
    <3> QED  BY <2>1, <3>1, ClosedOnce
  <2> QED  BY <2>2, <2>3
<1>13. /\ desk' \in Desk /\ desk'.misread = d.misread /\ Fresh(desk', preparations')
       /\ preparations' \subseteq [message : Messages, starts : BOOLEAN] /\ mixed' \in BOOLEAN
       /\ \A x \in Messages : Has(u, x) => Has(desk', x)
       /\ \A x, box, si, es, k : OneCopy(x, box, d.queue, preparations, inbox', si, es, k) =>
                                     OneCopy(x, box, desk'.queue, preparations', inbox', si, es, k)
  <2>1. CASE ready /\ Drains(d)
    <3>1. u.queue # <<>> /\ Submit([u EXCEPT !.queue = Tail(@)], Head(u.queue), rest)
      BY <2>1, <1>6, <1>7, <1>8
    <3> QED  BY <3>1, <1>2, <1>8, <1>9, <1>11, DrainKeeps
  <2>2. CASE ~(ready /\ Drains(d))
    <3>1. desk' = u /\ preparations' = preparations /\ mixed' = mixed  BY <2>2, <1>6
    <3> QED  BY <3>1, <1>2, <1>8, <1>9
  <2> QED  BY <2>1, <2>2
<1>14. TypeOK'  BY <1>2, <1>6, <1>11, <1>13 DEF TypeOK
<1>15. OneCopyEach(desk, events)'  BY <1>6, <1>12, <1>13 DEF OneCopyEach
<1>16. HasAll(desk)'  BY <1>4, <1>6, <1>10, <1>13 DEF HasAll
<1> QED  BY <1>13, <1>14, <1>15, <1>16 DEF TurnsInv

LEMMA EndCaptureKeeps ==
    ASSUME TurnsInv, NEW count \in desk.captures, EndCapture(count) PROVE TurnsInv'
<1> DEFINE c == desk.captures \ {count}
           d == [desk EXCEPT !.captures = c, !.drain = FALSE]
           e == WithCaptures(desk, c)
           drains == desk.drain /\ Drains(d)
<1>1. /\ TypeOK /\ Fresh(desk, preparations) /\ OneCopyEach(desk, events) /\ HasAll(desk)
      /\ composer \subseteq Messages /\ inbox \in Seq(Commands) /\ mixed \in BOOLEAN
      /\ preparations \subseteq [message : Messages, starts : BOOLEAN] /\ desk \in Desk
      /\ c \in SUBSET Nat
  BY Types DEF TurnsInv, Desk
<1>2. /\ IF drains THEN Submit([d EXCEPT !.queue = Tail(@)], Head(d.queue), events)
         ELSE desk' = d /\ UNCHANGED <<preparations, mixed>>
      /\ swallowed' = (swallowed \/ (desk.drain /\ CapturePending(d)))
      /\ UNCHANGED <<composer, inbox, events, driver, stdin, cli, incidents, delivered, answered,
                     discarded, mislaid>>
  BY DEF EndCapture, driverVars
<1>3. swallowed' \in BOOLEAN /\ (drains => d.queue # <<>>)  BY <1>2 DEF Drains
<1> HIDE DEF c
<1>4. Keeps(desk, e) /\ e.status = desk.status /\ e.turns = desk.turns  BY <1>1, CapturesKeep
<1>5. d = WithDrain(e, FALSE)  BY DEF WithDrain, WithCaptures
<1> HIDE DEF d, e
<1>6. e \in Desk  BY <1>4 DEF Keeps, ShowsOn
<1>7. Keeps(e, d) /\ d.status = e.status /\ d.turns = e.turns  BY <1>5, <1>6, DrainFlagKeeps
<1>8. Keeps(desk, d) /\ d.status = desk.status /\ d.turns = desk.turns  BY <1>4, <1>7, KeepsTrans
<1>9. /\ d \in Desk /\ d.queue = desk.queue /\ d.misread = desk.misread /\ d.runtime = desk.runtime
      /\ d.worktree = desk.worktree /\ d.preparing = desk.preparing
      /\ \A x \in Messages : Has(desk, x) => Has(d, x)
  BY <1>8 DEF Keeps, ShowsOn, Has
<1>10. Fresh(d, preparations)  BY <1>1, <1>8, <1>9 DEF Fresh
<1> HIDE DEF drains
<1>11. /\ desk' \in Desk /\ desk'.misread = d.misread /\ Fresh(desk', preparations')
       /\ preparations' \subseteq [message : Messages, starts : BOOLEAN] /\ mixed' \in BOOLEAN
       /\ \A x \in Messages : Has(d, x) => Has(desk', x)
       /\ \A x, box, si, es, k : OneCopy(x, box, d.queue, preparations, inbox, si, es, k) =>
                                     OneCopy(x, box, desk'.queue, preparations', inbox, si, es, k)
  <2>1. CASE drains
    <3>1. d.queue # <<>> /\ Submit([d EXCEPT !.queue = Tail(@)], Head(d.queue), events)
      BY <2>1, <1>2, <1>3
    <3> QED  BY <3>1, <1>1, <1>9, <1>10, DrainKeeps
  <2>2. CASE ~drains
    <3>1. desk' = d /\ preparations' = preparations /\ mixed' = mixed  BY <2>2, <1>2
    <3> QED  BY <3>1, <1>1, <1>9, <1>10
  <2> QED  BY <2>1, <2>2
<1>12. TypeOK'  BY <1>1, <1>2, <1>3, <1>11 DEF TypeOK
<1>13. OneCopyEach(desk, events)'  BY <1>1, <1>2, <1>9, <1>11 DEF OneCopyEach
<1>14. HasAll(desk)'  BY <1>1, <1>2, <1>9, <1>11 DEF HasAll
<1> QED  BY <1>11, <1>12, <1>13, <1>14 DEF TurnsInv

LEMMA StopKeeps == ASSUME TurnsInv, Stop PROVE TurnsInv'
<1>1. PICK n \in 0..Len(events) :
        LET d == HandledAll(desk, SubSeq(events, 1, n), FALSE)
            rest == SubSeq(events, n + 1, Len(events))
            stopped == IF Active(d) THEN [Finished(d, "Interrupted") EXCEPT !.status = "Idle"] ELSE d
        IN /\ Busy(desk) /\ ~desk.preparing
           /\ Happens("stop")
           /\ desk' = [stopped EXCEPT !.drain = FALSE, !.steers = <<>>,
                                      !.dropped = @ \cup ToSet(d.steers)]
           /\ IF d.runtime THEN /\ inbox' = Append(inbox, [op |-> "cancel", message |-> None])
                                /\ events' = rest /\ UNCHANGED <<driver, stdin, cli>>
              ELSE Closed
           /\ mixed' = (mixed \/ rest # <<>>)
           /\ UNCHANGED <<composer, preparations, delivered, answered, discarded, mislaid, swallowed>>
  BY DEF Stop
<1> DEFINE d == HandledAll(desk, SubSeq(events, 1, n), FALSE)
           rest == SubSeq(events, n + 1, Len(events))
           s == IF Active(d) THEN [Finished(d, "Interrupted") EXCEPT !.status = "Idle"] ELSE d
           r == s.dropped \cup ToSet(d.steers)
           cancel == [op |-> "cancel", message |-> None]
<1>2. /\ TypeOK /\ Fresh(desk, preparations) /\ composer \subseteq Messages
      /\ inbox \in Seq(Commands) /\ stdin \in Seq(Commands)
      /\ preparations \subseteq [message : Messages, starts : BOOLEAN]
  BY Types DEF TurnsInv
<1>3. /\ d \in Desk /\ rest \in Seq(Events) /\ OneCopyEach(d, rest) /\ HasAll(d)
      /\ d.worktree = desk.worktree /\ d.preparing = desk.preparing /\ (~desk.runtime => d = desk)
  BY HandledAllKeeps
<1>4. /\ ~desk.preparing
      /\ desk' = [s EXCEPT !.drain = FALSE, !.steers = <<>>, !.dropped = r]
      /\ IF d.runtime THEN inbox' = Append(inbox, cancel) /\ events' = rest /\ UNCHANGED <<driver,
                                                                                           stdin, cli>>
         ELSE Closed
      /\ UNCHANGED <<composer, preparations, delivered, answered, discarded, mislaid, swallowed>>
  BY <1>1
<1>5. mixed' \in BOOLEAN /\ incidents' \subseteq {"stop", "detach", "crash", "failure"}
  BY <1>1, <1>2, Types DEF Happens
<1> HIDE DEF d, rest
<1>6. Keeps(d, s)  BY <1>3, SettledKeeps, KeepsSelf DEF Endings, Statuses
<1> HIDE DEF s
<1>7. /\ s \in Desk /\ s.queue = d.queue /\ s.misread = d.misread /\ s.runtime = d.runtime
      /\ s.worktree = d.worktree /\ s.steers = d.steers /\ s.dropped = d.dropped
      /\ \A x \in Messages : ShownIn(d, x) => ShownIn(s, x)
  BY <1>6 DEF Keeps, ShowsOn
<1>8. r \in SUBSET Messages
  <2>1. ToSet(d.steers) \subseteq Messages  BY <1>3, ElementOfSeq DEF ToSet, Desk
  <2> QED  BY <2>1, <1>7 DEF Desk
<1> HIDE DEF r
<1>9. <<>> \in Seq(Messages)  BY EmptySeq
<1>10. desk' \in Desk  BY <1>4, <1>7, <1>8, <1>9 DEF Desk
<1>11. /\ desk'.queue = d.queue /\ desk'.misread = d.misread /\ desk'.runtime = d.runtime
       /\ desk'.worktree = d.worktree /\ desk'.dropped = r /\ desk'.turns = s.turns
       /\ desk'.loose = s.loose
  BY <1>4, <1>7 DEF Desk
<1>12. \A x \in Messages : Has(d, x) => Has(desk', x)
  BY <1>7, <1>11 DEF Has, ShownIn, r
<1>13. Fresh(desk', preparations')  BY <1>2, <1>3, <1>4, <1>11 DEF Fresh
<1>14. cancel \in Commands /\ \A x \in Messages : cancel \notin Sends(x)  BY DEF Commands, Sends
<1> HIDE DEF cancel
<1>15. /\ inbox' \in Seq(Commands) /\ stdin' \in Seq(Commands) /\ events' \in Seq(Events)
       /\ driver' \in [active : BOOLEAN, parked : BOOLEAN, writing : BOOLEAN]
       /\ cli' \in [alive : BOOLEAN, running : BOOLEAN, spoke : BOOLEAN, interrupted : BOOLEAN,
                    serving : SUBSET Messages, tasks : BOOLEAN, exited : BOOLEAN]
       /\ cli'.spoke => cli'.running
  <2>1. CASE d.runtime
    <3>1. Append(inbox, cancel) \in Seq(Commands)  BY <1>2, <1>14, AppendMarks
    <3> QED  BY <2>1, <3>1, <1>2, <1>3, <1>4, Types
  <2>2. CASE ~d.runtime  BY <2>2, <1>4, ClosedType
  <2> QED  BY <2>1, <2>2
<1>16. TypeOK'  BY <1>2, <1>4, <1>5, <1>10, <1>15 DEF TypeOK
<1>17. OneCopyEach(desk, events)'
  <2> SUFFICES ASSUME NEW x \in Messages \ desk'.misread
               PROVE  OneCopy(x, composer, d.queue, preparations, inbox', stdin', events', delivered[x])
    BY <1>4, <1>11 DEF OneCopyEach
  <2>1. OneCopy(x, composer, d.queue, preparations, inbox, stdin, rest, delivered[x])
    BY <1>3, <1>11 DEF OneCopyEach
  <2>2. CASE d.runtime
    <3>1. inbox' = Append(inbox, cancel) /\ events' = rest /\ stdin' = stdin  BY <2>2, <1>4
    <3>2. /\ Hits(inbox', Sends(x)) <=> Hits(inbox, Sends(x))
          /\ Lone(inbox, Sends(x)) => Lone(inbox', Sends(x))
      BY <3>1, <1>2, <1>14, AppendMarks
    <3> QED  BY <2>1, <3>1, <3>2 DEF OneCopy, AtMostOne
  <2>3. CASE ~d.runtime
    <3>1. inbox' = <<>> /\ stdin' = <<>> /\ events' = <<>>  BY <2>3, <1>4, ClosedType
    <3> QED  BY <2>1, <3>1, ClosedOnce
  <2> QED  BY <2>2, <2>3
<1>18. HasAll(desk)'  BY <1>3, <1>4, <1>12 DEF HasAll
<1> QED  BY <1>13, <1>16, <1>17, <1>18 DEF TurnsInv

----------------------------------------------------------------------------
(* A runtime that goes, and preparations that end                          *)

\* What d keeps when its steers are dropped.
WithoutSteers(d, run, tree, prep) ==
    [d EXCEPT !.preparing = prep, !.worktree = tree, !.runtime = run, !.steers = <<>>,
              !.dropped = @ \cup ToSet(d.steers)]

LEMMA DroppedKeeps ==
    ASSUME NEW d \in Desk, NEW run \in BOOLEAN, NEW tree \in BOOLEAN, NEW prep \in BOOLEAN
    PROVE  LET e == WithoutSteers(d, run, tree, prep)
           IN /\ e \in Desk /\ e.queue = d.queue /\ e.misread = d.misread /\ e.worktree = tree
              /\ \A x \in Messages : Has(d, x) => Has(e, x)
<1> DEFINE r == d.dropped \cup ToSet(d.steers)
           e == WithoutSteers(d, run, tree, prep)
<1>1. r \in SUBSET Messages
  <2>1. ToSet(d.steers) \subseteq Messages  BY ElementOfSeq DEF ToSet, Desk
  <2> QED  BY <2>1 DEF Desk
<1>2. <<>> \in Seq(Messages)  BY EmptySeq
<1>3. e = [d EXCEPT !.preparing = prep, !.worktree = tree, !.runtime = run, !.steers = <<>>,
                    !.dropped = r]
  BY DEF WithoutSteers
<1>4. \A x : x \in d.dropped \/ x \in ToSet(d.steers) <=> x \in r  OBVIOUS
<1> HIDE DEF r, e
<1>5. e \in Desk  BY <1>1, <1>2, <1>3 DEF Desk
<1>6. /\ e.queue = d.queue /\ e.misread = d.misread /\ e.worktree = tree /\ e.turns = d.turns
      /\ e.loose = d.loose /\ e.dropped = r
  BY <1>3 DEF Desk
<1>7. \A x \in Messages : Has(d, x) => Has(e, x)  BY <1>4, <1>6 DEF Has, ShownIn
<1> QED  BY <1>5, <1>6, <1>7 DEF e

LEMMA ReapKeeps == ASSUME TurnsInv, Reap PROVE TurnsInv'
<1>1. /\ TypeOK /\ OneCopyEach(desk, events) /\ HasAll(desk) /\ Fresh(desk, preparations)
      /\ desk \in Desk
  BY Types DEF TurnsInv
<1>2. /\ desk' = [desk EXCEPT !.runtime = FALSE, !.steers = <<>>, !.dropped = @ \cup ToSet(desk.steers)]
      /\ desk.runtime /\ Closed
      /\ UNCHANGED <<composer, preparations, incidents, delivered, answered, discarded, mislaid, mixed,
                     swallowed>>
  BY DEF Reap, history
<1>3. desk.worktree /\ desk.preparing \in BOOLEAN  BY <1>1, <1>2 DEF Fresh, Desk
<1>4. desk' = WithoutSteers(desk, FALSE, desk.worktree, desk.preparing)
  BY <1>1, <1>2 DEF Desk, WithoutSteers
<1>5. /\ desk' \in Desk /\ desk'.queue = desk.queue /\ desk'.misread = desk.misread /\ desk'.worktree
      /\ \A x \in Messages : Has(desk, x) => Has(desk', x)
  <2>1. desk.worktree \in BOOLEAN  BY <1>1 DEF Desk
  <2> QED  BY <1>1, <1>3, <1>4, <2>1, DroppedKeeps
<1>6. TypeOK'  BY <1>1, <1>2, <1>5, ClosedType DEF TypeOK
<1>7. OneCopyEach(desk, events)'  BY <1>1, <1>2, <1>5, ClosedOnce, ClosedType DEF OneCopyEach
<1>8. HasAll(desk)'  BY <1>1, <1>2, <1>5 DEF HasAll
<1>9. Fresh(desk', preparations')  BY <1>5 DEF Fresh
<1> QED  BY <1>6, <1>7, <1>8, <1>9 DEF TurnsInv

LEMMA LeavesPreparation ==
    ASSUME NEW x, NEW box, NEW queue, NEW ps, NEW p \in ps, NEW ib, NEW si, NEW es, NEW n,
           OneCopy(x, box, queue, ps, ib, si, es, n)
    PROVE  /\ OneCopy(x, box, queue, ps \ {p}, ib, si, es, n)
           /\ x = p.message => NoCopy(x, box, queue, ps \ {p}, ib, si, es, n)
<1>1. Prepares(ps \ {p}, x) => Prepares(ps, x)  BY DEF Prepares
<1>2. \A q, r \in ps : q.message = x /\ r.message = x => q = r  BY DEF OneCopy
<1>3. x = p.message => Prepares(ps, x) /\ ~Prepares(ps \ {p}, x)  BY <1>2 DEF Prepares
<1> QED  BY <1>1, <1>3 DEF OneCopy, NoCopy, AtMostOne

\* Where the message of a preparation that failed goes.
LEMMA ComesBack ==
    ASSUME NEW p, FailPreparation(p), desk.preparing
    PROVE  /\ composer' \subseteq composer \cup {p.message}
           /\ mislaid' \subseteq mislaid \cup composer \cup {p.message}
           /\ composer \cup mislaid \cup {p.message} \subseteq composer' \cup mislaid'
<1>1. CASE Restored(p.message)  BY <1>1, RestoredMoves
<1>2. CASE mislaid' = mislaid \cup {p.message} /\ UNCHANGED composer  BY <1>2
<1> QED  BY <1>1, <1>2 DEF FailPreparation

LEMMA FailPreparationKeeps ==
    ASSUME TurnsInv, NEW p \in preparations, FailPreparation(p) PROVE TurnsInv'
<1>1. /\ TypeOK /\ OneCopyEach(desk, events) /\ HasAll(desk) /\ Fresh(desk, preparations)
      /\ desk \in Desk /\ preparations \subseteq [message : Messages, starts : BOOLEAN]
      /\ composer \subseteq Messages
  BY Types DEF TurnsInv
<1>2. /\ ~desk.worktree /\ preparations' = preparations \ {p}
      /\ UNCHANGED <<inbox, events, driver, stdin, cli, delivered, answered, discarded, mixed, swallowed>>
      /\ incidents' \subseteq {"stop", "detach", "crash", "failure"}
  BY <1>1, Types DEF FailPreparation, Forget, Fails, Happens, driverVars, history
<1>3. /\ ~desk.runtime /\ desk.preparing /\ desk.status = "Connecting" /\ desk.turns # <<>>
      /\ Last(desk.turns).folded = {} /\ Last(desk.turns).state = "Running" /\ ~Last(desk.turns).started
      /\ \A q \in preparations : q.starts /\ Last(desk.turns).opener = q.message
  <2>1. ASSUME NEW q \in preparations
        PROVE  /\ desk.preparing /\ desk.status = "Connecting" /\ desk.turns # <<>> /\ q.starts
               /\ Last(desk.turns) = [opener |-> q.message, folded |-> {}, state |-> "Running",
                                      started |-> FALSE]
    BY <1>1, <1>2 DEF Fresh
  <2>2. ASSUME NEW q \in preparations
        PROVE  /\ Last(desk.turns).opener = q.message /\ Last(desk.turns).folded = {}
               /\ Last(desk.turns).state = "Running" /\ ~Last(desk.turns).started
    <3>1. Last(desk.turns) = [opener |-> q.message, folded |-> {}, state |-> "Running",
                             started |-> FALSE]
      BY <2>1
    <3> QED  BY <3>1
  <2> QED  BY <1>1, <1>2, <2>1, <2>2 DEF Fresh
<1>4. p.message \in Messages  BY <1>1
<1>5. preparations' = {}
  <2> SUFFICES ASSUME NEW q \in preparations PROVE q = p  BY <1>2
  <2>1. q.message = p.message  BY <1>3
  <2>2. q.starts = TRUE /\ p.starts = TRUE  BY <1>1, <1>3
  <2> QED  BY <2>1, <2>2, <1>1
<1> DEFINE e == Unwound(desk)
<1>0. /\ composer' \subseteq composer \cup {p.message}
      /\ mislaid' \subseteq mislaid \cup composer \cup {p.message}
      /\ composer \cup mislaid \cup {p.message} \subseteq composer' \cup mislaid'
  BY <1>3, ComesBack
<1>6. desk' = [[e EXCEPT !.status = "Idle"] EXCEPT !.preparing = FALSE]  BY <1>3 DEF FailPreparation
<1>7. /\ e \in Desk /\ e.queue = desk.queue /\ e.steers = desk.steers /\ e.misread = desk.misread
      /\ e.dropped = desk.dropped /\ e.runtime = desk.runtime
      /\ \A m : ShownIn(desk, m) => ShownIn(e, m) \/ m = p.message
  <2>1. Active(desk)  BY <1>3 DEF Active
  <2>2. \A m : m \in Last(desk.turns).folded \cup {Last(desk.turns).opener} <=> m = p.message
    BY <1>3
  <2> QED  BY <1>1, <1>3, <2>1, <2>2, UnwoundShows
<1> HIDE DEF e
<1>8. desk' \in Desk  BY <1>6, <1>7 DEF Desk, Statuses
<1>9. /\ desk'.queue = desk.queue /\ desk'.steers = desk.steers /\ desk'.misread = desk.misread
      /\ desk'.dropped = desk.dropped /\ desk'.runtime = desk.runtime /\ desk'.turns = e.turns
      /\ desk'.loose = e.loose
  BY <1>6, <1>7 DEF Desk
<1>10. \A m : ShownIn(desk, m) => ShownIn(desk', m) \/ m = p.message  BY <1>7, <1>9 DEF ShownIn
<1>11. TypeOK'
  <2>1. /\ composer' \subseteq Messages /\ mislaid' \subseteq Messages
        /\ preparations' \subseteq [message : Messages, starts : BOOLEAN]
    BY <1>0, <1>1, <1>4, <1>5, Types
  <2> QED  BY <1>1, <1>2, <1>8, <2>1 DEF TypeOK
<1>12. OneCopyEach(desk, events)'
  <2> SUFFICES ASSUME NEW x \in Messages \ desk.misread
               PROVE  OneCopy(x, composer', desk.queue, preparations', inbox, stdin, events, delivered[x])
    BY <1>2, <1>9 DEF OneCopyEach
  <2>1. OneCopy(x, composer, desk.queue, preparations, inbox, stdin, events, delivered[x])
    BY <1>1 DEF OneCopyEach
  <2>2. /\ OneCopy(x, composer, desk.queue, preparations', inbox, stdin, events, delivered[x])
        /\ x = p.message =>
              NoCopy(x, composer, desk.queue, preparations', inbox, stdin, events, delivered[x])
    BY <2>1, <1>2, LeavesPreparation
  <2> QED  BY <2>2, <1>0 DEF OneCopy, NoCopy, AtMostOne
<1>13. HasAll(desk)'  BY <1>0, <1>1, <1>2, <1>9, <1>10 DEF HasAll, Has
<1>14. Fresh(desk', preparations')  BY <1>3, <1>5, <1>9 DEF Fresh
<1> QED  BY <1>11, <1>12, <1>13, <1>14 DEF TurnsInv

\* The preparation p ends, and the message is nowhere but in the transcript.
LEMMA ForgetKeeps ==
    ASSUME TurnsInv, NEW p \in preparations, Forget(p), desk' \in Desk, desk'.queue = desk.queue,
           desk'.misread = desk.misread, desk'.worktree,
           incidents' \subseteq {"stop", "detach", "crash", "failure"},
           \A x \in Messages : Has(desk, x) => Has(desk', x),
           UNCHANGED <<composer, inbox, events, driver, stdin, cli, delivered, answered, discarded,
                       mislaid, mixed,
                       swallowed>>
    PROVE  TurnsInv'
<1>1. /\ TypeOK /\ OneCopyEach(desk, events) /\ HasAll(desk)
      /\ preparations \subseteq [message : Messages, starts : BOOLEAN]
  BY Types DEF TurnsInv
<1>2. preparations' = preparations \ {p}  BY DEF Forget
<1>3. TypeOK'  BY <1>1, <1>2 DEF TypeOK
<1>4. OneCopyEach(desk, events)'  BY <1>1, <1>2, LeavesPreparation DEF OneCopyEach
<1>5. HasAll(desk)'  BY <1>1 DEF HasAll
<1>6. Fresh(desk', preparations')  BY DEF Fresh
<1> QED  BY <1>3, <1>4, <1>5, <1>6 DEF TurnsInv

LEMMA DropPreparationKeeps ==
    ASSUME TurnsInv, NEW p \in preparations, DropPreparation(p) PROVE TurnsInv'
<1>1. TypeOK /\ Fresh(desk, preparations) /\ desk \in Desk  BY Types DEF TurnsInv
<1>2. /\ Forget(p) /\ desk' = [desk EXCEPT !.preparing = FALSE]
      /\ ~desk.preparing \/ ~Untouched(desk)
      /\ UNCHANGED <<composer, inbox, events, driver, stdin, cli, incidents, delivered, answered,
                     discarded, mislaid,
                     mixed, swallowed>>
  BY DEF DropPreparation, driverVars, history
<1>3. desk.worktree
  <2> SUFFICES ASSUME ~desk.worktree PROVE FALSE  OBVIOUS
  <2>1. /\ desk.preparing /\ desk.status = "Connecting" /\ desk.turns # <<>>
        /\ Last(desk.turns) = [opener |-> p.message, folded |-> {}, state |-> "Running", started |-> FALSE]
    BY <1>1 DEF Fresh
  <2>2. Last(desk.turns).state = "Running" /\ ~Last(desk.turns).started  BY <2>1
  <2> QED  BY <1>2, <2>1, <2>2 DEF Untouched, Active
<1>4. desk' \in Desk  BY <1>1, <1>2 DEF Desk
<1>5. /\ desk'.queue = desk.queue /\ desk'.misread = desk.misread /\ desk'.worktree
      /\ desk'.steers = desk.steers /\ desk'.dropped = desk.dropped /\ desk'.turns = desk.turns
      /\ desk'.loose = desk.loose
  BY <1>1, <1>2, <1>3 DEF Desk
<1>6. \A x \in Messages : Has(desk, x) => Has(desk', x)  BY <1>5 DEF Has, ShownIn
<1>7. incidents' \subseteq {"stop", "detach", "crash", "failure"}  BY <1>1, <1>2, Types
<1> QED  BY <1>2, <1>4, <1>5, <1>6, <1>7, ForgetKeeps

LEMMA FailStartKeeps ==
    ASSUME TurnsInv, NEW p \in preparations, FailStart(p) PROVE TurnsInv'
<1> DEFINE e == Finished(desk, "Failed")
<1>1. TypeOK /\ desk \in Desk  BY Types DEF TurnsInv
<1>2. /\ Forget(p)
      /\ desk' = [e EXCEPT !.status = "Failed", !.preparing = FALSE, !.worktree = TRUE]
      /\ UNCHANGED <<composer, inbox, events, driver, stdin, cli, delivered, answered, discarded,
                     mislaid, mixed,
                     swallowed>>
      /\ incidents' \subseteq {"stop", "detach", "crash", "failure"}
  BY <1>1, Types DEF FailStart, StartFailed, Fails, Happens, driverVars, history
<1>3. Keeps(desk, e) /\ e \in Desk  BY <1>1, FinishedKeeps DEF Endings, Keeps, ShowsOn
<1> HIDE DEF e
<1>4. desk' \in Desk  BY <1>2, <1>3 DEF Desk, Statuses
<1>5. /\ desk'.queue = e.queue /\ desk'.misread = e.misread /\ desk'.worktree
      /\ desk'.steers = e.steers /\ desk'.dropped = e.dropped /\ desk'.turns = e.turns
      /\ desk'.loose = e.loose
  BY <1>2, <1>3 DEF Desk
<1>6. \A x : ShownIn(e, x) => ShownIn(desk', x)  BY <1>5 DEF ShownIn
<1>7. \A x \in Messages : Has(desk, x) => Has(desk', x)
  BY <1>3, <1>5, <1>6 DEF Has, Keeps, ShowsOn
<1>8. desk'.queue = desk.queue /\ desk'.misread = desk.misread  BY <1>3, <1>5 DEF Keeps
<1> QED  BY <1>2, <1>4, <1>5, <1>7, <1>8, ForgetKeeps

LEMMA SendPromptKeeps ==
    ASSUME TurnsInv, NEW p \in preparations, SendPrompt(p) PROVE TurnsInv'
<1> DEFINE prompt == [op |-> "prompt", message |-> p.message]
           echo == [kind |-> "submitted", message |-> p.message]
<1>1. /\ TypeOK /\ OneCopyEach(desk, events) /\ HasAll(desk) /\ desk \in Desk
      /\ preparations \subseteq [message : Messages, starts : BOOLEAN]
      /\ inbox \in Seq(Commands) /\ events \in Seq(Events)
  BY Types DEF TurnsInv
<1>2. /\ preparations' = preparations \ {p}
      /\ desk' = [desk EXCEPT !.preparing = FALSE, !.worktree = TRUE, !.runtime = TRUE, !.steers = <<>>,
                              !.dropped = @ \cup ToSet(desk.steers)]
      /\ \/ /\ inbox' = <<prompt>> /\ events' = <<echo>> /\ stdin' = <<>>
            /\ driver' = NewDriver /\ cli' = NewCli
         \/ /\ inbox' = Append(inbox, prompt) /\ events' = Append(events, echo)
            /\ UNCHANGED <<driver, stdin, cli>>
      /\ UNCHANGED <<composer, incidents, delivered, answered, discarded, mislaid, mixed, swallowed>>
  BY DEF SendPrompt, Forget, history
<1>3. /\ prompt \in Commands /\ \A x : prompt \in Sends(x) <=> x = p.message
      /\ echo \in Events /\ \A x : echo \notin Refusal(x)
  BY <1>1 DEF Commands, Sends, Events, Refusal
<1> HIDE DEF prompt, echo
<1>4. /\ desk' \in Desk /\ desk'.queue = desk.queue /\ desk'.misread = desk.misread /\ desk'.worktree
      /\ \A x \in Messages : Has(desk, x) => Has(desk', x)
  <2>1. desk' = WithoutSteers(desk, TRUE, TRUE, FALSE)  BY <1>2 DEF WithoutSteers
  <2> QED  BY <1>1, <2>1, DroppedKeeps
<1>5. inbox' \in Seq(Commands) /\ events' \in Seq(Events) /\ stdin' \in Seq(Commands)
  <2>1. Append(inbox, prompt) \in Seq(Commands) /\ Append(events, echo) \in Seq(Events)
    BY <1>1, <1>3, AppendMarks
  <2>2. <<prompt>> \in Seq(Commands) /\ <<echo>> \in Seq(Events) /\ <<>> \in Seq(Commands)
    BY <1>3, OneMark, EmptySeq
  <2> QED  BY <1>1, <1>2, <2>1, <2>2, Types
<1>6. TypeOK'
  <2>1. /\ NewDriver \in [active : BOOLEAN, parked : BOOLEAN, writing : BOOLEAN]
        /\ NewCli \in [alive : BOOLEAN, running : BOOLEAN, spoke : BOOLEAN, interrupted : BOOLEAN,
                       serving : SUBSET Messages, tasks : BOOLEAN, exited : BOOLEAN]
        /\ ~NewCli.spoke
    BY DEF NewDriver, NewCli
  <2>2. preparations' \subseteq [message : Messages, starts : BOOLEAN]  BY <1>1, <1>2
  <2> QED  BY <1>1, <1>2, <1>4, <1>5, <2>1, <2>2 DEF TypeOK
<1>7. OneCopyEach(desk, events)'
  <2> SUFFICES ASSUME NEW x \in Messages \ desk.misread
               PROVE  OneCopy(x, composer, desk.queue, preparations', inbox', stdin', events', delivered[x])
    BY <1>2, <1>4 DEF OneCopyEach
  <2>1. OneCopy(x, composer, desk.queue, preparations, inbox, stdin, events, delivered[x])
    BY <1>1 DEF OneCopyEach
  <2>2. /\ OneCopy(x, composer, desk.queue, preparations', inbox, stdin, events, delivered[x])
        /\ x = p.message =>
              NoCopy(x, composer, desk.queue, preparations', inbox, stdin, events, delivered[x])
    BY <2>1, <1>2, LeavesPreparation
  <2>3. CASE inbox' = Append(inbox, prompt) /\ events' = Append(events, echo) /\ stdin' = stdin
    <3>1. /\ Hits(inbox', Sends(x)) <=> Hits(inbox, Sends(x)) \/ x = p.message
          /\ Lone(inbox, Sends(x)) /\ ~(x = p.message /\ Hits(inbox, Sends(x))) => Lone(inbox', Sends(x))
      BY <2>3, <1>1, <1>3, AppendMarks
    <3>2. /\ Hits(events', Refusal(x)) <=> Hits(events, Refusal(x))
          /\ Lone(events, Refusal(x)) => Lone(events', Refusal(x))
      BY <2>3, <1>1, <1>3, AppendMarks
    <3> QED  BY <2>2, <2>3, <3>1, <3>2 DEF OneCopy, NoCopy, AtMostOne
  <2>4. CASE inbox' = <<prompt>> /\ events' = <<echo>> /\ stdin' = <<>>
    <3>1. (Hits(inbox', Sends(x)) <=> x = p.message) /\ Lone(inbox', Sends(x))
      BY <2>4, <1>3, OneMark
    <3>2. ~Hits(events', Refusal(x)) /\ Lone(events', Refusal(x))  BY <2>4, <1>3, OneMark
    <3>3. ~Hits(stdin', Sends(x)) /\ Lone(stdin', Sends(x))  BY <2>4, EmptyMarks
    <3> QED  BY <2>2, <3>1, <3>2, <3>3 DEF OneCopy, NoCopy, AtMostOne
  <2> QED  BY <1>2, <2>3, <2>4
<1>8. HasAll(desk)'  BY <1>1, <1>2, <1>4 DEF HasAll
<1>9. Fresh(desk', preparations')  BY <1>4 DEF Fresh
<1> QED  BY <1>6, <1>7, <1>8, <1>9 DEF TurnsInv

----------------------------------------------------------------------------
(* The driver and the process                                              *)

\* fs holds the refusals that es holds.
Says(es, fs) ==
    /\ fs \in Seq(Events)
    /\ \A x : /\ Hits(fs, Refusal(x)) <=> Hits(es, Refusal(x))
              /\ Lone(es, Refusal(x)) => Lone(fs, Refusal(x))

Silent(es) == es \in Seq(Events) /\ \A x : ~Hits(es, Refusal(x)) /\ Lone(es, Refusal(x))

LEMMA SilentEvent ==
    ASSUME NEW kind \in {"started", "parked", "finished", "failed", "error", "exited"}
    PROVE  Event(kind) \in Events /\ Silent(<<Event(kind)>>) /\ \A x : Event(kind) \notin Refusal(x)
<1>1. Event(kind) \in Events /\ \A x : Event(kind) \notin Refusal(x)  BY DEF Event, Events, Refusal
<1> QED  BY <1>1, OneMark DEF Silent

LEMMA SilentNothing == Silent(<<>>)
BY EmptyMarks, EmptySeq DEF Silent

LEMMA SilentSays ==
    ASSUME NEW es \in Seq(Events), NEW fs, Silent(fs)
    PROVE  Says(es, es \o fs) /\ (Silent(es) => Silent(es \o fs))
BY ConcatMarks DEF Silent, Says

LEMMA OneSaid ==
    ASSUME NEW es \in Seq(Events), NEW kind \in {"started", "parked", "finished", "failed", "error", "exited"}
    PROVE  Says(es, Append(es, Event(kind)))
BY SilentEvent, AppendMarks DEF Says

LEMMA SaysTrans == ASSUME NEW es, NEW fs, NEW gs, Says(es, fs), Says(fs, gs) PROVE Says(es, gs)
BY DEF Says

\* A step of the provider that moves no message.
LEMMA ProviderKeeps ==
    ASSUME TurnsInv, UNCHANGED <<desk, composer, preparations, inbox, stdin, delivered, discarded,
                                 mislaid, swallowed>>,
           Says(events, events'),
           driver' \in [active : BOOLEAN, parked : BOOLEAN, writing : BOOLEAN],
           cli' \in [alive : BOOLEAN, running : BOOLEAN, spoke : BOOLEAN, interrupted : BOOLEAN,
                     serving : SUBSET Messages, tasks : BOOLEAN, exited : BOOLEAN],
           cli'.spoke => cli'.running,
           incidents' \subseteq {"stop", "detach", "crash", "failure"},
           answered' \subseteq Messages, mixed' \in BOOLEAN
    PROVE  TurnsInv'
<1>1. TypeOK /\ OneCopyEach(desk, events) /\ HasAll(desk) /\ Fresh(desk, preparations)
  BY DEF TurnsInv
<1>2. TypeOK'  BY <1>1 DEF TypeOK, Says
<1>3. OneCopyEach(desk, events)'  BY <1>1 DEF OneCopyEach, OneCopy, AtMostOne, Says
<1>4. HasAll(desk)'  BY <1>1 DEF HasAll
<1>5. Fresh(desk', preparations')  BY <1>1 DEF Fresh
<1> QED  BY <1>2, <1>3, <1>4, <1>5 DEF TurnsInv

LEMMA SpeakKeeps == ASSUME TurnsInv, Speak PROVE TurnsInv'
<1>1. TypeOK  BY DEF TurnsInv
<1>2. Says(events, events')
  <2>1. events' = Append(events, Event("started")) \/ events' = events  BY DEF Speak
  <2>2. events \in Seq(Events)  BY <1>1, Types
  <2>3. Says(events, events) /\ Says(events, Append(events, Event("started")))
    <3>1. Says(events, events)  BY <2>2 DEF Says
    <3> QED  BY <3>1, <2>2, OneSaid
  <2> QED  BY <2>1, <2>3
<1>3. /\ driver' \in [active : BOOLEAN, parked : BOOLEAN, writing : BOOLEAN]
      /\ cli' = [cli EXCEPT !.spoke = TRUE] /\ cli.running
      /\ UNCHANGED <<desk, composer, preparations, inbox, stdin, incidents, delivered, answered,
                     discarded, mislaid,
                     mixed, swallowed>>
  BY <1>1, Types DEF Speak, ClientSide, history
<1> QED  BY <1>1, <1>2, <1>3, Types, ProviderKeeps

LEMMA DetachKeeps == ASSUME TurnsInv, Detach PROVE TurnsInv'
<1>1. TypeOK  BY DEF TurnsInv
<1>2. /\ cli' = [cli EXCEPT !.tasks = TRUE] /\ cli.spoke
      /\ incidents' \subseteq {"stop", "detach", "crash", "failure"}
      /\ UNCHANGED <<desk, composer, preparations, inbox, events, driver, stdin, delivered, answered,
                     discarded, mislaid, mixed, swallowed>>
  BY <1>1, Types DEF Detach, Happens, ClientSide, history
<1>3. Says(events, events')  BY <1>1, <1>2, Types DEF Says
<1> QED  BY <1>1, <1>2, <1>3, Types, ProviderKeeps

LEMMA WakeKeeps == ASSUME TurnsInv, Wake PROVE TurnsInv'
<1>1. TypeOK  BY DEF TurnsInv
<1>2. /\ cli' = [cli EXCEPT !.tasks = FALSE, !.running = TRUE]
      /\ UNCHANGED <<desk, composer, preparations, inbox, events, driver, stdin, incidents, delivered,
                     answered, discarded, mislaid, mixed, swallowed>>
  BY DEF Wake, ClientSide, history
<1>3. Says(events, events')  BY <1>1, <1>2, Types DEF Says
<1> QED  BY <1>1, <1>2, <1>3, Types, ProviderKeeps

LEMMA CrashKeeps == ASSUME TurnsInv, Crash PROVE TurnsInv'
<1>1. TypeOK  BY DEF TurnsInv
<1>2. /\ cli' = [Quiet EXCEPT !.alive = FALSE, !.tasks = FALSE]
      /\ incidents' \subseteq {"stop", "detach", "crash", "failure"}
      /\ mixed' \in BOOLEAN
      /\ UNCHANGED <<desk, composer, preparations, inbox, events, driver, stdin, delivered, answered,
                     discarded, mislaid, swallowed>>
  BY <1>1, Types DEF Crash, Happens, ClientSide
<1>3. Says(events, events')  BY <1>1, <1>2, Types DEF Says
<1> QED  BY <1>1, <1>2, <1>3, Types, ProviderKeeps DEF Quiet

LEMMA ReportExitKeeps == ASSUME TurnsInv, ReportExit PROVE TurnsInv'
<1>1. TypeOK /\ events \in Seq(Events)  BY Types DEF TurnsInv
<1>2. /\ cli' = [cli EXCEPT !.exited = TRUE]
      /\ events' = events \o <<Event("error"), Event("exited")>>
      /\ UNCHANGED <<desk, composer, preparations, inbox, driver, stdin, incidents, delivered, answered,
                     discarded, mislaid, mixed, swallowed>>
  BY DEF ReportExit, ClientSide, history
<1>3. Silent(<<Event("error"), Event("exited")>>)
  <2>1. /\ Event("error") \in Events /\ Event("exited") \in Events
        /\ \A x : Event("error") \notin Refusal(x) /\ Event("exited") \notin Refusal(x)
    BY SilentEvent
  <2> QED  BY <2>1 DEF Silent, Hits, Lone
<1>4. Says(events, events')  BY <1>1, <1>2, <1>3, SilentSays
<1> QED  BY <1>1, <1>2, <1>4, Types, ProviderKeeps

LEMMA ReplyKeeps == ASSUME TurnsInv, NEW success \in BOOLEAN, Reply(success) PROVE TurnsInv'
<1> DEFINE parks == success /\ cli.tasks
           error == IF success \/ cli.interrupted THEN <<>> ELSE <<Event("error")>>
           ending == IF ~driver.active THEN <<>>
                     ELSE <<Event(IF parks THEN "parked" ELSE IF success THEN "finished" ELSE "failed")>>
<1>1. TypeOK /\ events \in Seq(Events)  BY Types DEF TurnsInv
<1>2. /\ cli' = Quiet /\ events' = events \o error \o ending
      /\ driver' = IF driver.active THEN [driver EXCEPT !.active = parks, !.parked = parks] ELSE driver
      /\ answered' = answered \cup (IF success THEN cli.serving ELSE {})
      /\ UNCHANGED <<desk, composer, preparations, inbox, stdin, delivered, discarded, mislaid, mixed,
                     swallowed>>
      /\ incidents' \subseteq {"stop", "detach", "crash", "failure"}
  BY <1>1, Types DEF Reply, Fails, Happens, ClientSide
<1>3. Silent(error) /\ Silent(ending)  BY SilentEvent, SilentNothing
<1>4. parks \in BOOLEAN  BY <1>1, Types
<1> HIDE DEF error, ending, parks
<1>5. Says(events, events \o error)  BY <1>1, <1>3, SilentSays
<1>6. Says(events \o error, events')  BY <1>2, <1>3, <1>5, SilentSays DEF Says
<1>7. Says(events, events')  BY <1>5, <1>6, SaysTrans
<1>8. /\ driver' \in [active : BOOLEAN, parked : BOOLEAN, writing : BOOLEAN]
      /\ answered' \subseteq Messages
  BY <1>1, <1>2, <1>4, Types
<1> QED  BY <1>1, <1>2, <1>7, <1>8, Types, ProviderKeeps DEF Quiet

\* The process reads a message: it is delivered now, and nowhere else.
LEMMA ReadKeeps == ASSUME TurnsInv, Read PROVE TurnsInv'
<1> DEFINE c == Head(stdin)
<1>1. /\ TypeOK /\ OneCopyEach(desk, events) /\ HasAll(desk) /\ Fresh(desk, preparations)
      /\ stdin \in Seq(Commands) /\ delivered \in [Messages -> Nat]
  BY Types DEF TurnsInv
<1>2. /\ stdin # <<>> /\ stdin' = Tail(stdin)
      /\ \/ /\ c.op = "cancel" /\ cli' = [cli EXCEPT !.interrupted = cli.running]
            /\ delivered' = delivered
         \/ /\ c.op # "cancel" /\ delivered' = [delivered EXCEPT ![c.message] = @ + 1]
            /\ cli' \in {[cli EXCEPT !.serving = @ \cup {c.message}],
                         [cli EXCEPT !.running = TRUE, !.serving = {c.message}]}
      /\ UNCHANGED <<desk, composer, preparations, inbox, events, driver, incidents, answered,
                     discarded, mislaid,
                     mixed, swallowed>>
  BY DEF Read, ClientSide
<1>3. /\ Tail(stdin) \in Seq(Commands) /\ c \in Commands
      /\ \A x : /\ Hits(stdin, Sends(x)) <=> c \in Sends(x) \/ Hits(Tail(stdin), Sends(x))
                /\ Lone(stdin, Sends(x)) =>
                      Lone(Tail(stdin), Sends(x)) /\ ~(c \in Sends(x) /\ Hits(Tail(stdin), Sends(x)))
  BY <1>1, <1>2, TailMarks
<1> HIDE DEF c
<1>4. /\ c.op = "cancel" => \A x : c \notin Sends(x)
      /\ c.op # "cancel" => c.message \in Messages /\ \A x : c \in Sends(x) <=> x = c.message
  BY <1>3 DEF Commands, Sends
<1>5. delivered' \in [Messages -> Nat]  BY <1>1, <1>2, <1>4
<1>6. cli' \in [alive : BOOLEAN, running : BOOLEAN, spoke : BOOLEAN, interrupted : BOOLEAN,
                serving : SUBSET Messages, tasks : BOOLEAN, exited : BOOLEAN]
      /\ (cli'.spoke => cli'.running)
  <2>1. /\ cli \in [alive : BOOLEAN, running : BOOLEAN, spoke : BOOLEAN, interrupted : BOOLEAN,
                    serving : SUBSET Messages, tasks : BOOLEAN, exited : BOOLEAN]
        /\ cli.spoke => cli.running
    BY <1>1, Types
  <2>2. CASE cli' = [cli EXCEPT !.interrupted = cli.running]  BY <2>1, <2>2
  <2>3. CASE c.message \in Messages /\ cli' = [cli EXCEPT !.serving = @ \cup {c.message}]
    BY <2>1, <2>3
  <2>4. CASE c.message \in Messages /\ cli' = [cli EXCEPT !.running = TRUE, !.serving = {c.message}]
    BY <2>1, <2>4
  <2> QED  BY <2>2, <2>3, <2>4, <1>2, <1>4
<1>7. TypeOK'  BY <1>1, <1>2, <1>3, <1>5, <1>6 DEF TypeOK
<1>8. OneCopyEach(desk, events)'
  <2> SUFFICES ASSUME NEW x \in Messages \ desk.misread
               PROVE  OneCopy(x, composer, desk.queue, preparations, inbox, stdin', events, delivered'[x])
    BY <1>2 DEF OneCopyEach
  <2>1. OneCopy(x, composer, desk.queue, preparations, inbox, stdin, events, delivered[x])
    BY <1>1 DEF OneCopyEach
  <2>2. CASE c \notin Sends(x)
    <3>1. delivered'[x] = delivered[x]  BY <2>2, <1>1, <1>2, <1>4
    <3> QED  BY <2>1, <2>2, <3>1, <1>2, <1>3 DEF OneCopy, AtMostOne
  <2>3. CASE c \in Sends(x)
    <3>1. delivered'[x] = delivered[x] + 1  BY <2>3, <1>1, <1>2, <1>4
    <3>2. delivered[x] = 0  BY <2>1, <2>3, <1>3 DEF OneCopy, AtMostOne
    <3>3. delivered'[x] = 1  BY <3>1, <3>2
    <3> QED  BY <2>1, <2>3, <3>3, <1>2, <1>3 DEF OneCopy, AtMostOne
  <2> QED  BY <2>2, <2>3
<1>9. HasAll(desk)'  BY <1>1, <1>2 DEF HasAll
<1>10. Fresh(desk', preparations')  BY <1>1, <1>2 DEF Fresh
<1> QED  BY <1>7, <1>8, <1>9, <1>10 DEF TurnsInv

\* The writer passes a message on, or refuses it, or a broken pipe takes it.
LEMMA WriteKeeps == ASSUME TurnsInv, Write PROVE TurnsInv'
<1> DEFINE c == Head(inbox)
           active == driver.active \/ c.op = "prompt"
           refused == c.op = "steer" /\ ~driver.active
           before == IF c.op = "prompt" THEN <<Event("started")>> ELSE <<>>
           said == [kind |-> IF refused \/ ~cli.alive THEN "rejected" ELSE "accepted",
                    message |-> c.message]
           answer == IF c.op # "steer" THEN <<>> ELSE <<said>>
           broken == ~cli.alive /\ ~refused
           failed == IF active THEN <<Event("failed")>> ELSE <<>>
           after == IF ~broken THEN <<>> ELSE <<Event("error")>> \o failed
<1>1. /\ TypeOK /\ OneCopyEach(desk, events) /\ HasAll(desk) /\ Fresh(desk, preparations)
      /\ inbox \in Seq(Commands) /\ stdin \in Seq(Commands) /\ events \in Seq(Events)
      /\ driver \in [active : BOOLEAN, parked : BOOLEAN, writing : BOOLEAN]
      /\ cli.alive \in BOOLEAN
  BY Types DEF TurnsInv
<1>2. /\ inbox # <<>> /\ inbox' = Tail(inbox)
      /\ events' = events \o before \o answer \o after
      /\ driver' = [driver EXCEPT !.active = active /\ ~broken, !.writing = ~broken]
      /\ stdin' = IF refused \/ broken THEN stdin ELSE Append(stdin, c)
      /\ UNCHANGED <<desk, composer, preparations, cli, incidents, delivered, answered, discarded,
                     mislaid, mixed,
                     swallowed>>
  BY DEF Write, history
<1>3. /\ Tail(inbox) \in Seq(Commands) /\ c \in Commands
      /\ \A x : /\ Hits(inbox, Sends(x)) <=> c \in Sends(x) \/ Hits(Tail(inbox), Sends(x))
                /\ Lone(inbox, Sends(x)) =>
                      Lone(Tail(inbox), Sends(x)) /\ ~(c \in Sends(x) /\ Hits(Tail(inbox), Sends(x)))
  BY <1>1, <1>2, TailMarks
<1>4. /\ refused \/ broken <=> (c.op = "steer" /\ ~driver.active) \/ ~cli.alive
      /\ refused \in BOOLEAN /\ broken \in BOOLEAN /\ active \in BOOLEAN
  BY <1>1
<1>5. Silent(before) /\ Silent(failed)  BY SilentEvent, SilentNothing
<1>6. Silent(after)
  <2> HIDE DEF failed, active, broken
  <2>1. Silent(<<Event("error")>>) /\ Silent(<<>>)  BY SilentEvent, SilentNothing
  <2>2. Silent(<<Event("error")>> \o failed)  BY <2>1, <1>5, SilentSays DEF Silent
  <2> QED  BY <2>1, <2>2
\* What is said of the message, if it is a steer.
<1>7. /\ answer \in Seq(Events)
      /\ \A x : /\ Lone(answer, Refusal(x))
                /\ Hits(answer, Refusal(x)) => c \in Sends(x) /\ (refused \/ broken)
  <2>1. CASE c.op # "steer"  BY <2>1, EmptyMarks, EmptySeq
  <2>2. CASE c.op = "steer"
    <3>1. answer = <<said>> /\ c.message \in Messages  BY <2>2, <1>3 DEF Commands
    <3>2. said \in Events  BY <3>1 DEF Events
    <3>3. ASSUME NEW x, said \in Refusal(x) PROVE c \in Sends(x) /\ (refused \/ broken)
      <4>1. said.kind = "rejected" /\ said.message = x  BY <3>3 DEF Refusal
      <4>2. refused \/ ~cli.alive  BY <4>1
      <4>3. c.message = x  BY <4>1
      <4>4. c \in Sends(x)  BY <2>2, <4>3, <1>3 DEF Commands, Sends
      <4> QED  BY <4>2, <4>4
    <3> HIDE DEF answer, said, refused, broken
    <3> QED  BY <3>1, <3>2, <3>3, OneMark
  <2> QED  BY <2>1, <2>2
<1> HIDE DEF before, answer, after, c, active, refused, broken, failed
<1>8. /\ events \o before \in Seq(Events) /\ events \o before \o answer \in Seq(Events)
      /\ Says(events, events \o before) /\ Says(events \o before \o answer, events')
  <2>1. Says(events, events \o before)  BY <1>1, <1>5, SilentSays
  <2>2. events \o before \in Seq(Events)  BY <2>1 DEF Says
  <2>3. events \o before \o answer \in Seq(Events)  BY <2>2, <1>7, ConcatMarks
  <2> QED  BY <2>1, <2>2, <2>3, <1>2, <1>6, SilentSays
<1>9. events' \in Seq(Events)
      /\ \A x : /\ Hits(events', Refusal(x)) <=> Hits(events, Refusal(x)) \/ Hits(answer, Refusal(x))
                /\ Lone(events, Refusal(x)) /\ ~(Hits(events, Refusal(x)) /\ Hits(answer, Refusal(x)))
                       => Lone(events', Refusal(x))
  <2> DEFINE es == events \o before
  <2>1. /\ es \in Seq(Events) /\ Says(events, es) /\ Says(es \o answer, events')  BY <1>8
  <2> HIDE DEF es
  <2>2. \A x : /\ Hits(es \o answer, Refusal(x)) <=> Hits(es, Refusal(x)) \/ Hits(answer, Refusal(x))
               /\ Lone(es, Refusal(x)) /\ Lone(answer, Refusal(x))
                    /\ ~(Hits(es, Refusal(x)) /\ Hits(answer, Refusal(x))) => Lone(es \o answer, Refusal(x))
    BY <2>1, <1>7, ConcatMarks
  <2> QED  BY <2>1, <2>2, <1>7 DEF Says
<1>10. \A x : IF refused \/ broken THEN stdin' = stdin
              ELSE /\ stdin' \in Seq(Commands)
                   /\ Hits(stdin', Sends(x)) <=> Hits(stdin, Sends(x)) \/ c \in Sends(x)
                   /\ Lone(stdin, Sends(x)) /\ ~(c \in Sends(x) /\ Hits(stdin, Sends(x)))
                         => Lone(stdin', Sends(x))
  BY <1>1, <1>2, <1>3, AppendMarks
<1>11. /\ stdin' \in Seq(Commands)
       /\ driver' \in [active : BOOLEAN, parked : BOOLEAN, writing : BOOLEAN]
  BY <1>1, <1>2, <1>4, <1>10
<1>12. TypeOK'  BY <1>1, <1>2, <1>3, <1>9, <1>11 DEF TypeOK
<1>13. OneCopyEach(desk, events)'
  <2> SUFFICES ASSUME NEW x \in Messages \ desk.misread
               PROVE  OneCopy(x, composer, desk.queue, preparations, inbox', stdin', events', delivered[x])
    BY <1>2 DEF OneCopyEach
  <2>1. OneCopy(x, composer, desk.queue, preparations, inbox, stdin, events, delivered[x])
    BY <1>1 DEF OneCopyEach
  <2>2. /\ Hits(inbox, Sends(x)) <=> c \in Sends(x) \/ Hits(inbox', Sends(x))
        /\ Lone(inbox', Sends(x)) /\ ~(c \in Sends(x) /\ Hits(inbox', Sends(x)))
    BY <2>1, <1>2, <1>3 DEF OneCopy
  <2>3. Hits(answer, Refusal(x)) => c \in Sends(x) /\ (refused \/ broken)  BY <1>7
  <2>4. CASE refused \/ broken
    <3>1. stdin' = stdin  BY <2>4, <1>10
    <3> QED  BY <2>1, <2>2, <2>3, <3>1, <1>9 DEF OneCopy, AtMostOne
  <2>5. CASE ~(refused \/ broken)
    <3>1. /\ Hits(stdin', Sends(x)) <=> Hits(stdin, Sends(x)) \/ c \in Sends(x)
          /\ Lone(stdin, Sends(x)) /\ ~(c \in Sends(x) /\ Hits(stdin, Sends(x))) => Lone(stdin', Sends(x))
      BY <2>5, <1>10
    <3> QED  BY <2>1, <2>2, <2>3, <2>5, <3>1, <1>9 DEF OneCopy, AtMostOne
  <2> QED  BY <2>4, <2>5
<1>14. HasAll(desk)'  BY <1>1, <1>2 DEF HasAll
<1>15. Fresh(desk', preparations')  BY <1>1, <1>2 DEF Fresh
<1> QED  BY <1>12, <1>13, <1>14, <1>15 DEF TurnsInv

----------------------------------------------------------------------------
(* What an event does to the turns, the status and the runtime             *)

Open(s) == s # <<>> /\ Last(s).state = "Running"
Put(s, t) == [s EXCEPT ![Len(s)] = t]
NewTurn(m, started) == [opener |-> m, folded |-> {}, state |-> "Running", started |-> started]
Active3 == {"Connecting", "Working", "Background"}

TurnsThen(s, status, x) ==
    CASE x.kind = "submitted" ->
            IF ~Open(s) THEN Append(s, NewTurn(x.message, FALSE))
            ELSE IF Last(s).opener # None \/ Last(s).folded # {} THEN s
            ELSE Put(s, [Last(s) EXCEPT !.opener = x.message])
      [] x.kind = "started" -> IF Open(s) THEN Put(s, [Last(s) EXCEPT !.started = TRUE])
                               ELSE Append(s, NewTurn(None, TRUE))
      [] x.kind = "accepted" -> IF Open(s) THEN Put(s, [Last(s) EXCEPT !.folded = @ \cup {x.message}])
                                ELSE s
      [] x.kind = "finished" -> IF Open(s) THEN Put(s, [Last(s) EXCEPT !.state = "Completed"]) ELSE s
      [] x.kind = "failed" -> IF Open(s) THEN Put(s, [Last(s) EXCEPT !.state = "Failed"]) ELSE s
      [] x.kind = "exited" -> IF Open(s) /\ status \in Active3
                              THEN Put(s, [Last(s) EXCEPT !.state = "Failed"]) ELSE s
      [] OTHER -> s

StatusThen(s, status, x) ==
    CASE x.kind = "submitted" -> IF Open(s) THEN status ELSE "Connecting"
      [] x.kind = "started" -> "Working"
      [] x.kind = "parked" -> IF Open(s) THEN "Background" ELSE status
      [] x.kind = "finished" -> IF Open(s) THEN "Idle" ELSE status
      [] x.kind = "failed" -> IF Open(s) THEN "Failed" ELSE status
      [] x.kind = "error" -> IF Open(s) /\ status # "Working" THEN "Failed" ELSE status
      [] x.kind = "exited" -> IF status \in Active3 THEN "Failed" ELSE status
      [] OTHER -> status

\* A turn without a message of the user is one that the provider has started.
Sound(s) == \A i \in DOMAIN s : s[i].opener # None \/ s[i].started

LEMMA PutTurn ==
    ASSUME NEW s \in Seq(Turn), s # <<>>, NEW t \in Turn
    PROVE  /\ Put(s, t) \in Seq(Turn) /\ Len(Put(s, t)) = Len(s) /\ DOMAIN Put(s, t) = DOMAIN s
           /\ DOMAIN s = 1..Len(s) /\ Len(s) \in DOMAIN s /\ Len(s) \in Nat
           /\ Put(s, t) # <<>> /\ Last(Put(s, t)) = t /\ Put(s, t)[Len(s)] = t
           /\ \A i \in DOMAIN s : i # Len(s) => Put(s, t)[i] = s[i]
           /\ Last(s) = s[Len(s)] /\ Last(s) \in Turn
<1> DEFINE u == Put(s, t)
<1>1. /\ u \in Seq(Turn) /\ Len(u) = Len(s) /\ DOMAIN u = DOMAIN s
      /\ Len(s) \in DOMAIN s /\ Last(s) = s[Len(s)] /\ Last(s) \in Turn
  BY LastTurn, ZenonT(40) DEF Put
<1>2. DOMAIN s = 1..Len(s) /\ Len(s) \in Nat  BY LenProperties
<1>3. u[Len(s)] = t /\ \A i \in DOMAIN s : i # Len(s) => u[i] = s[i]
  BY <1>1, <1>2 DEF Put
<1> HIDE DEF u
<1>4. u # <<>>  BY <1>1, <1>2, EmptySeq
<1>5. Last(u) = t  BY <1>1, <1>3 DEF Last
<1> QED  BY <1>1, <1>2, <1>3, <1>4, <1>5 DEF u

LEMMA AppendTurn ==
    ASSUME NEW s \in Seq(Turn), NEW t \in Turn
    PROVE  /\ Append(s, t) \in Seq(Turn) /\ Len(Append(s, t)) = Len(s) + 1 /\ Len(s) \in Nat
           /\ DOMAIN s = 1..Len(s) /\ DOMAIN Append(s, t) = 1..Len(s) + 1
           /\ Append(s, t) # <<>> /\ Last(Append(s, t)) = t /\ Append(s, t)[Len(s) + 1] = t
           /\ \A i \in DOMAIN s : Append(s, t)[i] = s[i]
<1> DEFINE u == Append(s, t)
<1>1. /\ u \in Seq(Turn) /\ Len(u) = Len(s) + 1 /\ Len(s) \in Nat
      /\ DOMAIN s = 1..Len(s) /\ DOMAIN u = 1..Len(s) + 1
      /\ u[Len(s) + 1] = t /\ \A i \in 1..Len(s) : u[i] = s[i]
  BY AppendProperties, LenProperties
<1> HIDE DEF u
<1>2. u # <<>>  BY <1>1, EmptySeq
<1>3. Last(u) = t  BY <1>1 DEF Last
<1> QED  BY <1>1, <1>2, <1>3 DEF u

LEMMA NewTurnStarts ==
    ASSUME NEW m \in Messages \cup {None}
    PROVE  /\ NewTurn(m, FALSE) \in Turn /\ NewTurn(m, TRUE) \in Turn
           /\ [NewTurn(m, FALSE) EXCEPT !.started = TRUE] = NewTurn(m, TRUE)
<1> DEFINE t == [NewTurn(m, FALSE) EXCEPT !.started = TRUE]
<1>1. NewTurn(m, FALSE) \in Turn /\ NewTurn(m, TRUE) \in Turn  BY DEF NewTurn, Turn
<1>2. t \in Turn  BY <1>1 DEF Turn
<1>3. t.opener = m /\ t.folded = {} /\ t.state = "Running" /\ t.started = TRUE
  BY <1>1 DEF Turn, NewTurn
<1> HIDE DEF t
<1>4. t = NewTurn(m, TRUE)  BY <1>2, <1>3 DEF Turn, NewTurn
<1> QED  BY <1>1, <1>4 DEF t

LEMMA ActiveIsOpen == ASSUME NEW d PROVE Active(d) <=> Open(d.turns)
BY DEF Active, Open

LEMMA BusyStatus == ASSUME NEW d PROVE Busy(d) <=> d.status \in Active3
BY DEF Busy, Active3

LEMMA LastSound ==
    ASSUME NEW s \in Seq(Turn), Sound(s), s # <<>>
    PROVE  Last(s) \in Turn /\ (Last(s).opener # None \/ Last(s).started)
<1>1. Len(s) \in DOMAIN s /\ Last(s) = s[Len(s)] /\ Last(s) \in Turn  BY LastTurn, ZenonT(40)
<1> QED  BY <1>1 DEF Sound

LEMMA BeginEffect ==
    ASSUME NEW d \in Desk, NEW m
    PROVE  /\ Begin(d, m).turns = Append(d.turns, NewTurn(m, FALSE))
           /\ Begin(d, m).status = d.status /\ Begin(d, m).runtime = d.runtime
           /\ Begin(d, m).preparing = d.preparing
BY DEF Begin, Desk, NewTurn

LEMMA OnTurnEffect ==
    ASSUME NEW d \in Desk, NEW t
    PROVE  /\ OnTurn(d, t).turns = Put(d.turns, t)
           /\ OnTurn(d, t).status = d.status /\ OnTurn(d, t).runtime = d.runtime
           /\ OnTurn(d, t).preparing = d.preparing
BY DEF OnTurn, Desk, Put

LEMMA FinishedEffect ==
    ASSUME NEW d \in Desk, NEW ending \in Endings
    PROVE  /\ Finished(d, ending).turns = IF Open(d.turns)
                                          THEN Put(d.turns, [Last(d.turns) EXCEPT !.state = ending])
                                          ELSE d.turns
           /\ Finished(d, ending).status = d.status /\ Finished(d, ending).runtime = d.runtime
           /\ Finished(d, ending).preparing = d.preparing /\ Finished(d, ending) \in Desk
<1>1. Finished(d, ending) \in Desk  BY FinishedKeeps DEF Keeps, ShowsOn
<1>2. CASE Active(d)
  <2> DEFINE t == [Last(d.turns) EXCEPT !.state = ending]
             e == OnTurn(d, t)
  <2>1. /\ e.turns = Put(d.turns, t) /\ e.status = d.status /\ e.runtime = d.runtime
        /\ e.preparing = d.preparing
    BY OnTurnEffect
  <2>2. Finished(d, ending) = [e EXCEPT !.captures = @ \cup {Len(d.turns)}]
    BY <1>2 DEF Finished
  <2>3. DOMAIN e = DOMAIN d  BY DEF OnTurn
  <2> HIDE DEF e, t
  <2>4. /\ Finished(d, ending).turns = e.turns /\ Finished(d, ending).status = e.status
        /\ Finished(d, ending).runtime = e.runtime /\ Finished(d, ending).preparing = e.preparing
    BY <2>2, <2>3 DEF Desk
  <2> QED  BY <1>1, <1>2, <2>1, <2>4 DEF t, Open, Active
<1>3. CASE ~Active(d)  BY <1>1, <1>3 DEF Finished, Open, Active
<1> QED  BY <1>2, <1>3

LEMMA StartedEffect ==
    ASSUME NEW d \in Desk
    PROVE  /\ Started(d).turns = IF Open(d.turns) THEN Put(d.turns, [Last(d.turns) EXCEPT !.started = TRUE])
                                 ELSE d.turns
           /\ Started(d).runtime = d.runtime /\ Started(d) \in Desk
<1>1. Started(d) \in Desk  BY StartedKeeps DEF Keeps, ShowsOn
<1>2. CASE Active(d)  BY <1>1, <1>2, OnTurnEffect DEF Started, Active, Open
<1>3. CASE ~Active(d)  BY <1>1, <1>3 DEF Started, Active, Open
<1> QED  BY <1>2, <1>3

LEMMA StatusEffect ==
    ASSUME NEW d \in Desk, NEW s
    PROVE  /\ [d EXCEPT !.status = s].turns = d.turns /\ [d EXCEPT !.status = s].status = s
           /\ [d EXCEPT !.status = s].runtime = d.runtime
           /\ [d EXCEPT !.status = s].preparing = d.preparing
BY DEF Desk

LEMMA SteerShownEffect ==
    ASSUME NEW d \in Desk, NEW m \in Messages
    PROVE  LET h == SteerShown(d, m)
           IN /\ h.turns = IF Open(d.turns) THEN Put(d.turns, [Last(d.turns) EXCEPT !.folded = @ \cup {m}])
                           ELSE d.turns
              /\ h.status = d.status /\ h.runtime = d.runtime
<1> DEFINE c == Unsteered(d, m)
<1>1. c \in Desk /\ c.turns = d.turns /\ c.status = d.status /\ c.runtime = d.runtime
  BY UnsteeredKeeps DEF ShowsOn
<1> HIDE DEF c
<1>2. CASE Active(d)
  <2>1. SteerShown(d, m) = OnTurn(c, [Last(d.turns) EXCEPT !.folded = @ \cup {m}])
    BY <1>2 DEF SteerShown, c
  <2> QED  BY <1>1, <1>2, <2>1, OnTurnEffect DEF Active, Open
<1>3. CASE ~Active(d)
  <2>1. SteerShown(d, m) = [c EXCEPT !.loose = @ \cup {m}]  BY <1>3 DEF SteerShown, c
  <2> QED  BY <1>1, <1>3, <2>1 DEF Active, Open, Desk
<1> QED  BY <1>2, <1>3

LEMMA SteerReturnedEffect ==
    ASSUME NEW d \in Desk, NEW m \in Messages, NEW drains
    PROVE  LET h == SteerReturned(d, m, drains)
           IN h.turns = d.turns /\ h.status = d.status /\ h.runtime = d.runtime
<1> DEFINE c == Unsteered(d, m)
           n == Answered(d, m)
           h == SteerReturned(d, m, drains)
<1>1. c \in Desk /\ c.turns = d.turns /\ c.status = d.status /\ c.runtime = d.runtime
  BY UnsteeredKeeps DEF ShowsOn
<1>2. \/ h = [c EXCEPT !.queue = Append(@, n)]
      \/ h = [c EXCEPT !.queue = <<n>> \o @, !.drain = @ \/ drains]
  BY DEF SteerReturned, Enqueued
<1> HIDE DEF c, h, n
<1>3. h.turns = c.turns /\ h.status = c.status /\ h.runtime = c.runtime  BY <1>1, <1>2 DEF Desk
<1> QED  BY <1>1, <1>3 DEF h

LEMMA HandledEffect ==
    ASSUME NEW d \in Desk, Sound(d.turns), NEW x \in Events, NEW drains \in BOOLEAN
    PROVE  LET h == Handled(d, x, drains)
           IN /\ h \in Desk /\ h.preparing = d.preparing /\ (~d.runtime => h = d)
              /\ d.runtime => /\ h.turns = TurnsThen(d.turns, d.status, x)
                              /\ h.status = StatusThen(d.turns, d.status, x)
                              /\ h.runtime = (x.kind # "exited")
<1> DEFINE h == Handled(d, x, drains)
           s == d.turns
<1>1. h \in Desk /\ h.preparing = d.preparing /\ (~d.runtime => h = d)
  BY HandledMoves DEF Moves
<1> SUFFICES ASSUME d.runtime
             PROVE  /\ h.turns = TurnsThen(s, d.status, x) /\ h.status = StatusThen(s, d.status, x)
                    /\ h.runtime = (x.kind # "exited")
  BY <1>1
<1> HIDE DEF h
<1>2. /\ (Active(d) <=> Open(s)) /\ (Busy(d) <=> d.status \in Active3) /\ d.runtime = TRUE
  BY ActiveIsOpen, BusyStatus DEF Desk
<1>3. s \in Seq(Turn)  BY DEF Desk
<1>4. CASE x.kind = "submitted"
  <2>1. h = Adopted(d, x.message) /\ x.message \in Messages  BY <1>4 DEF Handled, Events, h
  <2>2. CASE ~Open(s)
    <3> DEFINE b == Begin(d, x.message)
    <3>1. h = [b EXCEPT !.status = "Connecting"]  BY <2>1, <2>2, <1>2 DEF Adopted
    <3>2. b \in Desk  BY <2>1, BeginKeeps DEF Keeps, ShowsOn
    <3>3. b.turns = Append(s, NewTurn(x.message, FALSE)) /\ b.runtime = d.runtime  BY BeginEffect
    <3> HIDE DEF b
    <3> QED  BY <1>2, <1>4, <2>2, <3>1, <3>2, <3>3, StatusEffect DEF TurnsThen, StatusThen
  <2>3. CASE Open(s) /\ Prompted(d)
    BY <1>2, <1>4, <2>1, <2>3 DEF TurnsThen, StatusThen, Adopted, Prompted
  <2>4. CASE Open(s) /\ ~Prompted(d)
    <3>1. h = OnTurn(d, [Last(s) EXCEPT !.opener = x.message])  BY <2>1, <2>4, <1>2 DEF Adopted
    <3> QED  BY <1>2, <1>4, <2>4, <3>1, OnTurnEffect DEF TurnsThen, StatusThen, Prompted
  <2> QED  BY <2>2, <2>3, <2>4
<1>5. CASE x.kind = "started"
  <2>1. h = TurnStarted(d)  BY <1>5 DEF Handled, h
  <2> DEFINE b == IF Active(d) THEN d ELSE Begin(d, None)
             e == Started(b)
  <2>2. b \in Desk /\ b.runtime = d.runtime  BY BeginKeeps, KeepsSelf DEF Keeps, ShowsOn
  <2>3. h = [e EXCEPT !.status = "Working"]  BY <2>1 DEF TurnStarted
  <2>4. CASE Open(s)
    <3>1. b = d  BY <2>4, <1>2
    <3> HIDE DEF b
    <3>2. e \in Desk /\ e.runtime = d.runtime /\ e.turns = Put(s, [Last(s) EXCEPT !.started = TRUE])
      BY <2>4, <3>1, StartedEffect
    <3> HIDE DEF e
    <3> QED  BY <1>2, <1>5, <2>3, <2>4, <3>2, StatusEffect DEF TurnsThen, StatusThen
  <2>5. CASE ~Open(s)
    <3> DEFINE t == NewTurn(None, FALSE)
               u == Append(s, t)
    <3>1. t \in Turn /\ [t EXCEPT !.started = TRUE] = NewTurn(None, TRUE)  BY NewTurnStarts
    <3>2. b.turns = u  BY <2>5, <1>2, BeginEffect
    <3> HIDE DEF b, t
    <3>3. /\ u # <<>> /\ Last(u) = t /\ Len(u) = Len(s) + 1 /\ Len(s) \in Nat
          /\ DOMAIN s = 1..Len(s) /\ DOMAIN u = 1..Len(s) + 1 /\ \A i \in DOMAIN s : u[i] = s[i]
          /\ u \in Seq(Turn)
      BY <1>3, <3>1, AppendTurn
    <3> HIDE DEF u
    <3>4. Open(u)  BY <3>3 DEF Open, t, NewTurn
    <3>5. NewTurn(None, TRUE) \in Turn  BY NewTurnStarts
    <3>6. Put(u, NewTurn(None, TRUE)) = Append(s, NewTurn(None, TRUE))
      <4> DEFINE r == NewTurn(None, TRUE)
                 v == Put(u, r)
                 w == Append(s, r)
      <4> HIDE DEF r
      <4>0. r \in Turn  BY <3>5 DEF r
      <4>1. v \in Seq(Turn) /\ Len(v) = Len(u) /\ v[Len(u)] = r
            /\ \A i \in DOMAIN u : i # Len(u) => v[i] = u[i]
        BY <3>3, <4>0, PutTurn
      <4>2. w \in Seq(Turn) /\ Len(w) = Len(s) + 1 /\ w[Len(s) + 1] = r
            /\ \A i \in DOMAIN s : w[i] = s[i]
        BY <1>3, <4>0, AppendTurn
      <4> HIDE DEF v, w
      <4>3. ASSUME NEW i \in 1..Len(v) PROVE v[i] = w[i]
        <5>1. CASE i = Len(u)  BY <5>1, <4>1, <4>2, <3>3
        <5>2. CASE i # Len(u)
          <6>1. i \in DOMAIN s /\ i \in DOMAIN u  BY <5>2, <4>1, <3>3
          <6> QED  BY <6>1, <5>2, <4>1, <4>2, <3>3
        <5> QED  BY <5>1, <5>2
      <4>4. v = w  BY <4>1, <4>2, <4>3, <3>3, SeqEqual
      <4> QED  BY <4>4 DEF v, w, r
    <3>7. e \in Desk /\ e.runtime = d.runtime /\ e.turns = Append(s, NewTurn(None, TRUE))
      BY <2>2, <3>1, <3>2, <3>3, <3>4, <3>6, StartedEffect
    <3> HIDE DEF e
    <3> QED  BY <1>2, <1>5, <2>3, <2>5, <3>7, StatusEffect DEF TurnsThen, StatusThen
  <2> QED  BY <2>4, <2>5
<1>6. CASE x.kind = "parked"
  <2>1. h = IF Active(d) THEN [d EXCEPT !.status = "Background"] ELSE d  BY <1>6 DEF Handled, h
  <2> QED  BY <1>2, <1>6, <2>1, StatusEffect DEF TurnsThen, StatusThen
<1>7. CASE x.kind = "accepted"
  <2>1. h = SteerShown(d, x.message) /\ x.message \in Messages  BY <1>7 DEF Handled, Events, h
  <2> QED  BY <1>2, <1>7, <2>1, SteerShownEffect DEF TurnsThen, StatusThen
<1>8. CASE x.kind = "rejected"
  <2>1. h = SteerReturned(d, x.message, drains) /\ x.message \in Messages  BY <1>8 DEF Handled, Events, h
  <2> QED  BY <1>2, <1>8, <2>1, SteerReturnedEffect DEF TurnsThen, StatusThen
<1>9. ASSUME NEW ok \in BOOLEAN, h = TurnFinished(d, ok, drains)
      PROVE  /\ h.runtime = d.runtime
             /\ Open(s) => /\ h.turns = Put(s, [Last(s) EXCEPT !.state = IF ok THEN "Completed" ELSE "Failed"])
                           /\ h.status = IF ok THEN "Idle" ELSE "Failed"
             /\ ~Open(s) => h = d
  <2>1. CASE ~Open(s)  BY <1>2, <1>9, <2>1 DEF TurnFinished
  <2>2. CASE Open(s)
    <3> DEFINE ending == IF ok THEN "Completed" ELSE "Failed"
               e == Finished(d, ending)
               status == IF ok THEN "Idle" ELSE "Failed"
    <3>1. ending \in Endings  BY DEF Endings
    <3>2. h = [e EXCEPT !.status = status, !.drain = @ \/ (drains /\ ok)]
      BY <1>2, <1>9, <2>2 DEF TurnFinished
    <3> HIDE DEF ending, status
    <3>3. e \in Desk /\ e.runtime = d.runtime /\ e.turns = Put(s, [Last(s) EXCEPT !.state = ending])
      BY <2>2, <3>1, FinishedEffect
    <3> HIDE DEF e
    <3>4. h.runtime = e.runtime /\ h.turns = e.turns /\ h.status = status  BY <3>2, <3>3 DEF Desk
    <3> QED  BY <2>2, <3>3, <3>4 DEF ending, status
  <2> QED  BY <2>1, <2>2
<1>10. CASE x.kind = "finished"
  <2>1. h = TurnFinished(d, TRUE, drains)  BY <1>10 DEF Handled, h
  <2> QED  BY <1>9, <1>10, <2>1 DEF TurnsThen, StatusThen
<1>11. CASE x.kind = "failed"
  <2>1. h = TurnFinished(d, FALSE, drains)  BY <1>11 DEF Handled, h
  <2> QED  BY <1>9, <1>11, <2>1 DEF TurnsThen, StatusThen
<1>12. CASE x.kind = "error"
  <2>1. h = ErrorShown(d)  BY <1>12 DEF Handled, h
  <2>2. Open(s) => Prompted(d) \/ Last(s).started
    <3>1. Open(s) => s # <<>>  BY DEF Open
    <3> QED  BY <3>1, <1>3, LastSound DEF Prompted
  <2>3. h = IF Open(s) /\ d.status # "Working" THEN [d EXCEPT !.status = "Failed"] ELSE d
    BY <1>2, <2>1, <2>2 DEF ErrorShown
  <2> QED  BY <1>2, <1>12, <2>3, StatusEffect DEF TurnsThen, StatusThen
<1>13. CASE x.kind = "exited"
  <2> DEFINE f == Finished(d, "Failed")
             e == IF Busy(d) THEN [f EXCEPT !.status = "Failed"] ELSE d
  <2>1. h = [e EXCEPT !.runtime = FALSE, !.steers = <<>>, !.dropped = @ \cup ToSet(d.steers)]
    BY <1>13 DEF Handled, RuntimeLost, h
  <2>2. f \in Desk /\ f.turns = IF Open(s) THEN Put(s, [Last(s) EXCEPT !.state = "Failed"]) ELSE s
    BY FinishedEffect DEF Endings
  <2> HIDE DEF f
  <2>3. /\ e.turns = TurnsThen(s, d.status, x) /\ e.status = StatusThen(s, d.status, x)
        /\ DOMAIN e = DOMAIN d
    <3>1. CASE Busy(d)
      <4>1. /\ [f EXCEPT !.status = "Failed"].turns = f.turns
            /\ [f EXCEPT !.status = "Failed"].status = "Failed"
            /\ DOMAIN [f EXCEPT !.status = "Failed"] = DOMAIN d
        BY <2>2 DEF Desk
      <4> QED  BY <1>2, <1>13, <2>2, <3>1, <4>1 DEF TurnsThen, StatusThen
    <3>2. CASE ~Busy(d)  BY <1>2, <1>13, <3>2 DEF TurnsThen, StatusThen
    <3> QED  BY <3>1, <3>2
  <2> HIDE DEF e
  <2>4. h.turns = e.turns /\ h.status = e.status /\ h.runtime = FALSE  BY <2>1, <2>3 DEF Desk
  <2> QED  BY <1>2, <1>13, <2>3, <2>4
<1> QED
  BY <1>4, <1>5, <1>6, <1>7, <1>8, <1>10, <1>11, <1>12, <1>13 DEF Events

----------------------------------------------------------------------------
(* The desk to come                                                        *)

\* u grew out of s: no turn is gone or has another opener, and what was settled,
\* or had a turn after it, is as it was.
Grew(s, u) ==
    /\ Len(s) <= Len(u)
    /\ \A i \in 1..Len(s) :
          /\ s[i].opener # None => u[i].opener = s[i].opener
          /\ s[i].state # "Running" \/ i < Len(s) => u[i].state = s[i].state

LEMMA GrewTrans ==
    ASSUME NEW s \in Seq(Turn), NEW t \in Seq(Turn), NEW u \in Seq(Turn), Grew(s, t), Grew(t, u)
    PROVE  Grew(s, u)
<1>1. Len(s) \in Nat /\ Len(t) \in Nat /\ Len(u) \in Nat  BY LenProperties
<1>2. Len(s) <= Len(t) /\ Len(t) <= Len(u)  BY DEF Grew
<1>3. ASSUME NEW i \in 1..Len(s)
      PROVE  /\ s[i].opener # None => u[i].opener = s[i].opener
             /\ s[i].state # "Running" \/ i < Len(s) => u[i].state = s[i].state
  <2>1. i \in 1..Len(t) /\ (i < Len(s) => i < Len(t))  BY <1>1, <1>2
  <2> QED  BY <2>1 DEF Grew
<1> QED  BY <1>1, <1>2, <1>3 DEF Grew

LEMMA GrewSelf == ASSUME NEW s \in Seq(Turn) PROVE Grew(s, s)
<1>1. Len(s) \in Nat  BY LenProperties
<1> QED  BY <1>1 DEF Grew

LEMMA PutGrows ==
    ASSUME NEW s \in Seq(Turn), Sound(s), Open(s), NEW t \in Turn,
           Last(s).opener # None => t.opener = Last(s).opener,
           t.opener # None \/ t.started
    PROVE  Put(s, t) \in Seq(Turn) /\ Grew(s, Put(s, t)) /\ Sound(Put(s, t))
<1>1. /\ Put(s, t) \in Seq(Turn) /\ Len(Put(s, t)) = Len(s) /\ DOMAIN Put(s, t) = DOMAIN s
      /\ DOMAIN s = 1..Len(s) /\ Len(s) \in Nat /\ Put(s, t)[Len(s)] = t
      /\ \A i \in DOMAIN s : i # Len(s) => Put(s, t)[i] = s[i]
      /\ Last(s) = s[Len(s)] /\ Last(s).state = "Running"
  BY PutTurn DEF Open
<1> DEFINE u == Put(s, t)
<1> HIDE DEF u
<1>2. ASSUME NEW i \in 1..Len(s)
      PROVE  /\ s[i].opener # None => u[i].opener = s[i].opener
             /\ s[i].state # "Running" \/ i < Len(s) => u[i].state = s[i].state
  <2>1. CASE i = Len(s)  BY <2>1, <1>1 DEF u
  <2>2. CASE i # Len(s)  BY <2>2, <1>1 DEF u
  <2> QED  BY <2>1, <2>2
<1>3. Grew(s, u)  BY <1>1, <1>2 DEF Grew, u
<1>4. Sound(u)
  <2> SUFFICES ASSUME NEW i \in DOMAIN s PROVE u[i].opener # None \/ u[i].started
    BY <1>1 DEF Sound, u
  <2>1. CASE i = Len(s)  BY <2>1, <1>1 DEF u
  <2>2. CASE i # Len(s)  BY <2>2, <1>1 DEF u, Sound
  <2> QED  BY <2>1, <2>2
<1> QED  BY <1>1, <1>3, <1>4 DEF u

LEMMA AppendGrows ==
    ASSUME NEW s \in Seq(Turn), Sound(s), NEW t \in Turn, t.opener # None \/ t.started
    PROVE  Append(s, t) \in Seq(Turn) /\ Grew(s, Append(s, t)) /\ Sound(Append(s, t))
<1> DEFINE u == Append(s, t)
<1>1. /\ u \in Seq(Turn) /\ Len(u) = Len(s) + 1 /\ Len(s) \in Nat
      /\ DOMAIN s = 1..Len(s) /\ DOMAIN u = 1..Len(s) + 1 /\ u[Len(s) + 1] = t
      /\ \A i \in DOMAIN s : u[i] = s[i]
  BY AppendTurn
<1> HIDE DEF u
<1>2. Grew(s, u)  BY <1>1 DEF Grew
<1>3. Sound(u)
  <2> SUFFICES ASSUME NEW i \in DOMAIN u PROVE u[i].opener # None \/ u[i].started  BY DEF Sound
  <2>1. CASE i = Len(s) + 1  BY <2>1, <1>1
  <2>2. CASE i # Len(s) + 1
    <3>1. i \in DOMAIN s  BY <2>2, <1>1
    <3> QED  BY <3>1, <1>1 DEF Sound
  <2> QED  BY <2>1, <2>2
<1> QED  BY <1>1, <1>2, <1>3 DEF u

LEMMA TurnsGrow ==
    ASSUME NEW s \in Seq(Turn), Sound(s), NEW status, NEW x \in Events
    PROVE  LET u == TurnsThen(s, status, x) IN u \in Seq(Turn) /\ Sound(u) /\ Grew(s, u)
<1> DEFINE u == TurnsThen(s, status, x)
           l == Last(s)
<1> SUFFICES u \in Seq(Turn) /\ Sound(u) /\ Grew(s, u)  OBVIOUS
<1>1. Open(s) => l \in Turn /\ (l.opener # None \/ l.started)  BY LastSound DEF Open
<1>2. Grew(s, s)  BY GrewSelf
<1>3. CASE u = s  BY <1>2, <1>3
<1>4. CASE x.kind = "submitted" /\ ~Open(s)
  <2>1. NewTurn(x.message, FALSE) \in Turn /\ NewTurn(x.message, FALSE).opener # None
    BY <1>4, NewTurnStarts, ConstantsAssumption DEF Events, NewTurn
  <2>2. u = Append(s, NewTurn(x.message, FALSE))  BY <1>4 DEF TurnsThen
  <2> HIDE DEF u
  <2> QED  BY <2>1, <2>2, AppendGrows
<1>5. CASE x.kind = "submitted" /\ Open(s) /\ ~(l.opener # None \/ l.folded # {})
  <2> DEFINE t == [l EXCEPT !.opener = x.message]
  <2>1. x.message \in Messages  BY <1>5 DEF Events
  <2>2. t \in Turn /\ t.opener = x.message  BY <1>1, <1>5, <2>1 DEF Turn
  <2>3. u = Put(s, t)  BY <1>5 DEF TurnsThen
  <2> HIDE DEF u, t, l
  <2> QED  BY <1>5, <2>1, <2>2, <2>3, PutGrows, ConstantsAssumption DEF l
<1>6. CASE x.kind = "started" /\ ~Open(s)
  <2>1. NewTurn(None, TRUE) \in Turn /\ NewTurn(None, TRUE).started
    BY NewTurnStarts DEF NewTurn
  <2>2. u = Append(s, NewTurn(None, TRUE))  BY <1>6 DEF TurnsThen
  <2> HIDE DEF u
  <2> QED  BY <2>1, <2>2, AppendGrows
<1>7. ASSUME Open(s), NEW t \in Turn, t.opener = l.opener, l.started => t.started, u = Put(s, t)
      PROVE  u \in Seq(Turn) /\ Sound(u) /\ Grew(s, u)
  <2> HIDE DEF u, l
  <2> QED  BY <1>1, <1>7, PutGrows DEF l
<1>8. CASE x.kind = "started" /\ Open(s)
  <2> DEFINE t == [l EXCEPT !.started = TRUE]
  <2>1. t \in Turn /\ t.opener = l.opener /\ t.started  BY <1>1, <1>8 DEF Turn
  <2>2. u = Put(s, t)  BY <1>8 DEF TurnsThen
  <2> HIDE DEF u, t, l
  <2> QED  BY <1>7, <1>8, <2>1, <2>2
<1>9. CASE x.kind = "accepted" /\ Open(s)
  <2> DEFINE t == [l EXCEPT !.folded = @ \cup {x.message}]
  <2>1. t \in Turn /\ t.opener = l.opener /\ t.started = l.started  BY <1>1, <1>9 DEF Turn, Events
  <2>2. u = Put(s, t)  BY <1>9 DEF TurnsThen
  <2> HIDE DEF u, t, l
  <2> QED  BY <1>7, <1>9, <2>1, <2>2
<1>10. CASE x.kind \in {"finished", "failed", "exited"} /\ Open(s) /\ u # s
  <2>1. PICK ending \in {"Completed", "Failed"} : u = Put(s, [l EXCEPT !.state = ending])
    BY <1>10 DEF TurnsThen
  <2> DEFINE t == [l EXCEPT !.state = ending]
  <2>2. t \in Turn /\ t.opener = l.opener /\ t.started = l.started  BY <1>1, <1>10 DEF Turn, Endings
  <2> HIDE DEF u, l, t
  <2> QED  BY <1>7, <1>10, <2>1, <2>2 DEF t
<1>11. \/ u = s
       \/ x.kind = "submitted" /\ ~Open(s)
       \/ x.kind = "submitted" /\ Open(s) /\ ~(l.opener # None \/ l.folded # {})
       \/ x.kind = "started"
       \/ x.kind = "accepted" /\ Open(s)
       \/ x.kind \in {"finished", "failed", "exited"} /\ Open(s) /\ u # s
  BY DEF TurnsThen, Events
<1> QED  BY <1>3, <1>4, <1>5, <1>6, <1>8, <1>9, <1>10, <1>11

Known(d) == d \in Desk /\ Sound(d.turns)

\* No event can tell the turns of e from those of d.
Alike(d, e) == Known(d) /\ Known(e) /\ e.turns = d.turns /\ e.status = d.status /\ e.runtime = d.runtime

LEMMA AlikeTrans ==
    ASSUME NEW c, NEW d, NEW e, Alike(c, d), Alike(d, e) PROVE Alike(c, e) /\ Alike(d, c)
BY DEF Alike

LEMMA AlikeSelf == ASSUME NEW d, Known(d) PROVE Alike(d, d)
BY DEF Alike

LEMMA HandledKnown ==
    ASSUME NEW d, Known(d), NEW x \in Events, NEW b \in BOOLEAN
    PROVE  /\ Known(Handled(d, x, b)) /\ Grew(d.turns, Handled(d, x, b).turns)
           /\ Handled(d, x, b).preparing = d.preparing
           /\ ~d.runtime => Handled(d, x, b) = d
           /\ d.runtime => Handled(d, x, b).runtime = (x.kind # "exited")
<1> DEFINE h == Handled(d, x, b)
<1>1. d \in Desk /\ Sound(d.turns) /\ d.turns \in Seq(Turn)  BY DEF Known, Desk
<1>2. /\ h \in Desk /\ h.preparing = d.preparing /\ (~d.runtime => h = d)
      /\ d.runtime => h.turns = TurnsThen(d.turns, d.status, x) /\ h.runtime = (x.kind # "exited")
  BY <1>1, HandledEffect
<1> HIDE DEF h
<1>3. CASE ~d.runtime  BY <1>1, <1>2, <1>3, GrewSelf DEF Known, h
<1>4. CASE d.runtime  BY <1>1, <1>2, <1>4, TurnsGrow DEF Known, h
<1> QED  BY <1>3, <1>4

LEMMA HandledAlike ==
    ASSUME NEW d, NEW e, Alike(d, e), NEW x \in Events, NEW b \in BOOLEAN, NEW c \in BOOLEAN
    PROVE  Alike(Handled(d, x, b), Handled(e, x, c))
<1>1. d \in Desk /\ Sound(d.turns) /\ e \in Desk /\ Sound(e.turns) /\ Known(d) /\ Known(e)
      /\ e.turns = d.turns /\ e.status = d.status /\ e.runtime = d.runtime
  BY DEF Alike, Known
<1> DEFINE h == Handled(d, x, b)
           i == Handled(e, x, c)
<1>2. Known(h) /\ Known(i)  BY <1>1, HandledKnown
<1>3. /\ ~d.runtime => h = d
      /\ d.runtime => /\ h.turns = TurnsThen(d.turns, d.status, x)
                      /\ h.status = StatusThen(d.turns, d.status, x)
                      /\ h.runtime = (x.kind # "exited")
  BY <1>1, HandledEffect
<1>4. /\ ~e.runtime => i = e
      /\ e.runtime => /\ i.turns = TurnsThen(e.turns, e.status, x)
                      /\ i.status = StatusThen(e.turns, e.status, x)
                      /\ i.runtime = (x.kind # "exited")
  BY <1>1, HandledEffect
<1> HIDE DEF h, i
<1> QED  BY <1>1, <1>2, <1>3, <1>4 DEF Alike, h, i

\* The same events lead desks that are alike to desks that are alike.
LEMMA Together ==
    ASSUME NEW n \in Nat, NEW es, \A k \in 1..n : es[k] \in Events,
           NEW b \in BOOLEAN, NEW c \in BOOLEAN, NEW f, NEW g, Alike(f[0], g[0]),
           \A k \in 1..n : f[k] = Handled(f[k - 1], es[k], b) /\ g[k] = Handled(g[k - 1], es[k], c)
    PROVE  Alike(f[n], g[n])
<1> DEFINE K == {k \in 0..n : ~Alike(f[k], g[k])}
<1> SUFFICES ASSUME K # {} PROVE FALSE  OBVIOUS
<1>1. K \in SUBSET Nat  OBVIOUS
<1>2. PICK k \in K : \A j \in K : k <= j  BY <1>1, LeastNumber
<1>3. k # 0 /\ k \in 0..n  BY <1>2
<1>4. k \in 1..n /\ k - 1 \in 0..n /\ ~(k <= k - 1)  BY <1>3
<1>5. Alike(f[k - 1], g[k - 1])  BY <1>2, <1>4
<1>6. f[k] = Handled(f[k - 1], es[k], b) /\ g[k] = Handled(g[k - 1], es[k], c) /\ es[k] \in Events
  BY <1>4
<1>7. Alike(f[k], g[k])  BY <1>5, <1>6, HandledAlike
<1> QED  BY <1>2, <1>7

LEMMA HandledAllAlike ==
    ASSUME NEW d, NEW e, Alike(d, e), NEW es \in Seq(Events), NEW b \in BOOLEAN, NEW c \in BOOLEAN
    PROVE  Alike(HandledAll(d, es, b), HandledAll(e, es, c))
<1> DEFINE n == Len(es)
<1>1. n \in Nat /\ \A k \in 1..n : es[k] \in Events  BY LenProperties, ElementOfSeq
<1>2. PICK f : Leads(f, d, es, b, n)  BY <1>1, HandledAllSteps
<1>3. PICK g : Leads(g, e, es, c, n)  BY <1>1, HandledAllSteps
<1> HIDE DEF n
<1>4. Alike(f[n], g[n])  BY <1>1, <1>2, <1>3, Together DEF Leads
<1> QED  BY <1>2, <1>3, <1>4 DEF Leads

\* What any number of events does.
LEMMA HandledAllKnown ==
    ASSUME NEW d, Known(d), NEW es \in Seq(Events), NEW b \in BOOLEAN
    PROVE  LET h == HandledAll(d, es, b)
           IN /\ Known(h) /\ Grew(d.turns, h.turns) /\ h.preparing = d.preparing
              /\ ~d.runtime => h = d
              /\ d.runtime /\ (\A k \in DOMAIN es : es[k].kind # "exited") => h.runtime
<1> DEFINE n == Len(es)
<1>1. n \in Nat /\ DOMAIN es = 1..n /\ \A k \in 1..n : es[k] \in Events  BY LenProperties, ElementOfSeq
<1>2. PICK f : Leads(f, d, es, b, n)  BY <1>1, HandledAllSteps
<1> HIDE DEF n
<1> DEFINE P(k) == /\ Known(f[k]) /\ Grew(d.turns, f[k].turns) /\ f[k].preparing = d.preparing
                   /\ ~d.runtime => f[k] = d
                   /\ d.runtime /\ (\A j \in DOMAIN es : es[j].kind # "exited") => f[k].runtime
           K == {k \in 0..n : ~P(k)}
<1>3. P(0)
  <2>1. Grew(d.turns, d.turns)  BY GrewSelf DEF Known, Desk
  <2> QED  BY <2>1, <1>2 DEF Leads
<1>4. ASSUME NEW k \in 1..n, P(k - 1) PROVE P(k)
  <2> DEFINE e == f[k - 1]
  <2>1. f[k] = Handled(e, es[k], b) /\ es[k] \in Events  BY <1>1, <1>2 DEF Leads
  <2>2. /\ Known(f[k]) /\ Grew(e.turns, f[k].turns) /\ f[k].preparing = e.preparing
        /\ ~e.runtime => f[k] = e
        /\ e.runtime => f[k].runtime = (es[k].kind # "exited")
    BY <1>4, <2>1, HandledKnown
  <2>3. Grew(d.turns, f[k].turns)
    BY <1>4, <2>2, GrewTrans DEF Known, Desk
  <2> QED  BY <1>1, <1>4, <2>2, <2>3
<1> HIDE DEF P
<1>5. P(n)
  <2> SUFFICES ASSUME K # {} PROVE FALSE  BY <1>1
  <2>1. K \in SUBSET Nat  OBVIOUS
  <2>2. PICK k \in K : \A j \in K : k <= j  BY <2>1, LeastNumber
  <2>3. k # 0 /\ k \in 0..n  BY <2>2, <1>3
  <2>4. k \in 1..n /\ k - 1 \in 0..n /\ ~(k <= k - 1)  BY <2>3, <1>1
  <2>5. P(k - 1)  BY <2>2, <2>4
  <2> QED  BY <2>2, <2>4, <2>5, <1>4
<1>6. f[n] = HandledAll(d, es, b)  BY <1>2 DEF Leads
<1> QED  BY <1>5, <1>6 DEF P

LEMMA NothingComes == ASSUME NEW d, NEW b PROVE HandledAll(d, <<>>, b) = d
<1>1. Len(<<>>) = 0  OBVIOUS
<1>2. PICK f : Leads(f, d, <<>>, b, 0)  BY <1>1, HandledAllSteps
<1> QED  BY <1>2 DEF Leads

\* The events that have been handled, and those that are left.
LEMMA SplitAlike ==
    ASSUME NEW d, Known(d), NEW es \in Seq(Events), NEW n \in 0..Len(es),
           NEW a \in BOOLEAN, NEW b \in BOOLEAN, NEW c \in BOOLEAN, NEW e,
           Alike(HandledAll(d, SubSeq(es, 1, n), a), e)
    PROVE  Alike(HandledAll(d, es, b), HandledAll(e, SubSeq(es, n + 1, Len(es)), c))
<1> DEFINE m == Len(es)
           s == SubSeq(es, 1, n)
           t == SubSeq(es, n + 1, m)
<1>1. m \in Nat /\ n \in Nat /\ n <= m /\ \A k \in 1..m : es[k] \in Events  BY LenProperties, ElementOfSeq
<1>2. Len(s) = n /\ \A k \in 1..n : s[k] = es[k]  BY <1>1, SubSeqProperties
<1>3. Len(t) = m - n /\ \A k \in 1..m - n : t[k] = es[n + k]  BY <1>1, SubSeqProperties
<1> HIDE DEF m, s, t
<1>4. PICK f : Leads(f, d, es, b, m)  BY <1>1, HandledAllSteps DEF m
<1>5. PICK g : Leads(g, d, s, a, n)  BY <1>1, <1>2, HandledAllSteps
<1>6. Alike(f[n], g[n])
  <2>1. \A k \in 1..n : k \in 1..m  BY <1>1
  <2>2. \A k \in 1..n : f[k] = Handled(f[k - 1], es[k], b) /\ g[k] = Handled(g[k - 1], es[k], a)
    BY <1>2, <1>4, <1>5, <2>1 DEF Leads
  <2>3. Alike(f[0], g[0])  BY <1>4, <1>5, AlikeSelf DEF Leads
  <2> QED  BY <1>1, <2>1, <2>2, <2>3, Together
<1>7. Alike(f[n], e)
  <2>1. g[n] = HandledAll(d, s, a)  BY <1>5 DEF Leads
  <2> QED  BY <1>6, <2>1, AlikeTrans DEF s
<1>8. m - n \in Nat  BY <1>1
<1>9. PICK h : Leads(h, e, t, c, m - n)  BY <1>3, <1>8, HandledAllSteps
<1> DEFINE i == [j \in 0..m - n |-> f[n + j]]
<1>10. i[0] = f[n] /\ i[m - n] = f[m]  BY <1>1
<1>11. ASSUME NEW k \in 1..m - n
       PROVE  /\ i[k] = Handled(i[k - 1], t[k], b) /\ h[k] = Handled(h[k - 1], t[k], c)
              /\ t[k] \in Events
  <2>1. n + k \in 1..m /\ k \in 0..m - n /\ k - 1 \in 0..m - n /\ (n + k) - 1 = n + (k - 1)  BY <1>1
  <2>2. f[n + k] = Handled(f[(n + k) - 1], es[n + k], b)  BY <2>1, <1>4 DEF Leads
  <2> QED  BY <2>1, <2>2, <1>1, <1>3, <1>9 DEF Leads
<1> HIDE DEF i
<1>12. Alike(i[0], h[0])  BY <1>7, <1>9, <1>10 DEF Leads
<1>13. Alike(i[m - n], h[m - n])  BY <1>8, <1>11, <1>12, Together
<1> QED  BY <1>4, <1>9, <1>10, <1>13 DEF Leads, m, t

\* One more event is on its way.
LEMMA OneMoreComes ==
    ASSUME NEW d, Known(d), NEW es \in Seq(Events), NEW x \in Events, NEW b \in BOOLEAN
    PROVE  Alike(HandledAll(d, Append(es, x), b), Handled(HandledAll(d, es, b), x, b))
<1> DEFINE n == Len(es)
           fs == Append(es, x)
<1>1. /\ n \in Nat /\ n + 1 \in Nat /\ Len(fs) = n + 1 /\ fs[n + 1] = x
      /\ \A k \in 1..n : fs[k] = es[k] /\ es[k] \in Events
  BY AppendProperties, LenProperties, ElementOfSeq
<1> HIDE DEF n, fs
<1>2. PICK f : Leads(f, d, fs, b, n + 1)  BY <1>1, HandledAllSteps
<1>3. PICK g : Leads(g, d, es, b, n)  BY <1>1, HandledAllSteps DEF n
<1>4. \A k \in 1..n : k \in 1..n + 1  BY <1>1
<1>5. Alike(f[0], g[0])  BY <1>2, <1>3, AlikeSelf DEF Leads
<1>6. Alike(f[n], g[n])
  <2>1. \A k \in 1..n : f[k] = Handled(f[k - 1], es[k], b) /\ g[k] = Handled(g[k - 1], es[k], b)
    BY <1>1, <1>2, <1>3, <1>4 DEF Leads
  <2> QED  BY <1>1, <1>5, <2>1, Together
<1>7. f[n + 1] = Handled(f[n], x, b)
  <2>1. n + 1 \in 1..n + 1 /\ (n + 1) - 1 = n  BY <1>1
  <2> QED  BY <2>1, <1>1, <1>2 DEF Leads
<1>8. Alike(f[n + 1], Handled(g[n], x, b))  BY <1>6, <1>7, HandledAlike
<1> QED  BY <1>2, <1>3, <1>8 DEF Leads, fs

----------------------------------------------------------------------------
(* What the steps of the client do to the task                             *)

\* The turns and the status of the task, its runtime and its preparations stay
\* those of d.
Still(d) ==
    /\ desk' \in Desk /\ desk'.turns = d.turns /\ desk'.status = d.status /\ desk'.runtime = d.runtime
    /\ desk'.preparing = d.preparing /\ preparations' = preparations /\ mixed' = mixed

\* m begins a turn of d, which has yet to handle es, and is prepared.
Opens(d, m, es) ==
    /\ ~Busy(d) /\ desk' \in Desk
    /\ desk'.turns = Append(d.turns, NewTurn(m, FALSE)) /\ desk'.status = "Connecting"
    /\ desk'.runtime = d.runtime /\ desk'.preparing = TRUE
    /\ preparations' = preparations \cup {[message |-> m, starts |-> ~d.runtime]}
    /\ mixed' = (mixed \/ ~ProviderQuiet(d, es) \/ preparations # {})

LEMMA SubmitEffect ==
    ASSUME NEW d \in Desk, NEW m \in Messages, NEW es, Submit(d, m, es), mixed \in BOOLEAN,
           desk' \in Desk
    PROVE  Still(d) \/ Opens(d, m, es)
<1>1. /\ desk' = Submitted(d, m)
      /\ preparations' = IF Accepts(d) THEN preparations \cup {Preparation(d, m)} ELSE preparations
      /\ mixed' = (mixed \/ (Accepts(d) /\ (~ProviderQuiet(d, es) \/ preparations # {})))
  BY DEF Submit
<1>2. CASE Accepts(d)
  <2>1. desk' = [Begin(d, m) EXCEPT !.status = "Connecting", !.preparing = TRUE] /\ ~Busy(d)
    BY <1>1, <1>2 DEF Accepts, Submitted
  <2> DEFINE b == Begin(d, m)
  <2>2. b \in Desk /\ b.turns = Append(d.turns, NewTurn(m, FALSE)) /\ b.runtime = d.runtime
    <3>1. Keeps(d, b)  BY BeginKeeps
    <3> QED  BY <3>1, BeginEffect DEF Keeps, ShowsOn
  <2> HIDE DEF b
  <2>3. /\ desk'.turns = b.turns /\ desk'.status = "Connecting" /\ desk'.runtime = b.runtime
        /\ desk'.preparing = TRUE
    BY <2>1, <2>2 DEF Desk, b
  <2> QED  BY <1>1, <1>2, <2>1, <2>2, <2>3 DEF Opens, Preparation
<1>3. CASE ~Accepts(d)
  <2>1. desk' = Enqueued(d, m) \/ desk' = [Enqueued(d, m) EXCEPT !.drain = TRUE]
    BY <1>1, <1>3 DEF Accepts, Submitted
  <2>2. /\ desk'.turns = d.turns /\ desk'.status = d.status /\ desk'.runtime = d.runtime
        /\ desk'.preparing = d.preparing
    BY <2>1 DEF Desk, Enqueued
  <2> QED  BY <1>1, <1>3, <2>2 DEF Still
<1> QED  BY <1>2, <1>3

\* A step of the user, or the end of a capture: a turn begins, or the task stays
\* as it is and a steer may go out.
UserStep ==
    /\ UNCHANGED <<events, driver, stdin, cli, incidents, answered>>
    /\ \/ Still(desk) /\ inbox' = inbox
       \/ \E m \in Messages : /\ Still(desk) /\ CanSteer(desk)
                              /\ inbox' = Append(inbox, [op |-> "steer", message |-> m])
       \/ \E m \in Messages : Opens(desk, m, events) /\ inbox' = inbox

LEMMA SteerEffect ==
    ASSUME NEW d \in Desk, NEW m \in Messages, SteerMessage(d, m), mixed \in BOOLEAN, desk' \in Desk
    PROVE  \/ Still(d) /\ inbox' = inbox
           \/ Still(d) /\ CanSteer(d) /\ inbox' = Append(inbox, [op |-> "steer", message |-> m])
           \/ Opens(d, m, events) /\ inbox' = inbox
<1>1. CASE ~Busy(d)
  <2>1. Submit(d, m, events) /\ inbox' = inbox  BY <1>1 DEF SteerMessage
  <2> QED  BY <2>1, SubmitEffect
<1>2. CASE Busy(d) /\ CanSteer(d)
  <2>1. /\ desk' = [d EXCEPT !.steers = Append(@, m)]
        /\ inbox' = Append(inbox, [op |-> "steer", message |-> m])
        /\ preparations' = preparations /\ mixed' = mixed
    BY <1>2 DEF SteerMessage
  <2>2. Still(d)  BY <2>1 DEF Still, Desk
  <2> QED  BY <1>2, <2>1, <2>2
<1>3. CASE Busy(d) /\ ~CanSteer(d)
  <2>1. /\ desk' = Enqueued(d, m) /\ inbox' = inbox
        /\ preparations' = preparations /\ mixed' = mixed
    BY <1>3 DEF SteerMessage
  <2>2. Still(d)  BY <2>1 DEF Still, Desk, Enqueued
  <2> QED  BY <2>1, <2>2
<1> QED  BY <1>1, <1>2, <1>3

\* d differs from the desk in what no turn depends on.
SameTask(d) ==
    /\ d \in Desk /\ d.turns = desk.turns /\ d.status = desk.status /\ d.runtime = desk.runtime
    /\ d.preparing = desk.preparing

LEMMA SameSteps ==
    ASSUME NEW d, SameTask(d)
    PROVE  /\ Still(d) => Still(desk)
           /\ \A m, es : Opens(d, m, es) => Opens(desk, m, es)
           /\ CanSteer(d) => CanSteer(desk)
BY DEF SameTask, Still, Opens, ProviderQuiet, CanSteer, Busy, Active

LEMMA UnqueuedSame ==
    ASSUME desk \in Desk, NEW i \in DOMAIN desk.queue
    PROVE  SameTask(Unqueued(i)) /\ desk.queue[i] \in Messages
<1>1. desk.queue \in Seq(Messages)  BY DEF Desk
<1>2. RemoveAt(desk.queue, i) \in Seq(Messages) /\ desk.queue[i] \in Messages
  BY <1>1, RemoveAtMarks, ElementOfSeq, LenProperties
<1> DEFINE q == RemoveAt(desk.queue, i)
           d == Unqueued(i)
<1>3. d = [desk EXCEPT !.queue = q]  BY DEF Unqueued
<1> HIDE DEF q, d
<1>4. SameTask(d)  BY <1>2, <1>3 DEF SameTask, Desk, q
<1> QED  BY <1>2, <1>4 DEF d

LEMMA UserSteps ==
    ASSUME TurnsInv, TurnsInv',
           \/ \E m \in Messages : Send(m) \/ Steer(m)
           \/ \E i \in DOMAIN desk.queue : SteerQueued(i) \/ EditQueued(i) \/ RemoveQueued(i)
    PROVE  UserStep
<1>1. desk \in Desk /\ desk' \in Desk /\ mixed \in BOOLEAN  BY DEF TurnsInv, TypeOK
<1>2. SameTask(desk)  BY <1>1 DEF SameTask
<1>3. ASSUME NEW m \in Messages, Send(m) PROVE UserStep
  <2>1. /\ UNCHANGED <<events, driver, stdin, cli, incidents, answered>>
        /\ \/ SteerMessage(desk, m)
           \/ desk' = Enqueued(desk, m) /\ UNCHANGED <<preparations, inbox, mixed>>
           \/ Submit(desk, m, events) /\ UNCHANGED inbox
    BY <1>3 DEF Send
  <2>2. CASE desk' = Enqueued(desk, m) /\ UNCHANGED <<preparations, inbox, mixed>>
    <3>1. Still(desk)  BY <1>1, <2>2 DEF Still, Desk, Enqueued
    <3> QED  BY <2>1, <2>2, <3>1 DEF UserStep
  <2>3. CASE SteerMessage(desk, m)  BY <1>1, <2>1, <2>3, SteerEffect DEF UserStep
  <2>4. CASE Submit(desk, m, events) /\ UNCHANGED inbox  BY <1>1, <2>1, <2>4, SubmitEffect DEF UserStep
  <2> QED  BY <2>1, <2>2, <2>3, <2>4
<1>4. ASSUME NEW m \in Messages, Steer(m) PROVE UserStep
  <2>1. UNCHANGED <<events, driver, stdin, cli, incidents, answered>> /\ SteerMessage(desk, m)
    BY <1>4 DEF Steer
  <2> QED  BY <1>1, <2>1, SteerEffect DEF UserStep
<1>5. ASSUME NEW i \in DOMAIN desk.queue, SteerQueued(i) PROVE UserStep
  <2> DEFINE d == Unqueued(i)
             m == desk.queue[i]
  <2>1. UNCHANGED <<events, driver, stdin, cli, incidents, answered>> /\ SteerMessage(d, m)
    BY <1>5 DEF SteerQueued
  <2>2. SameTask(d) /\ m \in Messages /\ d \in Desk  BY <1>1, UnqueuedSame DEF SameTask
  <2> HIDE DEF d, m
  <2>3. \/ Still(d) /\ inbox' = inbox
        \/ Still(d) /\ CanSteer(d) /\ inbox' = Append(inbox, [op |-> "steer", message |-> m])
        \/ Opens(d, m, events) /\ inbox' = inbox
    BY <1>1, <2>1, <2>2, SteerEffect
  <2> QED  BY <2>1, <2>2, <2>3, SameSteps DEF UserStep
<1>6. ASSUME NEW i \in DOMAIN desk.queue, EditQueued(i) \/ RemoveQueued(i) PROVE UserStep
  <2>1. /\ UNCHANGED <<events, driver, stdin, cli, incidents, answered, inbox, preparations, mixed>>
        /\ desk' = Unqueued(i)
    BY <1>6 DEF EditQueued, RemoveQueued, driverVars, history
  <2>2. SameTask(Unqueued(i))  BY <1>1, UnqueuedSame
  <2>3. Still(desk)  BY <2>1, <2>2 DEF SameTask, Still
  <2> QED  BY <2>1, <2>3 DEF UserStep
<1> QED  BY <1>3, <1>4, <1>5, <1>6

\* A queue that starts its first message.
LEMMA HeadOpens ==
    ASSUME NEW d \in Desk, d.queue # <<>>, NEW e, e = [d EXCEPT !.queue = Tail(@)],
           NEW es, Submit(e, Head(d.queue), es), mixed \in BOOLEAN, desk' \in Desk
    PROVE  /\ Head(d.queue) \in Messages
           /\ Still(d) \/ (Opens(d, Head(d.queue), es) /\ Hits(d.queue, {Head(d.queue)}))
<1>1. d.queue \in Seq(Messages)  BY DEF Desk
<1>2. /\ Tail(d.queue) \in Seq(Messages) /\ Head(d.queue) \in Messages
      /\ Hits(d.queue, {Head(d.queue)})
  BY <1>1, TailMarks
<1>3. e \in Desk /\ e.turns = d.turns /\ e.status = d.status /\ e.runtime = d.runtime
      /\ e.preparing = d.preparing
  BY <1>2 DEF Desk
<1>4. Still(e) \/ Opens(e, Head(d.queue), es)  BY <1>2, <1>3, SubmitEffect
<1> QED  BY <1>2, <1>3, <1>4 DEF Still, Opens, ProviderQuiet, Busy

\* ... is left with no message that it did not hold.
LEMMA HeadLeaves ==
    ASSUME NEW d \in Desk, d.queue # <<>>, NEW es,
           Submit([d EXCEPT !.queue = Tail(@)], Head(d.queue), es)
    PROVE  desk'.misread = d.misread /\ \A x : Hits(desk'.queue, {x}) => Hits(d.queue, {x})
<1> DEFINE q == Tail(d.queue)
           m == Head(d.queue)
           e == WithQueue(d, q)
<1>1. d.queue \in Seq(Messages)  BY DEF Desk
<1>2. /\ q \in Seq(Messages) /\ m \in Messages
      /\ \A x : Hits(d.queue, {x}) <=> m \in {x} \/ Hits(q, {x})
  BY <1>1, TailMarks
<1> HIDE DEF q, m
<1>3. e \in Desk /\ e.queue = q /\ e.misread = d.misread  BY <1>2, DeskWithout
<1>4. Submit(e, m, es)  BY DEF e, q, m, WithQueue
<1> HIDE DEF e
<1>5. Goes(e, m, inbox, inbox)  BY <1>2, <1>3, <1>4, SubmitGoes
<1>6. \A x : Hits(Append(q, m), {x}) <=> Hits(q, {x}) \/ x = m  BY <1>2, QueuedMarks
<1> QED  BY <1>2, <1>3, <1>5, <1>6 DEF Goes

LEMMA EndCaptureSteps ==
    ASSUME TurnsInv, TurnsInv', NEW count \in desk.captures, EndCapture(count)
    PROVE  UserStep
<1> DEFINE c == desk.captures \ {count}
           d == [desk EXCEPT !.captures = c, !.drain = FALSE]
<1>1. desk \in Desk /\ desk' \in Desk /\ mixed \in BOOLEAN /\ c \in SUBSET Nat
  BY DEF TurnsInv, TypeOK, Desk
<1>2. /\ IF desk.drain /\ Drains(d) THEN Submit([d EXCEPT !.queue = Tail(@)], Head(d.queue), events)
         ELSE desk' = d /\ UNCHANGED <<preparations, mixed>>
      /\ UNCHANGED <<inbox, events, driver, stdin, cli, incidents, answered>>
  BY DEF EndCapture, driverVars
<1> HIDE DEF c
<1>3. SameTask(d)  BY <1>1 DEF SameTask, Desk
<1>4. d \in Desk  BY <1>3 DEF SameTask
<1> HIDE DEF d
<1>5. CASE desk.drain /\ Drains(d)
  <2>1. d.queue # <<>>  BY <1>5 DEF Drains
  <2>2. Head(d.queue) \in Messages /\ (Still(d) \/ Opens(d, Head(d.queue), events))
    BY <1>1, <1>2, <1>4, <1>5, <2>1, HeadOpens
  <2> QED  BY <1>2, <1>3, <2>2, SameSteps DEF UserStep
<1>6. CASE ~(desk.drain /\ Drains(d))
  <2>1. Still(desk)  BY <1>2, <1>3, <1>6 DEF SameTask, Still
  <2> QED  BY <1>2, <2>1 DEF UserStep
<1> QED  BY <1>5, <1>6

----------------------------------------------------------------------------
(* What is known of the driver and the process, whatever the user does     *)

Exits == {Event("exited")}

\* A runtime that is gone has said and left nothing, only a process that has
\* ended reports it, and what it serves is part of a reply.
Ground ==
    /\ ~desk.runtime => /\ inbox = <<>> /\ events = <<>> /\ stdin = <<>>
                        /\ driver = NewDriver /\ cli = NewCli
    /\ Hits(events, Exits) => cli.exited
    /\ cli.exited => ~cli.alive
    /\ ~cli.alive => "crash" \in incidents
    /\ ~cli.running => cli.serving = {}
    /\ Sound(desk.turns)

LEMMA ClosedGround ==
    ASSUME Closed, Sound(desk'.turns) PROVE Ground'
<1>1. ~Hits(events', Exits)  BY EmptyMarks DEF Closed
<1> QED  BY <1>1 DEF Ground, Closed, NewCli

LEMMA RestHits ==
    ASSUME NEW es \in Seq(Events), NEW n \in 0..Len(es), NEW S, Hits(SubSeq(es, n + 1, Len(es)), S)
    PROVE  Hits(es, S)
<1> DEFINE m == Len(es)
           t == SubSeq(es, n + 1, m)
<1>1. m \in Nat /\ n \in Nat /\ n <= m /\ DOMAIN es = 1..m /\ \A k \in 1..m : es[k] \in Events
  BY LenProperties, ElementOfSeq
<1> HIDE DEF m
<1>2. \A k \in n + 1..m : es[k] \in Events  BY <1>1
<1>3. t \in Seq(Events)  BY <1>1, <1>2, SubSeqProperties
<1>4. Len(t) = IF n + 1 <= m THEN m - (n + 1) + 1 ELSE 0  BY <1>1, <1>2, SubSeqProperties
<1>5. \A k \in 1..m - (n + 1) + 1 : t[k] = es[(n + 1) + k - 1]  BY <1>1, <1>2, SubSeqProperties
<1>6. DOMAIN t = 1..Len(t)  BY <1>3, LenProperties
<1>7. Hits(t, S)  BY DEF m
<1> HIDE DEF t
<1>8. PICK k \in 1..Len(t) : t[k] \in S  BY <1>6, <1>7 DEF Hits
<1>9. k \in 1..m - (n + 1) + 1 /\ (n + 1) + k - 1 \in 1..m  BY <1>1, <1>4, <1>8
<1> QED  BY <1>1, <1>5, <1>8, <1>9 DEF Hits

\* A step that leaves the driver and the process alone, but for a command.
LEMMA SameGround ==
    ASSUME Ground, UNCHANGED <<events, driver, stdin, cli>>, incidents \subseteq incidents',
           Sound(desk'.turns), desk.runtime => desk'.runtime, ~desk.runtime => inbox' = inbox \/ desk'.runtime
    PROVE  Ground'
BY DEF Ground

LEMMA FrontSound == ASSUME NEW s \in Seq(Turn), Sound(s), s # <<>> PROVE Sound(Front(s))
<1>1. Len(s) \in Nat /\ DOMAIN s = 1..Len(s) /\ Len(s) # 0  BY LenProperties, EmptySeq
<1>2. Front(s) \in Seq(Turn) /\ Len(Front(s)) = Len(s) - 1 /\ \A i \in 1..Len(s) - 1 : Front(s)[i] = s[i]
  BY <1>1, SubSeqProperties DEF Front
<1>3. DOMAIN Front(s) = 1..Len(s) - 1  BY <1>2, LenProperties
<1> QED  BY <1>1, <1>2, <1>3 DEF Sound

LEMMA NewSound ==
    ASSUME NEW s \in Seq(Turn), Sound(s), NEW m \in Messages PROVE Sound(Append(s, NewTurn(m, FALSE)))
<1>1. NewTurn(m, FALSE) \in Turn  BY NewTurnStarts
<1>2. NewTurn(m, FALSE).opener # None  BY ConstantsAssumption DEF NewTurn
<1> QED  BY <1>1, <1>2, AppendGrows

LEMMA SettledSound ==
    ASSUME NEW d \in Desk, Sound(d.turns), NEW ending \in Endings PROVE Sound(Finished(d, ending).turns)
<1>1. d.turns \in Seq(Turn)  BY DEF Desk
<1>2. CASE ~Open(d.turns)  BY <1>2, FinishedEffect
<1>3. CASE Open(d.turns)
  <2> DEFINE l == Last(d.turns)
             t == [l EXCEPT !.state = ending]
  <2>1. l \in Turn /\ (l.opener # None \/ l.started)  BY <1>1, <1>3, LastSound DEF Open
  <2>2. t \in Turn /\ t.opener = l.opener /\ t.started = l.started  BY <2>1 DEF Turn
  <2>3. Finished(d, ending).turns = Put(d.turns, t)  BY <1>3, FinishedEffect
  <2> HIDE DEF t, l
  <2> QED  BY <1>1, <1>3, <2>1, <2>2, <2>3, PutGrows DEF l
<1> QED  BY <1>2, <1>3

LEMMA UserGround ==
    ASSUME TurnsInv, Ground, UserStep PROVE Ground'
<1>1. desk \in Desk /\ desk.turns \in Seq(Turn)  BY DEF TurnsInv, TypeOK, Desk
<1>2. UNCHANGED <<events, driver, stdin, cli, incidents>>  BY DEF UserStep
<1>3. CASE Still(desk) /\ inbox' = inbox
  BY <1>2, <1>3, SameGround DEF Still, Ground
<1>4. CASE Still(desk) /\ CanSteer(desk)
  <2>1. desk.runtime /\ desk'.runtime /\ Sound(desk'.turns)  BY <1>4 DEF Still, CanSteer, Ground
  <2> QED  BY <1>2, <2>1, SameGround
<1>5. ASSUME NEW m \in Messages, Opens(desk, m, events), inbox' = inbox PROVE Ground'
  <2>1. Sound(desk'.turns)  BY <1>1, <1>5, NewSound DEF Opens, Ground
  <2> QED  BY <1>2, <1>5, <2>1, SameGround DEF Opens
<1> QED  BY <1>3, <1>4, <1>5 DEF UserStep

\* What has come is handled, and d is then the task.
LEMMA ShownGround ==
    ASSUME TurnsInv, Ground, NEW n \in 0..Len(events), NEW d, Sound(desk'.turns),
           desk'.runtime = d.runtime,
           IF d.runtime THEN events' = SubSeq(events, n + 1, Len(events)) /\ UNCHANGED <<stdin, driver,
                                                                                         cli>>
           ELSE Closed,
           incidents \subseteq incidents'
    PROVE  Ground'
<1>1. events \in Seq(Events)  BY Types DEF TurnsInv
<1>2. CASE d.runtime
  <2>1. events' = SubSeq(events, n + 1, Len(events)) /\ Exits = Exits'  BY <1>2 DEF Exits, Event
  <2>2. Hits(events', Exits) => Hits(events, Exits)  BY <1>1, <2>1, RestHits
  <2> QED  BY <1>2, <2>2 DEF Ground
<1>3. CASE ~d.runtime  BY <1>3, ClosedGround
<1> QED  BY <1>2, <1>3

\* What the event pump does: d is what it has handled.
PumpStep(n, d) ==
    /\ n \in 1..Len(events) /\ d = HandledAll(desk, SubSeq(events, 1, n), TRUE)
    /\ \/ Still(d)
       \/ \E m \in Messages : Opens(d, m, SubSeq(events, n + 1, Len(events))) /\ Hits(d.queue, {m})
    /\ IF d.runtime THEN events' = SubSeq(events, n + 1, Len(events))
                         /\ UNCHANGED <<inbox, stdin, driver, cli>>
       ELSE Closed
    /\ desk'.misread = d.misread /\ \A x : Hits(desk'.queue, {x}) => Hits(d.queue, {x})
    /\ UNCHANGED <<incidents, answered, composer>>

LEMMA PumpSteps ==
    ASSUME TurnsInv, TurnsInv', Pump PROVE \E n, d : PumpStep(n, d)
<1>1. PICK n \in 1..Len(events) :
        LET d == HandledAll(desk, SubSeq(events, 1, n), TRUE)
            ready == d.drain /\ ~CapturePending(d)
            undrained == [d EXCEPT !.drain = @ /\ ~ready]
            rest == SubSeq(events, n + 1, Len(events))
        IN /\ IF ready /\ Drains(d)
              THEN Submit([undrained EXCEPT !.queue = Tail(@)], Head(d.queue), rest)
              ELSE desk' = undrained /\ UNCHANGED <<preparations, mixed>>
           /\ IF d.runtime THEN events' = rest /\ UNCHANGED <<inbox, stdin, driver, cli>>
              ELSE Closed
           /\ UNCHANGED <<composer, incidents, delivered, answered, discarded, mislaid, swallowed>>
  BY DEF Pump
<1> DEFINE d == HandledAll(desk, SubSeq(events, 1, n), TRUE)
           rest == SubSeq(events, n + 1, Len(events))
           ready == d.drain /\ ~CapturePending(d)
           b == d.drain /\ ~ready
           u == WithDrain(d, b)
<1>2. /\ desk' \in Desk /\ mixed \in BOOLEAN /\ Len(events) \in Nat
  BY Types, LenProperties DEF TurnsInv, TypeOK
<1>3. n \in 0..Len(events)  BY <1>2
<1>4. d \in Desk  BY <1>3, HandledAllKeeps
<1>5. /\ IF ready /\ Drains(d) THEN Submit([u EXCEPT !.queue = Tail(@)], Head(d.queue), rest)
         ELSE desk' = u /\ UNCHANGED <<preparations, mixed>>
      /\ IF d.runtime THEN events' = SubSeq(events, n + 1, Len(events))
                           /\ UNCHANGED <<inbox, stdin, driver, cli>> ELSE Closed
      /\ UNCHANGED <<incidents, answered, composer>>
  BY <1>1 DEF WithDrain
<1>6. b \in BOOLEAN /\ (ready /\ Drains(d) => d.queue # <<>>)  BY DEF Drains
<1> HIDE DEF ready, b
<1>7. d = HandledAll(desk, SubSeq(events, 1, n), TRUE)  OBVIOUS
<1> HIDE DEF d
<1>8. Keeps(d, u) /\ u.turns = d.turns /\ u.status = d.status  BY <1>4, <1>6, DrainFlagKeeps
<1>9. /\ u \in Desk /\ u.queue = d.queue /\ u.runtime = d.runtime /\ u.preparing = d.preparing
      /\ u.misread = d.misread
  BY <1>8 DEF Keeps, ShowsOn
<1> HIDE DEF u
<1>10. Still(d) \/ \E m \in Messages : Opens(d, m, rest) /\ Hits(d.queue, {m})
  <2>1. CASE ready /\ Drains(d)
    <3>1. u.queue # <<>> /\ Submit([u EXCEPT !.queue = Tail(@)], Head(u.queue), rest)
      BY <2>1, <1>5, <1>6, <1>9
    <3>2. /\ Head(u.queue) \in Messages
          /\ Still(u) \/ (Opens(u, Head(u.queue), rest) /\ Hits(u.queue, {Head(u.queue)}))
      BY <3>1, <1>2, <1>9, HeadOpens
    <3> QED  BY <3>2, <1>8, <1>9 DEF Still, Opens, ProviderQuiet, Busy
  <2>2. CASE ~(ready /\ Drains(d))
    <3>1. desk' = u /\ preparations' = preparations /\ mixed' = mixed  BY <2>2, <1>5
    <3> QED  BY <3>1, <1>8, <1>9 DEF Still
  <2> QED  BY <2>1, <2>2
<1>11. desk'.misread = d.misread /\ \A x : Hits(desk'.queue, {x}) => Hits(d.queue, {x})
  <2>1. CASE ready /\ Drains(d)
    <3>1. u.queue # <<>> /\ Submit([u EXCEPT !.queue = Tail(@)], Head(u.queue), rest)
      BY <2>1, <1>5, <1>6, <1>9
    <3> QED  BY <3>1, <1>9, HeadLeaves
  <2>2. CASE ~(ready /\ Drains(d))  BY <2>2, <1>5, <1>9
  <2> QED  BY <2>1, <2>2
<1> QED  BY <1>5, <1>7, <1>10, <1>11 DEF PumpStep

\* The events that have come, handled.
LEMMA ShownKnown ==
    ASSUME TurnsInv, Ground, NEW n \in 0..Len(events), NEW b \in BOOLEAN
    PROVE  LET d == HandledAll(desk, SubSeq(events, 1, n), b)
           IN Known(d) /\ (~desk.runtime => d = desk) /\ Grew(desk.turns, d.turns)
              /\ d.preparing = desk.preparing
<1>1. Known(desk) /\ events \in Seq(Events) /\ Len(events) \in Nat
  BY Types, LenProperties DEF TurnsInv, Ground, Known
<1> DEFINE s == SubSeq(events, 1, n)
<1>2. s \in Seq(Events)  BY <1>1, SubSeqProperties
<1> HIDE DEF s
<1> QED  BY <1>1, <1>2, HandledAllKnown DEF s

LEMMA PumpGround ==
    ASSUME TurnsInv, TurnsInv', Ground, NEW n, NEW d, PumpStep(n, d) PROVE Ground'
<1>1. n \in 0..Len(events)  BY Types, LenProperties DEF PumpStep, TurnsInv
<1>2. d = HandledAll(desk, SubSeq(events, 1, n), TRUE)  BY DEF PumpStep
<1>3. Known(d)  BY <1>1, <1>2, ShownKnown
<1> HIDE <1>2
<1>4. Sound(desk'.turns) /\ desk'.runtime = d.runtime
  <2>1. CASE Still(d)  BY <2>1, <1>3 DEF Still, Known
  <2>2. ASSUME NEW m \in Messages, NEW es, Opens(d, m, es) PROVE Sound(desk'.turns) /\ desk'.runtime = d.runtime
    BY <2>2, <1>3, NewSound DEF Opens, Known, Desk
  <2> QED  BY <2>1, <2>2 DEF PumpStep
<1>5. IF d.runtime THEN events' = SubSeq(events, n + 1, Len(events)) /\ UNCHANGED <<stdin, driver, cli>>
      ELSE Closed
  BY DEF PumpStep
<1>6. incidents \subseteq incidents'  BY DEF PumpStep
<1> QED  BY <1>1, <1>4, <1>5, <1>6, ShownGround

\* The last turn of d is settled, if it runs.
Closes(d, e, ending) ==
    e.turns = IF Open(d.turns) THEN Put(d.turns, [Last(d.turns) EXCEPT !.state = ending]) ELSE d.turns

\* What a Stop does: d is what it has handled.
StopStep(n, d) ==
    /\ n \in 0..Len(events) /\ d = HandledAll(desk, SubSeq(events, 1, n), FALSE)
    /\ ~desk.preparing /\ Closes(d, desk', "Interrupted") /\ desk'.queue = d.queue
    /\ desk'.status = (IF Open(d.turns) THEN "Idle" ELSE d.status)
    /\ desk'.runtime = d.runtime /\ desk'.misread = d.misread
    /\ IF d.runtime THEN /\ inbox' = Append(inbox, [op |-> "cancel", message |-> None])
                         /\ events' = SubSeq(events, n + 1, Len(events))
                         /\ UNCHANGED <<stdin, driver, cli>>
       ELSE Closed
    /\ mixed' = (mixed \/ SubSeq(events, n + 1, Len(events)) # <<>>)
    /\ incidents \subseteq incidents' /\ UNCHANGED <<preparations, answered, composer>>

LEMMA StopSteps == ASSUME TurnsInv, Ground, Stop PROVE \E n, d : StopStep(n, d)
<1>1. PICK n \in 0..Len(events) :
        LET d == HandledAll(desk, SubSeq(events, 1, n), FALSE)
            rest == SubSeq(events, n + 1, Len(events))
            stopped == IF Active(d) THEN [Finished(d, "Interrupted") EXCEPT !.status = "Idle"] ELSE d
        IN /\ Busy(desk) /\ ~desk.preparing
           /\ Happens("stop")
           /\ desk' = [stopped EXCEPT !.drain = FALSE, !.steers = <<>>,
                                      !.dropped = @ \cup ToSet(d.steers)]
           /\ IF d.runtime THEN /\ inbox' = Append(inbox, [op |-> "cancel", message |-> None])
                                /\ events' = rest /\ UNCHANGED <<driver, stdin, cli>>
              ELSE Closed
           /\ mixed' = (mixed \/ rest # <<>>)
           /\ UNCHANGED <<composer, preparations, delivered, answered, discarded, mislaid, swallowed>>
  BY DEF Stop
<1> DEFINE d == HandledAll(desk, SubSeq(events, 1, n), FALSE)
           rest == SubSeq(events, n + 1, Len(events))
           f == Finished(d, "Interrupted")
           s == IF Active(d) THEN [f EXCEPT !.status = "Idle"] ELSE d
           r == s.dropped \cup ToSet(d.steers)
<1>2. Known(d)  BY ShownKnown
<1>3. /\ ~desk.preparing /\ Happens("stop")
      /\ desk' = [s EXCEPT !.drain = FALSE, !.steers = <<>>, !.dropped = r]
      /\ IF d.runtime THEN /\ inbox' = Append(inbox, [op |-> "cancel", message |-> None])
                           /\ events' = rest /\ UNCHANGED <<driver, stdin, cli>>
         ELSE Closed
      /\ mixed' = (mixed \/ rest # <<>>)
      /\ UNCHANGED <<composer, preparations, answered>>
  BY <1>1
<1>4. d = HandledAll(desk, SubSeq(events, 1, n), FALSE)  OBVIOUS
<1> HIDE DEF d
<1>5. f \in Desk /\ Closes(d, f, "Interrupted") /\ f.runtime = d.runtime
      /\ f.queue = d.queue /\ f.misread = d.misread
  BY <1>2, FinishedEffect, FinishedKeeps DEF Known, Endings, Closes, Keeps
<1>6. (Active(d) <=> Open(d.turns)) /\ d \in Desk  BY <1>2, ActiveIsOpen DEF Known
<1> HIDE DEF f
<1>7. /\ s \in Desk /\ Closes(d, s, "Interrupted") /\ s.runtime = d.runtime
      /\ s.status = (IF Open(d.turns) THEN "Idle" ELSE d.status)
      /\ s.queue = d.queue /\ s.misread = d.misread
  <2>1. CASE Active(d)
    <3>1. [f EXCEPT !.status = "Idle"] \in Desk  BY <1>5 DEF Desk, Statuses
    <3>2. [f EXCEPT !.status = "Idle"].queue = f.queue /\ [f EXCEPT !.status = "Idle"].misread = f.misread
      BY <1>5 DEF Desk
    <3> QED  BY <1>5, <1>6, <2>1, <3>1, <3>2, StatusEffect DEF Closes
  <2>2. CASE ~Active(d)  BY <1>6, <2>2 DEF Closes
  <2> QED  BY <2>1, <2>2
<1> HIDE DEF s, r
<1>8. desk'.turns = s.turns /\ desk'.status = s.status /\ desk'.runtime = s.runtime
      /\ desk'.queue = s.queue /\ desk'.misread = s.misread
  BY <1>3, <1>7 DEF Desk
<1>9. incidents \subseteq incidents'  BY <1>3 DEF Happens
<1>10. StopStep(n, d)  BY <1>3, <1>4, <1>7, <1>8, <1>9 DEF StopStep, Closes
<1> QED  BY <1>10

LEMMA ClosesSound ==
    ASSUME NEW d, Known(d), NEW e, NEW ending \in Endings, Closes(d, e, ending) PROVE Sound(e.turns)
<1>1. Finished(d, ending).turns = e.turns  BY FinishedEffect DEF Known, Closes
<1> QED  BY <1>1, SettledSound DEF Known

LEMMA StopGround == ASSUME TurnsInv, Ground, NEW n, NEW d, StopStep(n, d) PROVE Ground'
<1>1. n \in 0..Len(events) /\ desk'.runtime = d.runtime /\ incidents \subseteq incidents'
  BY DEF StopStep
<1>2. d = HandledAll(desk, SubSeq(events, 1, n), FALSE)  BY DEF StopStep
<1>3. Known(d)  BY <1>1, <1>2, ShownKnown
<1>4. Sound(desk'.turns)  BY <1>3, ClosesSound DEF StopStep, Endings
<1>5. IF d.runtime THEN events' = SubSeq(events, n + 1, Len(events)) /\ UNCHANGED <<stdin, driver, cli>>
      ELSE Closed
  BY DEF StopStep
<1> QED  BY <1>1, <1>4, <1>5, ShownGround

LEMMA ReapGround == ASSUME TurnsInv, Ground, Reap PROVE Ground'
<1>1. desk'.turns = desk.turns /\ Closed  BY DEF Reap, TurnsInv, TypeOK, Desk
<1> QED  BY <1>1, ClosedGround DEF Ground

\* What the end of a preparation does to the task.
FailPreparationStep(p) ==
    /\ preparations' = preparations \ {p} /\ ~desk.runtime /\ desk'.runtime = desk.runtime
    /\ desk'.queue = desk.queue /\ desk'.misread = desk.misread
    /\ IF desk.preparing /\ desk.status = "Connecting"
       THEN /\ desk'.turns = Unwound(desk).turns /\ desk'.status = "Idle"
            /\ composer' \subseteq composer \cup {p.message}
       ELSE desk'.turns = desk.turns
    /\ incidents \subseteq incidents'
    /\ UNCHANGED <<inbox, events, stdin, driver, cli, answered, mixed>>

LEMMA FailPreparationSteps ==
    ASSUME TurnsInv, NEW p \in preparations, FailPreparation(p) PROVE FailPreparationStep(p)
<1>1. desk \in Desk /\ Fresh(desk, preparations)  BY Types DEF TurnsInv
<1>2. ~desk.worktree /\ ~desk.runtime  BY <1>1 DEF FailPreparation, Fresh
<1>3. /\ preparations' = preparations \ {p} /\ incidents \subseteq incidents'
      /\ UNCHANGED <<inbox, events, stdin, driver, cli, answered, mixed>>
  BY DEF FailPreparation, Forget, Fails, Happens, driverVars, history
<1>4. CASE desk.preparing /\ desk.status = "Connecting"
  <2> DEFINE e == Unwound(desk)
  <2>1. /\ desk' = [[e EXCEPT !.status = "Idle"] EXCEPT !.preparing = FALSE]
        /\ composer' \subseteq composer \cup {p.message}
    BY <1>4, ComesBack DEF FailPreparation
  <2>2. e \in Desk /\ e.runtime = desk.runtime /\ e.queue = desk.queue /\ e.misread = desk.misread
    <3>1. CASE Active(desk) /\ ~Last(desk.turns).started  BY <1>1, <3>1, UnwoundShows
    <3>2. CASE ~(Active(desk) /\ ~Last(desk.turns).started)  BY <1>1, <3>2 DEF Unwound
    <3> QED  BY <3>1, <3>2
  <2> HIDE DEF e
  <2>3. /\ desk'.turns = e.turns /\ desk'.status = "Idle" /\ desk'.runtime = e.runtime
        /\ desk'.queue = e.queue /\ desk'.misread = e.misread
    BY <2>1, <2>2 DEF Desk
  <2> QED  BY <1>2, <1>3, <1>4, <2>1, <2>2, <2>3 DEF FailPreparationStep, e
<1>5. CASE ~(desk.preparing /\ desk.status = "Connecting")
  <2>1. desk' = desk \/ desk' = [desk EXCEPT !.preparing = FALSE]  BY <1>5 DEF FailPreparation
  <2>2. /\ desk'.turns = desk.turns /\ desk'.runtime = desk.runtime
        /\ desk'.queue = desk.queue /\ desk'.misread = desk.misread
    BY <1>1, <2>1 DEF Desk
  <2> QED  BY <1>2, <1>3, <1>5, <2>2 DEF FailPreparationStep
<1> QED  BY <1>4, <1>5

LEMMA UnwoundTurns ==
    ASSUME NEW d \in Desk
    PROVE  Unwound(d).turns = IF Active(d) /\ ~Last(d.turns).started THEN Front(d.turns) ELSE d.turns
<1>1. CASE Active(d) /\ ~Last(d.turns).started
  <2> DEFINE q == Front(d.turns)
  <2>1. Unwound(d) = [d EXCEPT !.turns = q]  BY <1>1 DEF Unwound
  <2> HIDE DEF q
  <2>2. Unwound(d).turns = q  BY <2>1 DEF Desk
  <2> QED  BY <1>1, <2>2 DEF q
<1>2. CASE ~(Active(d) /\ ~Last(d.turns).started)  BY <1>2 DEF Unwound
<1> QED  BY <1>1, <1>2

LEMMA FailPreparationGround ==
    ASSUME TurnsInv, Ground, NEW p, FailPreparationStep(p) PROVE Ground'
<1>1. desk \in Desk /\ desk.turns \in Seq(Turn) /\ Sound(desk.turns)  BY Types DEF TurnsInv, Ground, Desk
<1>2. Sound(Unwound(desk).turns)  BY <1>1, UnwoundTurns, FrontSound DEF Active
<1> QED  BY <1>1, <1>2, SameGround DEF FailPreparationStep

DropPreparationStep(p) ==
    /\ preparations' = preparations \ {p} /\ (~desk.preparing \/ ~Untouched(desk))
    /\ desk'.turns = desk.turns /\ desk'.status = desk.status /\ desk'.runtime = desk.runtime
    /\ desk'.queue = desk.queue /\ desk'.misread = desk.misread
    /\ UNCHANGED <<inbox, events, stdin, driver, cli, answered, mixed, composer, incidents>>

FailStartStep(p) ==
    /\ preparations' = preparations \ {p} /\ Closes(desk, desk', "Failed") /\ desk'.status = "Failed"
    /\ desk'.runtime = desk.runtime /\ desk'.queue = desk.queue /\ desk'.misread = desk.misread
    /\ incidents \subseteq incidents'
    /\ UNCHANGED <<inbox, events, stdin, driver, cli, answered, mixed, composer>>

Prompt(m) == [op |-> "prompt", message |-> m]
Echo(m) == [kind |-> "submitted", message |-> m]

SendPromptStep(p) ==
    /\ preparations' = preparations \ {p} /\ Untouched(desk) /\ desk'.runtime
    /\ desk'.turns = desk.turns /\ desk'.status = desk.status
    /\ desk'.queue = desk.queue /\ desk'.misread = desk.misread
    /\ \/ /\ inbox' = <<Prompt(p.message)>> /\ events' = <<Echo(p.message)>> /\ stdin' = <<>>
          /\ driver' = NewDriver /\ cli' = NewCli
       \/ /\ desk.runtime /\ inbox' = Append(inbox, Prompt(p.message))
          /\ events' = Append(events, Echo(p.message)) /\ UNCHANGED <<driver, stdin, cli>>
    /\ UNCHANGED <<answered, mixed, composer, incidents>>

LEMMA PreparationSteps ==
    ASSUME TurnsInv, NEW p \in preparations
    PROVE  /\ DropPreparation(p) => DropPreparationStep(p)
           /\ FailStart(p) => FailStartStep(p)
           /\ SendPrompt(p) => SendPromptStep(p)
<1>1. desk \in Desk  BY Types DEF TurnsInv
<1>2. ASSUME DropPreparation(p) PROVE DropPreparationStep(p)
  <2>1. desk' = [desk EXCEPT !.preparing = FALSE]  BY <1>2 DEF DropPreparation
  <2>2. /\ desk'.turns = desk.turns /\ desk'.status = desk.status /\ desk'.runtime = desk.runtime
        /\ desk'.queue = desk.queue /\ desk'.misread = desk.misread
    BY <1>1, <2>1 DEF Desk
  <2> QED  BY <1>2, <2>2 DEF DropPreparation, DropPreparationStep, Forget, driverVars, history
<1>3. ASSUME FailStart(p) PROVE FailStartStep(p)
  <2> DEFINE f == Finished(desk, "Failed")
  <2>1. desk' = [f EXCEPT !.status = "Failed", !.preparing = FALSE, !.worktree = TRUE]
    BY <1>3 DEF FailStart, StartFailed
  <2>2. f \in Desk /\ Closes(desk, f, "Failed") /\ f.runtime = desk.runtime
        /\ f.queue = desk.queue /\ f.misread = desk.misread
    BY <1>1, FinishedEffect, FinishedKeeps DEF Endings, Closes, Keeps
  <2> HIDE DEF f
  <2>3. desk'.turns = f.turns /\ desk'.status = "Failed" /\ desk'.runtime = f.runtime
        /\ desk'.queue = f.queue /\ desk'.misread = f.misread
    BY <2>1, <2>2 DEF Desk
  <2>4. incidents \subseteq incidents'  BY <1>3 DEF FailStart, Fails, Happens
  <2> QED  BY <1>3, <2>2, <2>3, <2>4 DEF FailStart, FailStartStep, Forget, driverVars, history, Closes
<1>4. ASSUME SendPrompt(p) PROVE SendPromptStep(p)
  <2>1. desk' = [desk EXCEPT !.preparing = FALSE, !.worktree = TRUE, !.runtime = TRUE, !.steers = <<>>,
                             !.dropped = @ \cup ToSet(desk.steers)]
    BY <1>4 DEF SendPrompt
  <2>2. desk'.turns = desk.turns /\ desk'.status = desk.status /\ desk'.runtime
        /\ desk'.queue = desk.queue /\ desk'.misread = desk.misread
    BY <1>1, <2>1 DEF Desk
  <2> QED  BY <1>4, <2>2 DEF SendPrompt, SendPromptStep, Forget, history, Prompt, Echo
<1> QED  BY <1>2, <1>3, <1>4

LEMMA PreparationGround ==
    ASSUME TurnsInv, Ground, NEW p \in preparations,
           DropPreparationStep(p) \/ FailStartStep(p) \/ SendPromptStep(p)
    PROVE  Ground'
<1>1. Known(desk) /\ events \in Seq(Events) /\ p.message \in Messages  BY Types DEF TurnsInv, Ground, Known
<1>2. CASE DropPreparationStep(p)  BY <1>2, SameGround DEF DropPreparationStep, Ground
<1>3. CASE FailStartStep(p)
  <2>1. Sound(desk'.turns)  BY <1>1, <1>3, ClosesSound DEF FailStartStep, Endings
  <2> QED  BY <1>3, <2>1, SameGround DEF FailStartStep
<1>4. CASE SendPromptStep(p)
  <2>1. Echo(p.message) \in Events /\ Echo(p.message) \notin Exits
    BY <1>1 DEF Echo, Events, Exits, Event
  <2>2. Sound(desk'.turns) /\ desk'.runtime /\ incidents' = incidents
    BY <1>1, <1>4 DEF SendPromptStep, Known
  <2>3. CASE events' = <<Echo(p.message)>> /\ cli' = NewCli
    <3>1. ~Hits(events', Exits)  BY <2>1, <2>3, OneMark
    <3> QED  BY <2>2, <2>3, <3>1 DEF Ground, NewCli, Exits, Event
  <2>4. CASE events' = Append(events, Echo(p.message)) /\ cli' = cli
    <3>1. Hits(events', Exits) => Hits(events, Exits)  BY <1>1, <2>1, <2>4, AppendMarks
    <3> QED  BY <2>2, <2>4, <3>1 DEF Ground, Exits, Event
  <2> QED  BY <1>4, <2>3, <2>4 DEF SendPromptStep
<1> QED  BY <1>2, <1>3, <1>4

----------------------------------------------------------------------------
(* What the writer and the process say                                     *)

LEMMA PairOf == ASSUME NEW T, NEW x \in T, NEW y \in T PROVE <<x>> \o <<y>> = <<x, y>>
<1>1. <<x>> \in Seq(T)  OBVIOUS
<1> DEFINE s == <<x>>
           t == s \o <<y>>
<1>2. t \in Seq(T) /\ Len(t) = 2 /\ t[1] = x /\ t[2] = y
  <2> HIDE DEF s
  <2>1. Len(s) = 1 /\ s[1] = x /\ <<y>> \in Seq(T) /\ Len(<<y>>) = 1 /\ <<y>>[1] = y  BY DEF s
  <2> QED  BY <1>1, <2>1, ConcatProperties DEF s
<1> HIDE DEF t
<1>3. <<x, y>> \in Seq(T) /\ Len(<<x, y>>) = 2 /\ <<x, y>>[1] = x /\ <<x, y>>[2] = y  OBVIOUS
<1>4. \A i \in 1..Len(t) : t[i] = <<x, y>>[i]  BY <1>2, <1>3
<1> QED  BY <1>2, <1>3, <1>4, SeqEqual DEF t

LEMMA Adding ==
    ASSUME NEW T, NEW es \in Seq(T)
    PROVE  /\ es \o <<>> = es
           /\ \A x \in T : es \o <<x>> = Append(es, x) /\ Append(es, x) \in Seq(T) /\ <<x>> \o <<>> = <<x>>
           /\ \A x, y \in T : es \o <<x, y>> = Append(Append(es, x), y) /\ <<x>> \o <<y>> = <<x, y>>
<1>1. es \o <<>> = es  OBVIOUS
<1>2. ASSUME NEW x \in T
      PROVE  es \o <<x>> = Append(es, x) /\ Append(es, x) \in Seq(T) /\ <<x>> \o <<>> = <<x>>
  <2>1. Append(es, x) \in Seq(T)  BY AppendMarks
  <2>2. es \o <<x>> = Append(es, x)  OBVIOUS
  <2>3. <<x>> \o <<>> = <<x>>  OBVIOUS
  <2> QED  BY <2>1, <2>2, <2>3
<1>3. ASSUME NEW x \in T, NEW y \in T
      PROVE  es \o <<x, y>> = Append(Append(es, x), y) /\ <<x>> \o <<y>> = <<x, y>>
  <2>1. <<x>> \o <<y>> = <<x, y>>  BY PairOf
  <2>2. es \o <<x, y>> = Append(Append(es, x), y)  OBVIOUS
  <2> QED  BY <2>1, <2>2
<1> QED  BY <1>1, <1>2, <1>3

Says1(x) == events' = Append(events, x)
Says2(x, y) == events' = Append(Append(events, x), y)
Says3(x, y, z) == events' = Append(Append(Append(events, x), y), z)

LEMMA SaysHits ==
    ASSUME events \in Seq(Events), NEW x \in Events, NEW y \in Events, NEW z \in Events, NEW S
    PROVE  /\ Says1(x) => (Hits(events', S) <=> Hits(events, S) \/ x \in S)
           /\ Says2(x, y) => (Hits(events', S) <=> Hits(events, S) \/ x \in S \/ y \in S)
           /\ Says3(x, y, z) => (Hits(events', S) <=> Hits(events, S) \/ x \in S \/ y \in S \/ z \in S)
<1> DEFINE a == Append(events, x)
           b == Append(a, y)
           c == Append(b, z)
<1>1. a \in Seq(Events) /\ (Hits(a, S) <=> Hits(events, S) \/ x \in S)  BY AppendMarks
<1> HIDE DEF a
<1>2. b \in Seq(Events) /\ (Hits(b, S) <=> Hits(a, S) \/ y \in S)  BY <1>1, AppendMarks
<1> HIDE DEF b
<1>3. c \in Seq(Events) /\ (Hits(c, S) <=> Hits(b, S) \/ z \in S)  BY <1>2, AppendMarks
<1> HIDE DEF c
<1>4. /\ Says1(x) => events' = a
      /\ Says2(x, y) => events' = b
      /\ Says3(x, y, z) => events' = c
  BY DEF Says1, Says2, Says3, a, b, c
<1> QED  BY <1>1, <1>2, <1>3, <1>4

LEMMA SaysExits ==
    ASSUME events \in Seq(Events), NEW x \in Events, NEW y \in Events, NEW z \in Events
    PROVE  /\ Says1(x) /\ x \notin Exits => (Hits(events', Exits) => Hits(events, Exits))
           /\ Says2(x, y) /\ {x, y} \cap Exits = {} => (Hits(events', Exits) => Hits(events, Exits))
           /\ Says3(x, y, z) /\ {x, y, z} \cap Exits = {} => (Hits(events', Exits) => Hits(events, Exits))
<1> DEFINE S == Exits
<1>1. /\ Says1(x) => (Hits(events', S) <=> Hits(events, S) \/ x \in S)
      /\ Says2(x, y) => (Hits(events', S) <=> Hits(events, S) \/ x \in S \/ y \in S)
      /\ Says3(x, y, z) => (Hits(events', S) <=> Hits(events, S) \/ x \in S \/ y \in S \/ z \in S)
  BY SaysHits
<1> QED  BY <1>1

Accept(m) == [kind |-> "accepted", message |-> m]
Refuse(m) == [kind |-> "rejected", message |-> m]

\* The desk, and what is no concern of the writer.
WriterAlone == UNCHANGED <<desk, composer, preparations, cli, incidents, answered, mixed>>

\* What the writer does with the command c.
WriteStep(c) ==
    /\ c \in Commands /\ inbox # <<>> /\ c = Head(inbox) /\ inbox' = Tail(inbox)
    /\ desk.runtime /\ WriterAlone
    /\ \/ /\ c.op = "prompt" /\ cli.alive /\ Says1(Event("started"))
          /\ stdin' = Append(stdin, c) /\ driver'.active
       \/ /\ c.op = "prompt" /\ ~cli.alive /\ Says3(Event("started"), Event("error"), Event("failed"))
          /\ stdin' = stdin /\ ~driver'.active
       \/ /\ c.op = "steer" /\ driver.active /\ cli.alive /\ Says1(Accept(c.message))
          /\ stdin' = Append(stdin, c) /\ driver'.active
       \/ /\ c.op = "steer" /\ driver.active /\ ~cli.alive
          /\ Says3(Refuse(c.message), Event("error"), Event("failed"))
          /\ stdin' = stdin /\ ~driver'.active
       \/ /\ c.op = "steer" /\ ~driver.active /\ Says1(Refuse(c.message))
          /\ stdin' = stdin /\ ~driver'.active
       \/ /\ c.op = "cancel" /\ cli.alive /\ events' = events
          /\ stdin' = Append(stdin, c) /\ driver'.active = driver.active
       \/ /\ c.op = "cancel" /\ driver.active /\ ~cli.alive /\ Says2(Event("error"), Event("failed"))
          /\ stdin' = stdin /\ ~driver'.active
       \/ /\ c.op = "cancel" /\ ~driver.active /\ ~cli.alive /\ Says1(Event("error"))
          /\ stdin' = stdin /\ ~driver'.active

LEMMA CommonEvents ==
    /\ \A kind \in {"started", "parked", "finished", "failed", "error", "exited"} : Event(kind) \in Events
    /\ \A m \in Messages : Accept(m) \in Events /\ Refuse(m) \in Events /\ Echo(m) \in Events
    /\ \A kind \in {"started", "parked", "finished", "failed", "error"} : Event(kind) \notin Exits
    /\ \A m \in Messages : Accept(m) \notin Exits /\ Refuse(m) \notin Exits /\ Echo(m) \notin Exits
BY DEF Event, Events, Accept, Refuse, Echo, Exits

LEMMA WriteSteps == ASSUME TurnsInv, Write PROVE \E c : WriteStep(c)
<1> DEFINE c == Head(inbox)
           active == driver.active \/ c.op = "prompt"
           refused == c.op = "steer" /\ ~driver.active
           before == IF c.op = "prompt" THEN <<Event("started")>> ELSE <<>>
           answer == IF c.op # "steer" THEN <<>>
                     ELSE <<[kind |-> IF refused \/ ~cli.alive THEN "rejected" ELSE "accepted",
                             message |-> c.message]>>
           broken == ~cli.alive /\ ~refused
           failed == IF active THEN <<Event("failed")>> ELSE <<>>
           after == IF ~broken THEN <<>> ELSE <<Event("error")>> \o failed
<1>1. /\ inbox # <<>> /\ inbox' = Tail(inbox) /\ desk.runtime /\ WriterAlone
      /\ events' = events \o before \o answer \o after
      /\ driver' = [driver EXCEPT !.active = active /\ ~broken, !.writing = ~broken]
      /\ stdin' = IF refused \/ broken THEN stdin ELSE Append(stdin, c)
  BY DEF Write, WriterAlone, history
<1>2. /\ inbox \in Seq(Commands) /\ events \in Seq(Events) /\ cli.alive \in BOOLEAN
      /\ driver \in [active : BOOLEAN, parked : BOOLEAN, writing : BOOLEAN]
  BY Types DEF TurnsInv
<1>3. c \in Commands  BY <1>1, <1>2, TailMarks
<1>4. driver'.active <=> active /\ ~broken  BY <1>1, <1>2
<1>5. c = Head(inbox)  OBVIOUS
<1>6. \/ c.op = "prompt" /\ c.message \in Messages
      \/ c.op = "steer" /\ c.message \in Messages
      \/ c.op = "cancel"
  BY <1>3 DEF Commands
<1> HIDE DEF c
<1> DEFINE S == Event("started")
           E == Event("error")
           F == Event("failed")
<1>7. S \in Events /\ E \in Events /\ F \in Events  BY CommonEvents
<1>a. <<Event("error")>> \o <<Event("failed")>> = <<E, F>>
  <2> HIDE DEF E, F
  <2>1. <<E>> \o <<F>> = <<E, F>>  BY <1>7, PairOf
  <2> QED  BY <2>1 DEF E, F
<1> HIDE DEF S, E, F
<1>8. /\ events \o <<>> = events
      /\ \A x \in Events : events \o <<x>> = Append(events, x) /\ Append(events, x) \in Seq(Events)
      /\ \A x, y \in Events : events \o <<x, y>> = Append(Append(events, x), y) /\ <<x>> \o <<y>> = <<x, y>>
      /\ \A x \in Events : <<x>> \o <<>> = <<x>>
  BY <1>2, Adding
<1>9. \A x \in Events : /\ Append(events, x) \o <<>> = Append(events, x)
                        /\ \A y, z \in Events :
                              Append(events, x) \o <<y, z>> = Append(Append(Append(events, x), y), z)
  BY <1>8, Adding
<1>b. events \o <<E, F>> = Append(Append(events, E), F)  BY <1>7, <1>8
<1>c. \A x \in Events : Append(events, x) \o <<E, F>> = Append(Append(Append(events, x), E), F)
  BY <1>7, <1>9
<1>10. CASE c.op = "prompt" /\ cli.alive
  <2>1. before = <<S>> /\ answer = <<>> /\ after = <<>>  BY <1>10 DEF S
  <2>2. events' = Append(events, S)  BY <1>1, <1>7, <1>8, <1>9, <2>1
  <2> QED  BY <1>1, <1>3, <1>4, <1>5, <1>10, <2>2 DEF WriteStep, Says1, S
<1>11. CASE c.op = "prompt" /\ ~cli.alive
  <2>1. before = <<S>> /\ answer = <<>> /\ after = <<E, F>>  BY <1>11, <1>a DEF S
  <2>2. events' = Append(Append(Append(events, S), E), F)
    <3>1. events' = events \o <<S>> \o <<>> \o <<E, F>>  BY <1>1, <2>1
    <3> QED  BY <3>1, <1>7, <1>8, <1>9, <1>c
  <2> QED  BY <1>1, <1>3, <1>4, <1>5, <1>11, <2>2 DEF WriteStep, Says3, S, E, F
<1>12. CASE c.op = "steer" /\ driver.active /\ cli.alive
  <2>1. before = <<>> /\ answer = <<Accept(c.message)>> /\ after = <<>>  BY <1>12 DEF Accept
  <2>2. Accept(c.message) \in Events  BY <1>6, <1>12, CommonEvents
  <2>3. events' = Append(events, Accept(c.message))  BY <1>1, <1>8, <1>9, <2>1, <2>2
  <2> QED  BY <1>1, <1>3, <1>4, <1>5, <1>12, <2>3 DEF WriteStep, Says1
<1>13. CASE c.op = "steer" /\ driver.active /\ ~cli.alive
  <2>1. before = <<>> /\ answer = <<Refuse(c.message)>> /\ after = <<E, F>>  BY <1>13, <1>a DEF Refuse
  <2>2. Refuse(c.message) \in Events  BY <1>6, <1>13, CommonEvents
  <2>3. events' = Append(Append(Append(events, Refuse(c.message)), E), F)
    <3>1. events' = events \o <<>> \o <<Refuse(c.message)>> \o <<E, F>>  BY <1>1, <2>1
    <3> QED  BY <3>1, <2>2, <1>8, <1>c
  <2> QED  BY <1>1, <1>3, <1>4, <1>5, <1>13, <2>3 DEF WriteStep, Says3, E, F
<1>14. CASE c.op = "steer" /\ ~driver.active
  <2>1. before = <<>> /\ answer = <<Refuse(c.message)>> /\ after = <<>>  BY <1>14 DEF Refuse
  <2>2. Refuse(c.message) \in Events  BY <1>6, <1>14, CommonEvents
  <2>3. events' = Append(events, Refuse(c.message))  BY <1>1, <1>8, <1>9, <2>1, <2>2
  <2> QED  BY <1>1, <1>3, <1>4, <1>5, <1>14, <2>3 DEF WriteStep, Says1
<1>15. CASE c.op = "cancel" /\ cli.alive
  <2>1. before = <<>> /\ answer = <<>> /\ after = <<>>  BY <1>15
  <2>2. events' = events  BY <1>1, <1>8, <2>1
  <2> QED  BY <1>1, <1>2, <1>3, <1>4, <1>5, <1>15, <2>2 DEF WriteStep
<1>16. CASE c.op = "cancel" /\ driver.active /\ ~cli.alive
  <2>1. before = <<>> /\ answer = <<>> /\ after = <<E, F>>  BY <1>16, <1>a
  <2>2. events' = Append(Append(events, E), F)
    <3>1. events' = events \o <<>> \o <<>> \o <<E, F>>  BY <1>1, <2>1
    <3> QED  BY <3>1, <1>8, <1>b
  <2> QED  BY <1>1, <1>3, <1>4, <1>5, <1>16, <2>2 DEF WriteStep, Says2, E, F
<1>17. CASE c.op = "cancel" /\ ~driver.active /\ ~cli.alive
  <2>1. before = <<>> /\ answer = <<>> /\ after = <<E>> \o <<>>  BY <1>17 DEF E
  <2>2. events' = Append(events, E)  BY <1>1, <1>7, <1>8, <1>9, <2>1
  <2> QED  BY <1>1, <1>3, <1>4, <1>5, <1>17, <2>2 DEF WriteStep, Says1, E
<1> QED  BY <1>6, <1>10, <1>11, <1>12, <1>13, <1>14, <1>15, <1>16, <1>17

LEMMA WriteGround == ASSUME TurnsInv, Ground, NEW c, WriteStep(c) PROVE Ground'
<1>1. /\ events \in Seq(Events) /\ WriterAlone /\ desk.runtime
      /\ c.op # "cancel" => c.message \in Messages
  BY Types DEF TurnsInv, WriteStep, Commands
<1> DEFINE S == Event("started")
           E == Event("error")
           F == Event("failed")
           A == Accept(c.message)
           R == Refuse(c.message)
<1>2. S \in Events /\ E \in Events /\ F \in Events /\ {S, E, F} \cap Exits = {}  BY CommonEvents
<1>3. c.op # "cancel" => A \in Events /\ R \in Events /\ {A, R} \cap Exits = {}  BY <1>1, CommonEvents
<1>4. \/ Says1(S) \/ Says3(S, E, F) \/ (c.op # "cancel" /\ (Says1(A) \/ Says3(R, E, F) \/ Says1(R)))
      \/ events' = events \/ Says2(E, F) \/ Says1(E)
  BY DEF WriteStep
<1> HIDE DEF S, E, F, A, R
<1>5. Hits(events', Exits) => Hits(events, Exits)  BY <1>1, <1>2, <1>3, <1>4, SaysExits
<1> QED  BY <1>1, <1>5 DEF Ground, WriterAlone, Exits, Event

\* What the process reads.
ReadStep(c) ==
    /\ c \in Commands /\ stdin # <<>> /\ c = Head(stdin) /\ stdin' = Tail(stdin)
    /\ desk.runtime /\ cli.alive /\ cli'.alive /\ cli'.exited = cli.exited /\ cli'.tasks = cli.tasks
    /\ IF c.op = "cancel" THEN cli'.running = cli.running /\ cli'.serving = cli.serving
       ELSE cli'.running /\ cli'.serving = cli.serving \cup {c.message}
    /\ UNCHANGED <<desk, composer, preparations, inbox, events, driver, incidents, answered, mixed>>

LEMMA ReadSteps == ASSUME TurnsInv, Ground, Read PROVE \E c : ReadStep(c)
<1> DEFINE c == Head(stdin)
<1>1. /\ stdin # <<>> /\ stdin' = Tail(stdin) /\ CliRuns
      /\ \/ c.op = "cancel" /\ cli' = [cli EXCEPT !.interrupted = cli.running]
         \/ c.op # "cancel" /\ cli.running /\ cli' = [cli EXCEPT !.serving = @ \cup {c.message}]
         \/ c.op # "cancel" /\ ~cli.running
            /\ cli' = [cli EXCEPT !.running = TRUE, !.serving = {c.message}]
      /\ UNCHANGED <<desk, composer, preparations, inbox, events, driver, incidents, answered, mixed>>
  BY DEF Read, ClientSide
<1>2. /\ stdin \in Seq(Commands)
      /\ cli \in [alive : BOOLEAN, running : BOOLEAN, spoke : BOOLEAN, interrupted : BOOLEAN,
                  serving : SUBSET Messages, tasks : BOOLEAN, exited : BOOLEAN]
      /\ ~cli.running => cli.serving = {}
  BY Types DEF TurnsInv, Ground
<1>3. c \in Commands  BY <1>1, <1>2, TailMarks
<1>4. c = Head(stdin)  OBVIOUS
<1> HIDE DEF c
<1>5. /\ cli.alive /\ cli'.alive /\ cli'.exited = cli.exited /\ cli'.tasks = cli.tasks
      /\ IF c.op = "cancel" THEN cli'.running = cli.running /\ cli'.serving = cli.serving
         ELSE cli'.running /\ cli'.serving = cli.serving \cup {c.message}
  BY <1>1, <1>2 DEF CliRuns
<1>6. ReadStep(c)  BY <1>1, <1>3, <1>4, <1>5 DEF ReadStep, CliRuns
<1> QED  BY <1>6

LEMMA ReadGround == ASSUME TurnsInv, Ground, NEW c, ReadStep(c) PROVE Ground'
BY DEF Ground, ReadStep, Exits, Event

\* What the process says, and its detached work.
SpeakStep ==
    /\ cli.alive /\ cli.running /\ UNCHANGED <<stdin, incidents>>
    /\ cli'.running /\ cli'.alive /\ cli'.serving = cli.serving /\ cli'.tasks = cli.tasks
    /\ cli'.exited = cli.exited
    /\ \/ Says1(Event("started")) /\ driver'.active
       \/ events' = events /\ driver' = driver
DetachStep ==
    /\ cli.alive /\ cli.running /\ UNCHANGED <<stdin, events, driver>>
    /\ incidents' = incidents \cup {"detach"}
    /\ cli'.running /\ cli'.alive /\ cli'.serving = cli.serving /\ cli'.exited = cli.exited
WakeStep ==
    /\ cli.alive /\ cli.tasks /\ UNCHANGED <<stdin, events, driver, incidents>>
    /\ cli'.running /\ cli'.alive /\ cli'.serving = cli.serving /\ cli'.exited = cli.exited
ReplyStep ==
    /\ cli.alive /\ cli.running /\ UNCHANGED <<stdin>> /\ incidents \subseteq incidents'
    /\ {"crash"} \cap incidents' \subseteq incidents
    /\ ~cli'.running /\ cli'.alive /\ cli'.serving = {} /\ cli'.exited = cli.exited /\ cli'.tasks = cli.tasks
    /\ \/ /\ answered' = answered \cup cli.serving /\ driver.active /\ driver'.active
          /\ Says1(Event("parked"))
       \/ /\ answered' = answered \cup cli.serving /\ driver.active /\ ~driver'.active
          /\ Says1(Event("finished"))
       \/ answered \subseteq answered' /\ driver' = driver /\ ~driver.active /\ events' = events
       \/ answered \subseteq answered' /\ driver' = driver /\ ~driver.active /\ Says1(Event("error"))
       \/ answered \subseteq answered' /\ ~driver'.active /\ Says1(Event("failed"))
       \/ answered \subseteq answered' /\ ~driver'.active /\ Says2(Event("error"), Event("failed"))
CrashStep ==
    /\ UNCHANGED <<stdin, events, driver>> /\ incidents' = incidents \cup {"crash"} /\ cli.alive
    /\ ~cli'.running /\ ~cli'.alive /\ cli'.serving = {} /\ ~cli'.tasks
    /\ cli'.exited = cli.exited /\ mixed' = (mixed \/ desk.preparing)
ExitStep ==
    /\ UNCHANGED <<stdin, driver, incidents>> /\ ~cli.alive /\ Says2(Event("error"), Event("exited"))
    /\ cli'.running = cli.running /\ cli'.alive = cli.alive /\ cli'.serving = cli.serving
    /\ cli'.tasks = cli.tasks /\ cli'.exited

\* ... leaves the client, what it has sent, and what has been answered alone.
ProviderStep ==
    /\ desk.runtime /\ UNCHANGED <<desk, composer, preparations, inbox>>
    /\ \/ SpeakStep \/ DetachStep \/ WakeStep \/ ExitStep \/ ReplyStep \/ CrashStep
    /\ CrashStep \/ mixed' = mixed
    /\ ReplyStep \/ answered' = answered

LEMMA ReplySteps == ASSUME TurnsInv, NEW success \in BOOLEAN, Reply(success) PROVE ReplyStep
<1> DEFINE parks == success /\ cli.tasks
           error == IF success \/ cli.interrupted THEN <<>> ELSE <<Event("error")>>
           ending == IF ~driver.active THEN <<>>
                     ELSE <<Event(IF parks THEN "parked" ELSE IF success THEN "finished" ELSE "failed")>>
<1>1. /\ events \in Seq(Events)
      /\ driver \in [active : BOOLEAN, parked : BOOLEAN, writing : BOOLEAN]
      /\ cli \in [alive : BOOLEAN, running : BOOLEAN, spoke : BOOLEAN, interrupted : BOOLEAN,
                  serving : SUBSET Messages, tasks : BOOLEAN, exited : BOOLEAN]
  BY Types DEF TurnsInv
<1>2. /\ cli.alive /\ cli.running /\ stdin' = stdin /\ cli' = Quiet
      /\ incidents' = incidents \/ incidents' = incidents \cup {"failure"}
      /\ answered' = answered \cup (IF success THEN cli.serving ELSE {})
      /\ events' = events \o error \o ending
      /\ driver' = IF driver.active THEN [driver EXCEPT !.active = parks, !.parked = parks] ELSE driver
  BY DEF Reply, CliRuns, Fails, Happens
<1>3. /\ incidents \subseteq incidents' /\ {"crash"} \cap incidents' \subseteq incidents
      /\ ~cli'.running /\ cli'.alive /\ cli'.serving = {} /\ cli'.exited = cli.exited
      /\ cli'.tasks = cli.tasks
  BY <1>1, <1>2 DEF Quiet
<1>4. driver'.active <=> driver.active /\ parks  BY <1>1, <1>2
<1> DEFINE E == Event("error")
           F == Event("failed")
           G == Event("finished")
           P == Event("parked")
<1>5. E \in Events /\ F \in Events /\ G \in Events /\ P \in Events  BY CommonEvents
<1> HIDE DEF E, F, G, P
<1>6. /\ events \o <<>> = events
      /\ \A x \in Events : events \o <<x>> = Append(events, x) /\ Append(events, x) \in Seq(Events)
  BY <1>1, Adding
<1>7. \A x, y \in Events : Append(events, x) \o <<y>> = Append(Append(events, x), y)
                           /\ Append(events, x) \o <<>> = Append(events, x)
  BY <1>6, Adding
<1>8. CASE driver.active /\ parks
  <2>1. error = <<>> /\ ending = <<P>>  BY <1>8 DEF P
  <2>2. events' = Append(events, P)  BY <2>1, <1>2, <1>5, <1>6
  <2> QED  BY <2>2, <1>2, <1>3, <1>4, <1>8 DEF ReplyStep, Says1, P
<1>9. CASE driver.active /\ success /\ ~parks
  <2>1. error = <<>> /\ ending = <<G>>  BY <1>9 DEF G
  <2>2. events' = Append(events, G)  BY <2>1, <1>2, <1>5, <1>6
  <2> QED  BY <2>2, <1>2, <1>3, <1>4, <1>9 DEF ReplyStep, Says1, G
<1>10. CASE driver.active /\ ~success
  <2>1. ending = <<F>> /\ (error = <<>> \/ error = <<E>>)  BY <1>10 DEF F, E
  <2>2. events' = Append(events, F) \/ events' = Append(Append(events, E), F)
    BY <2>1, <1>2, <1>5, <1>6, <1>7
  <2> QED  BY <2>2, <1>2, <1>3, <1>4, <1>10 DEF ReplyStep, Says1, Says2, E, F
<1>11. CASE ~driver.active
  <2>1. ending = <<>> /\ (error = <<>> \/ error = <<E>>)  BY <1>11 DEF E
  <2>2. events' = events \/ events' = Append(events, E)  BY <2>1, <1>2, <1>5, <1>6, <1>7
  <2> QED  BY <2>2, <1>2, <1>3, <1>4, <1>11 DEF ReplyStep, Says1, E
<1> QED  BY <1>8, <1>9, <1>10, <1>11

LEMMA ProviderSteps ==
    ASSUME TurnsInv, Ground,
           Speak \/ Detach \/ Wake \/ ReportExit \/ Crash \/ \E success \in BOOLEAN : Reply(success)
    PROVE  ProviderStep
<1>1. /\ events \in Seq(Events)
      /\ driver \in [active : BOOLEAN, parked : BOOLEAN, writing : BOOLEAN]
      /\ cli \in [alive : BOOLEAN, running : BOOLEAN, spoke : BOOLEAN, interrupted : BOOLEAN,
                  serving : SUBSET Messages, tasks : BOOLEAN, exited : BOOLEAN]
      /\ cli.spoke => cli.running
  BY Types DEF TurnsInv
<1>2. CASE Speak
  <2>1. SpeakStep  BY <1>1, <1>2 DEF Speak, SpeakStep, CliRuns, Says1
  <2> QED  BY <1>2, <2>1 DEF Speak, ProviderStep, CliRuns, ClientSide, history
<1>3. CASE Detach
  <2>1. DetachStep  BY <1>1, <1>3 DEF Detach, DetachStep, CliRuns, Happens
  <2> QED  BY <1>3, <2>1 DEF Detach, ProviderStep, CliRuns, ClientSide, history
<1>4. CASE Wake
  <2>1. WakeStep  BY <1>1, <1>4 DEF Wake, WakeStep, CliRuns
  <2> QED  BY <1>4, <2>1 DEF Wake, ProviderStep, CliRuns, ClientSide, history
<1>5. CASE ReportExit
  <2>1. events' = Append(Append(events, Event("error")), Event("exited"))
    BY <1>1, <1>5, Adding, CommonEvents DEF ReportExit
  <2>2. ExitStep  BY <1>1, <1>5, <2>1 DEF ReportExit, ExitStep, Says2
  <2> QED  BY <1>5, <2>2 DEF ReportExit, ProviderStep, ClientSide, history
<1>6. CASE Crash
  <2>1. CrashStep  BY <1>1, <1>6 DEF Crash, CrashStep, Quiet, Happens, CliRuns
  <2> QED  BY <1>6, <2>1 DEF Crash, ProviderStep, CliRuns, ClientSide
<1>7. ASSUME NEW success \in BOOLEAN, Reply(success) PROVE ProviderStep
  <2>1. ReplyStep  BY <1>7, ReplySteps
  <2> QED  BY <1>7, <2>1 DEF Reply, ProviderStep, CliRuns, ClientSide
<1> QED  BY <1>2, <1>3, <1>4, <1>5, <1>6, <1>7

LEMMA ProviderGround == ASSUME TurnsInv, Ground, ProviderStep PROVE Ground'
<1>1. events \in Seq(Events) /\ desk' = desk /\ desk.runtime  BY Types DEF TurnsInv, ProviderStep
<1> DEFINE S == Event("started")
           E == Event("error")
           F == Event("failed")
           G == Event("finished")
           P == Event("parked")
<1>2. {S, E, F, G, P} \subseteq Events /\ {S, E, F, G, P} \cap Exits = {}  BY CommonEvents
<1>3. \/ Says1(S) \/ Says1(P) \/ Says1(G) \/ Says1(E) \/ Says1(F) \/ Says2(E, F) \/ events' = events
      \/ ExitStep
  BY DEF ProviderStep, SpeakStep, DetachStep, WakeStep, ReplyStep, CrashStep
<1> HIDE DEF S, E, F, G, P
<1>4. Hits(events', Exits) => Hits(events, Exits) \/ ExitStep
  BY <1>1, <1>2, <1>3, SaysExits
<1>5. /\ ~cli'.running => cli'.serving = {}
      /\ cli'.exited => ~cli'.alive
      /\ ~cli'.alive => "crash" \in incidents'
      /\ cli.exited => cli'.exited
      /\ ExitStep => cli'.exited
  BY DEF Ground, ProviderStep, SpeakStep, DetachStep, WakeStep, ReplyStep, CrashStep, ExitStep
<1> QED  BY <1>1, <1>4, <1>5 DEF Ground, Exits, Event

----------------------------------------------------------------------------
(* Turns that are settled, and what events do to them                      *)

EarlierDone(s) == \A i \in 1..Len(s) - 1 : s[i].state # "Running"
Credited(s, A) == \A i \in DOMAIN s : s[i].state = "Completed" /\ s[i].opener # None => s[i].opener \in A
Calm(d) == (Active(d) => Busy(d)) /\ EarlierDone(d.turns)

LEMMA PutShape ==
    ASSUME NEW s \in Seq(Turn), Open(s), NEW t \in Turn, NEW A
    PROVE  /\ EarlierDone(s) => EarlierDone(Put(s, t))
           /\ Open(Put(s, t)) <=> t.state = "Running"
           /\ Last(Put(s, t)) = t
           /\ Credited(s, A) /\ (t.state = "Completed" /\ t.opener # None => t.opener \in A)
                => Credited(Put(s, t), A)
<1> DEFINE u == Put(s, t)
<1>1. /\ u \in Seq(Turn) /\ Len(u) = Len(s) /\ DOMAIN u = DOMAIN s /\ DOMAIN s = 1..Len(s)
      /\ Len(s) \in Nat /\ u # <<>> /\ Last(u) = t /\ u[Len(s)] = t
      /\ \A i \in DOMAIN s : i # Len(s) => u[i] = s[i]
  BY PutTurn DEF Open
<1> HIDE DEF u
<1>2. ASSUME EarlierDone(s) PROVE EarlierDone(u)
  <2>1. Len(s) \in Nat /\ Len(u) = Len(s)  BY <1>1
  <2>2. \A i \in 1..Len(s) - 1 : i \in 1..Len(s) /\ i # Len(s)  BY <2>1
  <2>3. \A i \in 1..Len(s) - 1 : u[i] = s[i]  BY <1>1, <2>2
  <2> QED  BY <1>2, <2>1, <2>3 DEF EarlierDone
<1>3. ASSUME Credited(s, A), t.state = "Completed" /\ t.opener # None => t.opener \in A
      PROVE  Credited(u, A)
  <2> SUFFICES ASSUME NEW i \in DOMAIN s, u[i].state = "Completed", u[i].opener # None
               PROVE  u[i].opener \in A
    BY <1>1 DEF Credited
  <2> QED  BY <1>1, <1>3 DEF Credited
<1> QED  BY <1>1, <1>2, <1>3 DEF Open, u

LEMMA AppendShape ==
    ASSUME NEW s \in Seq(Turn), ~Open(s), NEW t \in Turn, t.state = "Running", NEW A
    PROVE  /\ EarlierDone(s) => EarlierDone(Append(s, t))
           /\ Open(Append(s, t)) /\ Last(Append(s, t)) = t
           /\ Credited(s, A) => Credited(Append(s, t), A)
<1> DEFINE u == Append(s, t)
<1>1. /\ u \in Seq(Turn) /\ Len(u) = Len(s) + 1 /\ DOMAIN u = 1..Len(s) + 1 /\ DOMAIN s = 1..Len(s)
      /\ Len(s) \in Nat /\ u # <<>> /\ Last(u) = t /\ u[Len(s) + 1] = t
      /\ \A i \in DOMAIN s : u[i] = s[i]
  BY AppendTurn
<1> HIDE DEF u
<1>2. EarlierDone(s) => EarlierDone(u)
  <2> SUFFICES ASSUME EarlierDone(s), NEW i \in 1..Len(u) - 1 PROVE u[i].state # "Running"
    BY DEF EarlierDone
  <2>1. i \in DOMAIN s /\ u[i] = s[i]  BY <1>1
  <2>2. CASE i = Len(s)
    <3>1. s # <<>>  BY <2>1, <2>2, <1>1, EmptySeq
    <3>2. Last(s) = s[Len(s)]  BY <3>1, LastTurn
    <3> QED  BY <2>1, <2>2, <3>1, <3>2 DEF Open
  <2>3. CASE i # Len(s)
    <3>1. i \in 1..Len(s) - 1  BY <2>3, <2>1, <1>1
    <3> QED  BY <2>1, <3>1 DEF EarlierDone
  <2> QED  BY <2>2, <2>3
<1>3. ASSUME Credited(s, A) PROVE Credited(u, A)
  <2> SUFFICES ASSUME NEW i \in DOMAIN u, u[i].state = "Completed", u[i].opener # None
               PROVE  u[i].opener \in A
    BY DEF Credited
  <2>1. i # Len(s) + 1  BY <1>1
  <2>2. i \in DOMAIN s  BY <1>1, <2>1
  <2> QED  BY <1>1, <1>3, <2>2 DEF Credited
<1> QED  BY <1>1, <1>2, <1>3 DEF Open, u

LEMMA FrontShape ==
    ASSUME NEW s \in Seq(Turn), s # <<>>, NEW A
    PROVE  /\ EarlierDone(s) => EarlierDone(Front(s)) /\ ~Open(Front(s))
           /\ Credited(s, A) => Credited(Front(s), A)
<1> DEFINE u == Front(s)
<1>1. Len(s) \in Nat /\ DOMAIN s = 1..Len(s) /\ Len(s) # 0  BY LenProperties, EmptySeq
<1>2. u \in Seq(Turn) /\ Len(u) = Len(s) - 1 /\ \A i \in 1..Len(s) - 1 : u[i] = s[i]
  BY <1>1, SubSeqProperties DEF Front
<1>3. DOMAIN u = 1..Len(s) - 1  BY <1>2, LenProperties
<1> HIDE DEF u
<1>4. ASSUME EarlierDone(s) PROVE EarlierDone(u) /\ ~Open(u)
  <2>1. \A i \in 1..Len(s) - 1 : u[i].state # "Running"  BY <1>2, <1>4 DEF EarlierDone
  <2>2. EarlierDone(u)  BY <1>1, <1>2, <2>1 DEF EarlierDone
  <2>3. u # <<>> => Last(u) = u[Len(u)] /\ Len(u) \in 1..Len(s) - 1  BY <1>2, <1>3, LastTurn
  <2> QED  BY <1>2, <2>1, <2>2, <2>3 DEF Open
<1>5. Credited(s, A) => Credited(u, A)  BY <1>1, <1>2, <1>3 DEF Credited
<1> QED  BY <1>4, <1>5 DEF u

LEMMA ClosesShape ==
    ASSUME NEW d, Known(d), NEW e, NEW ending \in Endings, Closes(d, e, ending), NEW A
    PROVE  /\ ~Active(e) /\ (EarlierDone(d.turns) => EarlierDone(e.turns))
           /\ Credited(d.turns, A) /\ ending # "Completed" => Credited(e.turns, A)
<1>1. d.turns \in Seq(Turn)  BY DEF Known, Desk
<1>2. CASE ~Open(d.turns)  BY <1>2, ActiveIsOpen DEF Closes
<1>3. CASE Open(d.turns)
  <2> DEFINE l == Last(d.turns)
             t == [l EXCEPT !.state = ending]
  <2>1. l \in Turn  BY <1>1, <1>3, LastTurn DEF Open
  <2>2. t \in Turn /\ t.state = ending /\ ending # "Running"  BY <2>1 DEF Turn, Endings
  <2>3. e.turns = Put(d.turns, t)  BY <1>3 DEF Closes
  <2> HIDE DEF t
  <2> QED  BY <1>1, <1>3, <2>2, <2>3, PutShape, ActiveIsOpen
<1> QED  BY <1>2, <1>3

\* What each of the events does to a task that has a runtime.
LEMMA StartedShape ==
    ASSUME NEW d, Known(d), d.runtime, NEW A
    PROVE  LET h == Handled(d, Event("started"), FALSE)
           IN /\ h.runtime /\ Active(h) /\ (EarlierDone(d.turns) => Calm(h))
              /\ Credited(d.turns, A) => Credited(h.turns, A)
              /\ Last(h.turns).opener = IF Active(d) THEN Last(d.turns).opener ELSE None
<1> DEFINE x == Event("started")
           h == Handled(d, x, FALSE)
           s == d.turns
           l == Last(s)
<1>1. d \in Desk /\ Sound(s) /\ s \in Seq(Turn) /\ x \in Events /\ x.kind = "started"
  BY CommonEvents DEF Known, Desk, Event
<1> HIDE DEF x
<1>2. h.turns = TurnsThen(s, d.status, x) /\ h.status = StatusThen(s, d.status, x) /\ h.runtime
  BY <1>1, HandledEffect
<1> HIDE DEF h
<1>3. h.status = "Working"  BY <1>1, <1>2 DEF StatusThen
<1>4. CASE Open(s)
  <2> DEFINE t == [l EXCEPT !.started = TRUE]
  <2>1. l \in Turn /\ l.state = "Running"  BY <1>1, <1>4, LastTurn DEF Open
  <2>2. t \in Turn /\ t.state = "Running" /\ t.opener = l.opener  BY <2>1 DEF Turn
  <2>3. h.turns = Put(s, t)  BY <1>1, <1>2, <1>4 DEF TurnsThen
  <2> HIDE DEF t
  <2> QED  BY <1>1, <1>2, <1>3, <1>4, <2>2, <2>3, PutShape, ActiveIsOpen DEF Calm, Busy, h, x
<1>5. CASE ~Open(s)
  <2> DEFINE t == NewTurn(None, TRUE)
  <2>1. t \in Turn /\ t.state = "Running" /\ t.opener = None  BY NewTurnStarts DEF NewTurn
  <2>2. h.turns = Append(s, t)  BY <1>1, <1>2, <1>5 DEF TurnsThen
  <2> HIDE DEF t
  <2> QED  BY <1>1, <1>2, <1>3, <1>5, <2>1, <2>2, AppendShape, ActiveIsOpen DEF Calm, Busy, h, x
<1> QED  BY <1>4, <1>5

LEMMA AcceptedShape ==
    ASSUME NEW d, Known(d), d.runtime, NEW m \in Messages, NEW A
    PROVE  LET h == Handled(d, Accept(m), FALSE)
           IN /\ h.runtime /\ (Active(h) <=> Active(d)) /\ (Calm(d) => Calm(h))
              /\ Credited(d.turns, A) => Credited(h.turns, A)
              /\ Active(d) => Last(h.turns).opener = Last(d.turns).opener
<1> DEFINE x == Accept(m)
           h == Handled(d, x, FALSE)
           s == d.turns
           l == Last(s)
<1>1. /\ d \in Desk /\ Sound(s) /\ s \in Seq(Turn) /\ x \in Events /\ x.kind = "accepted"
      /\ x.message = m
  BY CommonEvents DEF Known, Desk, Accept
<1> HIDE DEF x
<1>2. h.turns = TurnsThen(s, d.status, x) /\ h.status = StatusThen(s, d.status, x) /\ h.runtime
  BY <1>1, HandledEffect
<1> HIDE DEF h
<1>3. h.status = d.status  BY <1>1, <1>2 DEF StatusThen
<1>4. CASE Open(s)
  <2> DEFINE t == [l EXCEPT !.folded = @ \cup {m}]
  <2>1. l \in Turn /\ l.state = "Running"  BY <1>1, <1>4, LastTurn DEF Open
  <2>2. t \in Turn /\ t.state = "Running" /\ t.opener = l.opener  BY <2>1 DEF Turn
  <2>3. h.turns = Put(s, t)  BY <1>1, <1>2, <1>4 DEF TurnsThen
  <2> HIDE DEF t
  <2> QED  BY <1>1, <1>2, <1>3, <1>4, <2>2, <2>3, PutShape, ActiveIsOpen DEF Calm, Busy, h, x
<1>5. CASE ~Open(s)
  <2>1. h.turns = s  BY <1>1, <1>2, <1>5 DEF TurnsThen
  <2> QED  BY <1>2, <1>3, <1>5, <2>1, ActiveIsOpen DEF Calm, Busy, h, x
<1> QED  BY <1>4, <1>5

LEMMA RefusedShape ==
    ASSUME NEW d, Known(d), d.runtime, NEW m \in Messages
    PROVE  LET h == Handled(d, Refuse(m), FALSE)
           IN h.runtime /\ h.turns = d.turns /\ h.status = d.status
<1>1. d \in Desk /\ Sound(d.turns) /\ Refuse(m) \in Events /\ Refuse(m).kind = "rejected"
  BY CommonEvents DEF Known, Refuse
<1> QED  BY <1>1, HandledEffect DEF TurnsThen, StatusThen

LEMMA ParkedShape ==
    ASSUME NEW d, Known(d), d.runtime
    PROVE  LET h == Handled(d, Event("parked"), FALSE)
           IN h.runtime /\ h.turns = d.turns /\ (Calm(d) => Calm(h))
<1> DEFINE x == Event("parked")
           h == Handled(d, x, FALSE)
<1>1. d \in Desk /\ Sound(d.turns) /\ x \in Events /\ x.kind = "parked"
  BY CommonEvents DEF Known, Event
<1> HIDE DEF x
<1>2. /\ h.turns = d.turns /\ h.status = IF Open(d.turns) THEN "Background" ELSE d.status
      /\ h.runtime
  BY <1>1, HandledEffect DEF TurnsThen, StatusThen
<1> HIDE DEF h
<1> QED  BY <1>2, ActiveIsOpen DEF Calm, Busy, h, x

LEMMA FinishedShape ==
    ASSUME NEW d, Known(d), d.runtime, NEW A
    PROVE  LET h == Handled(d, Event("finished"), FALSE)
           IN /\ h.runtime /\ ~Active(h) /\ (EarlierDone(d.turns) => Calm(h))
              /\ Credited(d.turns, A) /\ (Active(d) /\ Last(d.turns).opener # None =>
                                              Last(d.turns).opener \in A)
                   => Credited(h.turns, A)
<1> DEFINE x == Event("finished")
           h == Handled(d, x, FALSE)
           s == d.turns
           l == Last(s)
<1>1. d \in Desk /\ Sound(s) /\ s \in Seq(Turn) /\ x \in Events /\ x.kind = "finished"
  BY CommonEvents DEF Known, Desk, Event
<1> HIDE DEF x
<1>2. h.turns = TurnsThen(s, d.status, x) /\ h.runtime  BY <1>1, HandledEffect
<1> HIDE DEF h
<1>4. CASE Open(s)
  <2> DEFINE t == [l EXCEPT !.state = "Completed"]
  <2>1. l \in Turn  BY <1>1, <1>4, LastTurn DEF Open
  <2>2. t \in Turn /\ t.state = "Completed" /\ t.opener = l.opener  BY <2>1 DEF Turn, Endings
  <2>3. h.turns = Put(s, t)  BY <1>1, <1>2, <1>4 DEF TurnsThen
  <2> HIDE DEF t
  <2> QED  BY <1>1, <1>2, <1>4, <2>2, <2>3, PutShape, ActiveIsOpen DEF Calm, h, x
<1>5. CASE ~Open(s)
  <2>1. h.turns = s  BY <1>1, <1>2, <1>5 DEF TurnsThen
  <2> QED  BY <1>2, <1>5, <2>1, ActiveIsOpen DEF Calm, h, x
<1> QED  BY <1>4, <1>5

LEMMA FailedShape ==
    ASSUME NEW d, Known(d), d.runtime
    PROVE  LET h == Handled(d, Event("failed"), FALSE) IN h.runtime /\ Closes(d, h, "Failed")
<1> DEFINE x == Event("failed")
           h == Handled(d, x, FALSE)
<1>1. d \in Desk /\ Sound(d.turns) /\ x \in Events /\ x.kind = "failed"
  BY CommonEvents DEF Known, Event
<1> HIDE DEF x
<1>2. h.runtime /\ Closes(d, h, "Failed")
  BY <1>1, HandledEffect DEF TurnsThen, Closes
<1> QED  BY <1>2 DEF x

LEMMA ErrorShape ==
    ASSUME NEW d, Known(d), d.runtime
    PROVE  LET h == Handled(d, Event("error"), FALSE)
           IN h.runtime /\ h.turns = d.turns /\ (~Active(d) => h.status = d.status)
<1> DEFINE x == Event("error")
           h == Handled(d, x, FALSE)
<1>1. d \in Desk /\ Sound(d.turns) /\ x \in Events /\ x.kind = "error"
  BY CommonEvents DEF Known, Event
<1> HIDE DEF x
<1>2. h.runtime /\ h.turns = d.turns /\ (~Active(d) => h.status = d.status)
  BY <1>1, HandledEffect, ActiveIsOpen DEF TurnsThen, StatusThen
<1> QED  BY <1>2 DEF x

LEMMA ExitedShape ==
    ASSUME NEW d, Known(d), d.runtime
    PROVE  LET h == Handled(d, Event("exited"), FALSE)
           IN ~h.runtime /\ (h.turns = d.turns \/ Closes(d, h, "Failed"))
<1> DEFINE x == Event("exited")
           h == Handled(d, x, FALSE)
<1>1. d \in Desk /\ Sound(d.turns) /\ x \in Events /\ x.kind = "exited"
  BY CommonEvents DEF Known, Event
<1> HIDE DEF x
<1>2. ~h.runtime /\ (h.turns = d.turns \/ Closes(d, h, "Failed"))
  BY <1>1, HandledEffect DEF TurnsThen, Closes
<1> QED  BY <1>2 DEF x

----------------------------------------------------------------------------
(* The order of turns, prompts and replies                                 *)

\* The desk once all that is on its way has come.
Coming == HandledAll(desk, events, FALSE)

PromptFirst(s) == \A i \in DOMAIN s : s[i].op = "prompt" => i = 1
HasPrompt(s) == s # <<>> /\ Head(s).op = "prompt"

\* A preparation is for the last turn, which is untouched, and the provider is quiet.
PreparesLast ==
    preparations # {} =>
        /\ desk.preparing /\ Untouched(desk) /\ ProviderQuiet(desk, events)
        /\ \A p \in preparations : p.message = Last(desk.turns).opener /\ p.starts = ~desk.runtime

\* A prompt is ahead of what else is sent, to a process that is at rest.
PromptsAhead ==
    /\ PromptFirst(inbox) /\ PromptFirst(stdin)
    /\ HasPrompt(inbox) =>
          /\ stdin = <<>> /\ ~driver.active /\ ~cli.running /\ ~cli.tasks
          /\ Active(Coming) => Last(Coming.turns).opener = Head(inbox).message
    /\ HasPrompt(stdin) => ~cli.running /\ ~cli.tasks

\* A turn that runs is being prepared, is about to be written, or is the driver's.
Underway ==
    Coming.runtime /\ Active(Coming) => preparations # {} \/ HasPrompt(inbox) \/ driver.active

\* ... and what the process serves, or will read next, is its message.
Serves(o) == (HasPrompt(stdin) /\ Head(stdin).message = o) \/ o \in cli.serving \cup answered
Served ==
    Coming.runtime /\ cli.alive /\ driver.active /\ Active(Coming) /\ Last(Coming.turns).opener # None
        => Serves(Last(Coming.turns).opener)

Settled ==
    /\ Credited(Coming.turns, answered)
    /\ "crash" \notin incidents => Calm(Coming)

Order == ~mixed => PreparesLast /\ PromptsAhead /\ Underway /\ Served /\ Settled

LEMMA PromptMarks ==
    ASSUME NEW s \in Seq(Commands), PromptFirst(s)
    PROVE  /\ s # <<>> => PromptFirst(Tail(s)) /\ ~HasPrompt(Tail(s))
           /\ \A c \in Commands : c.op # "prompt" =>
                 /\ PromptFirst(Append(s, c)) /\ (HasPrompt(Append(s, c)) <=> HasPrompt(s))
                 /\ HasPrompt(s) => Head(Append(s, c)) = Head(s)
<1>1. /\ Len(s) \in Nat /\ DOMAIN s = 1..Len(s) /\ (s = <<>> <=> Len(s) = 0)
  BY LenProperties, EmptySeq
<1>2. ASSUME s # <<>> PROVE PromptFirst(Tail(s)) /\ ~HasPrompt(Tail(s))
  <2> DEFINE t == Tail(s)
  <2>1. t \in Seq(Commands) /\ Len(t) = Len(s) - 1 /\ \A i \in 1..Len(t) : t[i] = s[i + 1]
    BY <1>2, HeadTailProperties
  <2> HIDE DEF t
  <2>2. DOMAIN t = 1..Len(t) /\ (t # <<>> => Len(t) # 0 /\ Head(t) = t[1])
    BY <2>1, EmptySeq, LenProperties, HeadTailProperties
  <2>3. \A i \in 1..Len(t) : i + 1 \in 1..Len(s) /\ i + 1 # 1  BY <2>1, <1>1
  <2>4. \A i \in 1..Len(t) : t[i].op # "prompt"  BY <2>1, <2>3, <1>1 DEF PromptFirst
  <2>5. t # <<>> => 1 \in 1..Len(t)  BY <2>1, <2>2, <1>1
  <2> QED  BY <2>2, <2>4, <2>5 DEF PromptFirst, HasPrompt, t
<1>3. ASSUME NEW c \in Commands, c.op # "prompt"
      PROVE  /\ PromptFirst(Append(s, c)) /\ (HasPrompt(Append(s, c)) <=> HasPrompt(s))
             /\ HasPrompt(s) => Head(Append(s, c)) = Head(s)
  <2> DEFINE t == Append(s, c)
  <2>1. /\ t \in Seq(Commands) /\ Len(t) = Len(s) + 1 /\ t[Len(s) + 1] = c
        /\ \A i \in 1..Len(s) : t[i] = s[i]
    BY AppendProperties
  <2> HIDE DEF t
  <2>2. DOMAIN t = 1..Len(s) + 1 /\ t # <<>> /\ Head(t) = t[1]
    BY <2>1, <1>1, EmptySeq, LenProperties, HeadTailProperties
  <2>3. PromptFirst(t)
    <3> SUFFICES ASSUME NEW i \in 1..Len(s) + 1, t[i].op = "prompt" PROVE i = 1
      BY <2>2 DEF PromptFirst
    <3>1. i # Len(s) + 1  BY <2>1, <1>3
    <3>2. i \in 1..Len(s)  BY <3>1, <1>1
    <3> QED  BY <3>2, <2>1, <1>1 DEF PromptFirst
  <2>4. CASE s = <<>>
    <3>1. t[1] = c  BY <2>1, <2>4, <1>1
    <3> QED  BY <2>2, <2>3, <2>4, <3>1, <1>3 DEF HasPrompt, t
  <2>5. CASE s # <<>>
    <3>1. 1 \in 1..Len(s) /\ Head(s) = s[1]  BY <2>5, <1>1, HeadTailProperties
    <3> QED  BY <2>1, <2>2, <2>3, <2>5, <3>1 DEF HasPrompt, t
  <2> QED  BY <2>4, <2>5
<1> QED  BY <1>2, <1>3

LEMMA PromptAlone ==
    ASSUME NEW c
    PROVE  /\ PromptFirst(<<>>) /\ ~HasPrompt(<<>>) /\ Append(<<>>, c) = <<c>>
           /\ PromptFirst(<<c>>) /\ (HasPrompt(<<c>>) <=> c.op = "prompt") /\ Head(<<c>>) = c
BY DEF PromptFirst, HasPrompt

\* What is coming.
LEMMA ComesKnown ==
    ASSUME NEW d, Known(d), NEW es \in Seq(Events)
    PROVE  LET c == HandledAll(d, es, FALSE)
           IN /\ Known(c) /\ Grew(d.turns, c.turns) /\ (es = <<>> \/ ~d.runtime => c = d)
              /\ d.runtime /\ ~Hits(es, Exits) => c.runtime
<1>1. es = <<>> => HandledAll(d, es, FALSE) = d  BY NothingComes
<1>2. ~Hits(es, Exits) => \A k \in DOMAIN es : es[k].kind # "exited"
  <2> SUFFICES ASSUME NEW k \in DOMAIN es, es[k].kind = "exited" PROVE Hits(es, Exits)
    OBVIOUS
  <2>1. es[k] \in Events  BY LenProperties, ElementOfSeq
  <2>2. es[k] = Event("exited")  BY <2>1 DEF Events, Event
  <2> QED  BY <2>2 DEF Hits, Exits
<1> QED  BY <1>1, <1>2, HandledAllKnown

LEMMA DeskKnown ==
    ASSUME TurnsInv, Ground
    PROVE  /\ Known(desk) /\ events \in Seq(Events) /\ Known(Coming)
           /\ events = <<>> \/ ~desk.runtime => Coming = desk
           /\ ~desk.runtime => inbox = <<>> /\ events = <<>> /\ stdin = <<>> /\ ~driver.active
                               /\ cli.alive /\ ~cli.running /\ ~cli.tasks
<1>1. Known(desk) /\ events \in Seq(Events)  BY Types DEF TurnsInv, Ground, Known
<1>2. ~desk.runtime => inbox = <<>> /\ events = <<>> /\ stdin = <<>> /\ ~driver.active
                       /\ cli.alive /\ ~cli.running /\ ~cli.tasks
  BY DEF Ground, NewDriver, NewCli
<1> QED  BY <1>1, <1>2, ComesKnown DEF Coming

LEMMA DeskKnownNext ==
    ASSUME TurnsInv', Ground'
    PROVE  /\ Known(desk') /\ events' \in Seq(Events) /\ Known(Coming')
           /\ events' = <<>> \/ ~desk'.runtime => Coming' = desk'
<1>1. Known(desk') /\ events' \in Seq(Events)  BY DEF TurnsInv, TypeOK, Ground, Known
<1>2. Coming' = HandledAll(desk', events', FALSE)  BY DEF Coming
<1> QED  BY <1>1, <1>2, ComesKnown

\* The same events come to a desk that is alike.
LEMMA ComingSame ==
    ASSUME TurnsInv, Ground, Alike(desk, desk'), events' = events PROVE Alike(Coming, Coming')
<1>1. events \in Seq(Events)  BY DeskKnown
<1>2. Coming' = HandledAll(desk', events, FALSE)  BY DEF Coming
<1> QED  BY <1>1, <1>2, HandledAllAlike DEF Coming

\* The provider says something more.
LEMMA ComingSays ==
    ASSUME TurnsInv, Ground, desk' = desk, NEW x \in Events, NEW y \in Events, NEW z \in Events
    PROVE  LET h == Handled(Coming, x, FALSE)
               i == Handled(h, y, FALSE)
               j == Handled(i, z, FALSE)
           IN /\ Says1(x) => Alike(h, Coming')
              /\ Says2(x, y) => Alike(i, Coming')
              /\ Says3(x, y, z) => Alike(j, Coming')
<1> DEFINE a == Append(events, x)
           b == Append(a, y)
           c == Append(b, z)
           h == Handled(Coming, x, FALSE)
           i == Handled(h, y, FALSE)
           j == Handled(i, z, FALSE)
           A == HandledAll(desk, a, FALSE)
           B == HandledAll(desk, b, FALSE)
           C == HandledAll(desk, c, FALSE)
<1>1. Known(desk) /\ events \in Seq(Events)  BY DeskKnown
<1>2. /\ Says1(x) => Coming' = A
      /\ Says2(x, y) => Coming' = B
      /\ Says3(x, y, z) => Coming' = C
  BY DEF Coming, Says1, Says2, Says3
<1>3. a \in Seq(Events)  BY <1>1, AppendMarks
<1> HIDE DEF a
<1>4. b \in Seq(Events)  BY <1>3, AppendMarks
<1> HIDE DEF b
<1>5. Alike(A, h)  BY <1>1, OneMoreComes DEF Coming, a
<1>6. Alike(B, Handled(A, y, FALSE))  BY <1>1, <1>3, OneMoreComes DEF b
<1>7. Alike(C, Handled(B, z, FALSE))  BY <1>1, <1>4, OneMoreComes
<1> HIDE DEF A, B, C, h
<1>8. Alike(Handled(A, y, FALSE), i)  BY <1>5, HandledAlike
<1>9. Alike(B, i)  BY <1>6, <1>8, AlikeTrans
<1> HIDE DEF i
<1>10. Alike(Handled(B, z, FALSE), j)  BY <1>9, HandledAlike
<1>11. Alike(C, j)  BY <1>7, <1>10, AlikeTrans
<1> QED  BY <1>2, <1>5, <1>9, <1>11 DEF Alike, h, i, j

LEMMA AlikeShape ==
    ASSUME NEW d, NEW e, Alike(d, e)
    PROVE  /\ Active(e) <=> Active(d)
           /\ e.turns = d.turns /\ e.runtime = d.runtime /\ e.status = d.status
           /\ Calm(d) => Calm(e)
BY DEF Alike, Active, Calm, Busy

\* Nothing new is coming, and nothing is being prepared.
LEMMA SameOrder ==
    ASSUME Order, Alike(Coming, Coming'), desk' \in Desk, preparations' = {},
           UNCHANGED <<incidents, answered, mixed>>,
           UNCHANGED <<inbox, stdin, driver, cli>> \/ (Closed /\ ~Coming'.runtime), preparations = {}
    PROVE  Order'
<1> SUFFICES ASSUME ~mixed'
             PROVE  PreparesLast' /\ PromptsAhead' /\ Underway' /\ Served' /\ Settled'
  BY DEF Order
<1>1. PreparesLast /\ PromptsAhead /\ Underway /\ Served /\ Settled  BY DEF Order
<1>2. /\ Active(Coming)' <=> Active(Coming)
      /\ Coming'.turns = Coming.turns /\ Coming'.runtime = Coming.runtime
      /\ Calm(Coming) => Calm(Coming)'
  BY AlikeShape
<1>3. PreparesLast'  BY DEF PreparesLast
<1>4. Settled'  BY <1>1, <1>2 DEF Settled
<1>5. CASE UNCHANGED <<inbox, stdin, driver, cli>>
  <2>1. PromptsAhead'  BY <1>1, <1>2, <1>5 DEF PromptsAhead
  <2>2. Underway'  BY <1>1, <1>2, <1>5 DEF Underway
  <2>3. Served'  BY <1>1, <1>2, <1>5 DEF Served, Serves
  <2> QED  BY <1>3, <1>4, <2>1, <2>2, <2>3
<1>6. CASE Closed /\ ~Coming'.runtime
  <2>1. inbox' = <<>> /\ stdin' = <<>>  BY <1>6 DEF Closed
  <2>2. PromptsAhead'  BY <2>1, PromptAlone DEF PromptsAhead
  <2> QED  BY <1>3, <1>4, <1>6, <2>2 DEF Underway, Served
<1> QED  BY <1>5, <1>6

\* While something runs, or is on its way, nothing is being prepared.
LEMMA NothingPrepared ==
    ASSUME TurnsInv, Ground, Order, ~mixed,
           \/ inbox # <<>> \/ stdin # <<>> \/ events # <<>> \/ driver.active
           \/ ~cli.alive \/ cli.running \/ cli.tasks \/ ~desk.preparing \/ ~Active(desk)
           \/ Last(desk.turns).started
    PROVE  preparations = {}
<1>1. PreparesLast  BY DEF Order
<1>2. ~desk.runtime => inbox = <<>> /\ events = <<>> /\ stdin = <<>> /\ ~driver.active
                       /\ cli.alive /\ ~cli.running /\ ~cli.tasks
  BY DeskKnown
<1> QED  BY <1>1, <1>2 DEF PreparesLast, ProviderQuiet, Untouched

LEMMA CreditedAppend ==
    ASSUME NEW s \in Seq(Turn), NEW t \in Turn, t.state = "Running", NEW A, Credited(s, A)
    PROVE  Credited(Append(s, t), A)
<1> DEFINE u == Append(s, t)
<1>1. /\ DOMAIN u = 1..Len(s) + 1 /\ DOMAIN s = 1..Len(s) /\ Len(s) \in Nat /\ u[Len(s) + 1] = t
      /\ \A i \in DOMAIN s : u[i] = s[i]
  BY AppendTurn
<1> HIDE DEF u
<1> SUFFICES ASSUME NEW i \in DOMAIN u, u[i].state = "Completed", u[i].opener # None
             PROVE  u[i].opener \in A
  BY DEF Credited, u
<1>2. i # Len(s) + 1  BY <1>1
<1>3. i \in DOMAIN s  BY <1>1, <1>2
<1> QED  BY <1>1, <1>3 DEF Credited

\* A turn begins once all that was coming has come, with the provider at rest.
LEMMA OpensOrder ==
    ASSUME TurnsInv', Ground', Order, NEW d, Alike(Coming, d),
           NEW m \in Messages, NEW es, Opens(d, m, es),
           inbox' = <<>>, events' = <<>>, stdin' = <<>>, ~driver'.active,
           cli'.alive, ~cli'.running, ~cli'.tasks, UNCHANGED <<incidents, answered>>
    PROVE  Order'
<1> SUFFICES ASSUME ~mixed'
             PROVE  PreparesLast' /\ PromptsAhead' /\ Underway' /\ Served' /\ Settled'
  BY DEF Order
<1> DEFINE t == NewTurn(m, FALSE)
<1>1. ~mixed /\ preparations = {}  BY DEF Opens
<1>2. Known(d) /\ d.turns \in Seq(Turn) /\ d.turns = Coming.turns  BY DEF Alike, Known, Desk
<1>4. Coming' = desk'  BY DeskKnownNext
<1>5. /\ desk'.turns = Append(d.turns, t) /\ desk'.status = "Connecting" /\ ~Busy(d)
      /\ desk'.runtime = d.runtime /\ desk'.preparing = TRUE
      /\ preparations' = {[message |-> m, starts |-> ~d.runtime]}
  BY <1>1 DEF Opens
<1>6. t \in Turn /\ t.state = "Running" /\ t.opener = m /\ ~t.started  BY NewTurnStarts DEF NewTurn
<1> HIDE DEF t
<1>7. desk'.turns # <<>> /\ Last(desk'.turns) = t  BY <1>2, <1>5, <1>6, AppendTurn
<1>8. Untouched(desk')  BY <1>5, <1>6, <1>7 DEF Untouched, Active
<1>9. PreparesLast'
  <2>1. ProviderQuiet(desk, events)'  BY DEF ProviderQuiet
  <2>2. Untouched(desk)'  BY <1>8
  <2>3. \A p \in preparations' : p.message = Last(desk'.turns).opener /\ p.starts = ~desk'.runtime
    BY <1>5, <1>6, <1>7
  <2> QED  BY <1>5, <2>1, <2>2, <2>3 DEF PreparesLast
<1>10. PromptsAhead'  BY PromptAlone DEF PromptsAhead
<1>11. Underway' /\ Served'
  <2>1. preparations' # {} /\ ~driver'.active  BY <1>5
  <2> QED  BY <2>1 DEF Underway, Served
<1>12. Settled'
  <2>1. Settled  BY <1>1 DEF Order
  <2>2. Credited(desk'.turns, answered')  BY <2>1, <1>2, <1>5, <1>6, CreditedAppend DEF Settled
  <2>3. ASSUME "crash" \notin incidents PROVE Calm(desk')
    <3>1. Calm(d)  BY <2>1, <2>3, AlikeShape DEF Settled
    <3>2. ~Open(d.turns)  BY <3>1, <1>5, ActiveIsOpen DEF Calm
    <3>3. EarlierDone(desk'.turns)  BY <3>1, <3>2, <1>2, <1>5, <1>6, AppendShape DEF Calm
    <3> QED  BY <3>3, <1>5 DEF Calm, Busy
  <2> QED  BY <2>2, <2>3, <1>4 DEF Settled
<1> QED  BY <1>9, <1>10, <1>11, <1>12

\* A turn that the desk begins and that mixes nothing finds the provider at rest.
LEMMA OpensQuiet ==
    ASSUME TurnsInv, Ground, NEW m, Opens(desk, m, events), ~mixed'
    PROVE  /\ ~mixed /\ Alike(Coming, desk)
           /\ inbox = <<>> /\ events = <<>> /\ stdin = <<>> /\ ~driver.active
           /\ cli.alive /\ ~cli.running /\ ~cli.tasks
<1>1. ~mixed /\ ProviderQuiet(desk, events)  BY DEF Opens
<1>2. /\ inbox = <<>> /\ events = <<>> /\ stdin = <<>> /\ ~driver.active
      /\ cli.alive /\ ~cli.running /\ ~cli.tasks
  BY <1>1, DeskKnown DEF ProviderQuiet
<1>3. Alike(Coming, desk)  BY <1>2, DeskKnown, AlikeSelf
<1> QED  BY <1>1, <1>2, <1>3

LEMMA UserOrder ==
    ASSUME TurnsInv, TurnsInv', Ground, Ground', Order, UserStep PROVE Order'
<1>1. UNCHANGED <<events, driver, stdin, cli, incidents, answered>>  BY DEF UserStep
<1>2. ASSUME Still(desk) PROVE Alike(desk, desk') /\ Alike(Coming, Coming')
  <2>1. Alike(desk, desk')  BY <1>2, DeskKnown, DeskKnownNext DEF Still, Alike
  <2> QED  BY <2>1, <1>1, ComingSame
<1>3. CASE Still(desk) /\ inbox' = inbox
  <2> SUFFICES ASSUME ~mixed'
               PROVE  PreparesLast' /\ PromptsAhead' /\ Underway' /\ Served' /\ Settled'
    BY DEF Order
  <2>1. /\ Active(Coming)' <=> Active(Coming)
        /\ Coming'.turns = Coming.turns /\ Coming'.runtime = Coming.runtime
        /\ Calm(Coming) => Calm(Coming)'
    BY <1>2, <1>3, AlikeShape
  <2>2. /\ desk'.turns = desk.turns /\ desk'.status = desk.status /\ desk'.runtime = desk.runtime
        /\ desk'.preparing = desk.preparing /\ preparations' = preparations /\ mixed' = mixed
    BY <1>3 DEF Still
  <2>3. PreparesLast /\ PromptsAhead /\ Underway /\ Served /\ Settled  BY <2>2 DEF Order
  <2>4. PreparesLast'
    BY <2>2, <2>3, <1>1, <1>3 DEF PreparesLast, Untouched, Active, ProviderQuiet
  <2>5. PromptsAhead'  BY <2>1, <2>2, <2>3, <1>1, <1>3 DEF PromptsAhead
  <2>6. Underway'  BY <2>1, <2>2, <2>3, <1>1, <1>3 DEF Underway
  <2>7. Served'  BY <2>1, <2>2, <2>3, <1>1, <1>3 DEF Served, Serves
  <2>8. Settled'  BY <2>1, <2>2, <2>3, <1>1, <1>3 DEF Settled
  <2> QED  BY <2>4, <2>5, <2>6, <2>7, <2>8
<1>4. ASSUME NEW m \in Messages, Still(desk), CanSteer(desk),
             inbox' = Append(inbox, [op |-> "steer", message |-> m])
      PROVE  Order'
  <2> SUFFICES ASSUME ~mixed'
               PROVE  PreparesLast' /\ PromptsAhead' /\ Underway' /\ Served' /\ Settled'
    BY DEF Order
  <2> DEFINE c == [op |-> "steer", message |-> m]
  <2>1. /\ Active(Coming)' <=> Active(Coming)
        /\ Coming'.turns = Coming.turns /\ Coming'.runtime = Coming.runtime
        /\ Calm(Coming) => Calm(Coming)'
    BY <1>2, <1>4, AlikeShape
  <2>2. preparations' = preparations /\ mixed' = mixed  BY <1>4 DEF Still
  <2>3. PreparesLast /\ PromptsAhead /\ Underway /\ Served /\ Settled  BY <2>2 DEF Order
  <2>4. preparations = {}  BY <1>4, <2>2, NothingPrepared DEF CanSteer
  <2>5. c \in Commands /\ c.op # "prompt" /\ inbox \in Seq(Commands)  BY Types DEF Commands, TurnsInv
  <2>6. inbox' = Append(inbox, c)  BY <1>4
  <2> HIDE DEF c
  <2>7. /\ PromptFirst(inbox') /\ (HasPrompt(inbox') <=> HasPrompt(inbox))
        /\ HasPrompt(inbox) => Head(inbox') = Head(inbox)
    BY <2>3, <2>5, <2>6, PromptMarks DEF PromptsAhead
  <2>8. PreparesLast'  BY <2>2, <2>4 DEF PreparesLast
  <2>9. PromptsAhead'  BY <2>1, <2>3, <2>7, <1>1 DEF PromptsAhead
  <2>10. Underway'  BY <2>1, <2>2, <2>3, <2>7, <1>1 DEF Underway
  <2>11. Served'  BY <2>1, <2>2, <2>3, <1>1 DEF Served, Serves
  <2>12. Settled'  BY <2>1, <2>2, <2>3, <1>1 DEF Settled
  <2> QED  BY <2>8, <2>9, <2>10, <2>11, <2>12
<1>5. ASSUME NEW m \in Messages, Opens(desk, m, events), inbox' = inbox PROVE Order'
  <2> SUFFICES ASSUME ~mixed' PROVE Order'  BY DEF Order
  <2>1. /\ Alike(Coming, desk) /\ inbox = <<>> /\ events = <<>> /\ stdin = <<>> /\ ~driver.active
        /\ cli.alive /\ ~cli.running /\ ~cli.tasks
    BY <1>5, OpensQuiet
  <2> QED  BY <1>1, <1>5, <2>1, OpensOrder
<1> QED  BY <1>3, <1>4, <1>5 DEF UserStep

\* The last turn ends, all that has come is handled, and nothing is prepared.
LEMMA ClosesOrder ==
    ASSUME TurnsInv', Ground', Order, NEW d, Alike(Coming, d), NEW ending \in Endings \ {"Completed"},
           Closes(d, desk', ending), events' = <<>>, ~mixed, preparations' = {},
           answered' = answered, incidents \subseteq incidents',
           \/ inbox' = inbox /\ UNCHANGED <<stdin, driver, cli>>
           \/ inbox' = Append(inbox, [op |-> "cancel", message |-> None]) /\ inbox \in Seq(Commands)
              /\ UNCHANGED <<stdin, driver, cli>>
           \/ Closed
    PROVE  Order'
<1> SUFFICES PreparesLast' /\ PromptsAhead' /\ Underway' /\ Served' /\ Settled'
  BY DEF Order
<1>1. PromptsAhead /\ Settled  BY DEF Order
<1>2. Coming' = desk' /\ Known(d) /\ d.turns = Coming.turns  BY DeskKnownNext DEF Alike
<1>3. /\ ~Active(desk') /\ (EarlierDone(d.turns) => EarlierDone(desk'.turns))
      /\ Credited(d.turns, answered) => Credited(desk'.turns, answered)
  BY <1>2, ClosesShape
<1>4. Settled'
  <2>1. Credited(desk'.turns, answered')  BY <1>1, <1>2, <1>3 DEF Settled
  <2>2. "crash" \notin incidents' => Calm(desk')  BY <1>1, <1>2, <1>3 DEF Settled, Calm
  <2> QED  BY <2>1, <2>2, <1>2 DEF Settled
<1>5. PreparesLast' /\ Underway' /\ Served'
  BY <1>2, <1>3 DEF PreparesLast, Underway, Served
<1>6. CASE Closed
  <2>1. inbox' = <<>> /\ stdin' = <<>>  BY <1>6 DEF Closed
  <2> QED  BY <1>4, <1>5, <2>1, PromptAlone DEF PromptsAhead
<1>7. CASE inbox' = inbox /\ UNCHANGED <<stdin, driver, cli>>
  BY <1>1, <1>2, <1>3, <1>4, <1>5, <1>7 DEF PromptsAhead
<1>8. CASE /\ inbox' = Append(inbox, [op |-> "cancel", message |-> None]) /\ inbox \in Seq(Commands)
           /\ UNCHANGED <<stdin, driver, cli>>
  <2> DEFINE c == [op |-> "cancel", message |-> None]
  <2>1. c \in Commands /\ c.op # "prompt" /\ inbox' = Append(inbox, c)  BY <1>8 DEF Commands
  <2> HIDE DEF c
  <2>2. PromptFirst(inbox') /\ (HasPrompt(inbox') <=> HasPrompt(inbox))
    BY <1>1, <1>8, <2>1, PromptMarks DEF PromptsAhead
  <2> QED  BY <1>1, <1>2, <1>3, <1>4, <1>5, <1>8, <2>2 DEF PromptsAhead
<1> QED  BY <1>6, <1>7, <1>8

LEMMA PumpKnown == ASSUME TurnsInv, Ground, NEW n, NEW d, PumpStep(n, d) PROVE Known(d)
<1>1. d = HandledAll(desk, SubSeq(events, 1, n), TRUE) /\ n \in 1..Len(events)  BY DEF PumpStep
<1>2. n \in 0..Len(events)  BY <1>1, Types, LenProperties DEF TurnsInv
<1> QED  BY <1>1, <1>2, ShownKnown

\* What the event pump has handled, and what is left.
LEMMA PumpParts ==
    ASSUME TurnsInv, Ground, NEW n, NEW d, PumpStep(n, d), NEW e, Alike(d, e)
    PROVE  LET rest == SubSeq(events, n + 1, Len(events))
           IN /\ events # <<>> /\ rest \in Seq(Events)
              /\ Alike(Coming, HandledAll(e, rest, FALSE))
              /\ IF d.runtime THEN events' = rest /\ UNCHANGED <<inbox, stdin, driver, cli>> ELSE Closed
<1> DEFINE rest == SubSeq(events, n + 1, Len(events))
<1>1. /\ n \in 1..Len(events) /\ d = HandledAll(desk, SubSeq(events, 1, n), TRUE)
      /\ IF d.runtime THEN events' = rest /\ UNCHANGED <<inbox, stdin, driver, cli>> ELSE Closed
  BY DEF PumpStep
<1>2. Known(desk) /\ events \in Seq(Events)  BY DeskKnown
<1>3. Len(events) \in Nat /\ n \in 0..Len(events) /\ events # <<>>
  BY <1>1, <1>2, LenProperties, EmptySeq
<1>4. rest \in Seq(Events)
  <2>1. \A k \in n + 1..Len(events) : events[k] \in Events  BY <1>2, <1>3, ElementOfSeq
  <2> QED  BY <2>1, <1>2, <1>3, SubSeqProperties
<1>5. Alike(Coming, HandledAll(e, rest, FALSE))
  <2>1. Alike(HandledAll(desk, SubSeq(events, 1, n), TRUE), e)  BY <1>1
  <2> QED  BY <2>1, <1>2, <1>3, SplitAlike DEF Coming
<1> QED  BY <1>1, <1>3, <1>4, <1>5

\* The event pump brings nothing that was not coming.
LEMMA PumpComing ==
    ASSUME TurnsInv, TurnsInv', Ground, Ground', NEW n, NEW d, PumpStep(n, d), Still(d)
    PROVE  /\ mixed' = mixed /\ preparations' = preparations /\ Alike(Coming, Coming')
           /\ UNCHANGED <<inbox, stdin, driver, cli>> \/ (Closed /\ ~Coming'.runtime)
           /\ events # <<>>
<1> DEFINE rest == SubSeq(events, n + 1, Len(events))
<1>1. mixed' = mixed /\ preparations' = preparations  BY DEF Still
<1>2. Known(d)  BY PumpKnown
<1>3. Alike(d, desk')  BY <1>2, DeskKnownNext DEF Still, Alike
<1>4. /\ events # <<>> /\ rest \in Seq(Events) /\ Alike(Coming, HandledAll(desk', rest, FALSE))
      /\ IF d.runtime THEN events' = rest /\ UNCHANGED <<inbox, stdin, driver, cli>> ELSE Closed
  BY <1>3, PumpParts
<1> HIDE DEF rest
<1>5. CASE d.runtime
  <2>1. Coming' = HandledAll(desk', rest, FALSE)  BY <1>4, <1>5 DEF Coming
  <2> QED  BY <2>1, <1>1, <1>4, <1>5
<1>6. CASE ~d.runtime
  <2>1. Closed  BY <1>4, <1>6
  <2>2. events' = <<>> /\ ~desk'.runtime  BY <2>1, <1>3, <1>6 DEF Closed, Alike
  <2>3. Coming' = desk' /\ HandledAll(desk', rest, FALSE) = desk'
    BY <2>2, <1>4, DeskKnownNext, ComesKnown
  <2>4. Alike(Coming, Coming') /\ ~Coming'.runtime  BY <2>2, <2>3, <1>4
  <2> QED  BY <1>1, <1>4, <2>1, <2>4
<1> QED  BY <1>5, <1>6

\* A turn that it begins and that mixes nothing finds nothing more coming, and the
\* provider at rest or gone.
LEMMA PumpStarts ==
    ASSUME TurnsInv, Ground, NEW n, NEW d, PumpStep(n, d), ~mixed',
           NEW m, Opens(d, m, SubSeq(events, n + 1, Len(events)))
    PROVE  /\ ~mixed /\ Alike(Coming, d)
           /\ inbox' = <<>> /\ events' = <<>> /\ stdin' = <<>> /\ ~driver'.active
           /\ cli'.alive /\ ~cli'.running /\ ~cli'.tasks
<1> DEFINE rest == SubSeq(events, n + 1, Len(events))
<1>1. ~mixed /\ ProviderQuiet(d, rest)  BY DEF Opens
<1>2. Known(d)  BY PumpKnown
<1>3. /\ rest \in Seq(Events) /\ Alike(Coming, HandledAll(d, rest, FALSE))
      /\ IF d.runtime THEN events' = rest /\ UNCHANGED <<inbox, stdin, driver, cli>> ELSE Closed
  BY <1>2, AlikeSelf, PumpParts
<1> HIDE DEF rest
<1>4. CASE d.runtime
  <2>1. /\ inbox = <<>> /\ rest = <<>> /\ stdin = <<>> /\ ~driver.active
        /\ cli.alive /\ ~cli.running /\ ~cli.tasks
    BY <1>1, <1>4 DEF ProviderQuiet
  <2>2. HandledAll(d, rest, FALSE) = d  BY <2>1, NothingComes
  <2> QED  BY <1>1, <1>3, <1>4, <2>1, <2>2
<1>5. CASE ~d.runtime
  <2>1. HandledAll(d, rest, FALSE) = d  BY <1>2, <1>3, <1>5, ComesKnown
  <2>2. Closed  BY <1>3, <1>5
  <2> QED  BY <1>1, <1>3, <2>1, <2>2 DEF Closed, NewDriver, NewCli
<1> QED  BY <1>4, <1>5

LEMMA PumpOrder ==
    ASSUME TurnsInv, TurnsInv', Ground, Ground', Order, NEW n, NEW d, PumpStep(n, d)
    PROVE  Order'
<1> SUFFICES ASSUME ~mixed' PROVE Order'  BY DEF Order
<1>1. CASE Still(d)
  <2>1. /\ mixed' = mixed /\ preparations' = preparations /\ Alike(Coming, Coming')
        /\ UNCHANGED <<inbox, stdin, driver, cli>> \/ (Closed /\ ~Coming'.runtime)
        /\ events # <<>>
    BY <1>1, PumpComing
  <2>2. preparations = {}  BY <2>1, NothingPrepared
  <2> QED  BY <2>1, <2>2, SameOrder, DeskKnownNext DEF Known, PumpStep
<1>2. ASSUME NEW m \in Messages, Opens(d, m, SubSeq(events, n + 1, Len(events))) PROVE Order'
  <2>1. /\ Alike(Coming, d) /\ inbox' = <<>> /\ events' = <<>> /\ stdin' = <<>> /\ ~driver'.active
        /\ cli'.alive /\ ~cli'.running /\ ~cli'.tasks
    BY <1>2, PumpStarts
  <2>2. UNCHANGED <<incidents, answered>>  BY DEF PumpStep
  <2> QED  BY <1>2, <2>1, <2>2, OpensOrder
<1> QED  BY <1>1, <1>2 DEF PumpStep

\* A Stop that mixes no turns has handled all that was coming.
LEMMA StopComing ==
    ASSUME TurnsInv, TurnsInv', Ground, Ground', NEW n, NEW d, StopStep(n, d), ~mixed'
    PROVE  ~mixed /\ Alike(Coming, d) /\ events' = <<>> /\ Coming' = desk'
<1> DEFINE rest == SubSeq(events, n + 1, Len(events))
<1>1. /\ n \in 0..Len(events) /\ d = HandledAll(desk, SubSeq(events, 1, n), FALSE)
      /\ (d.runtime /\ events' = rest) \/ Closed
      /\ mixed' = (mixed \/ rest # <<>>)
  BY DEF StopStep
<1>2. Known(desk) /\ events \in Seq(Events)  BY DeskKnown
<1>3. Known(d)  BY <1>1, ShownKnown
<1>4. ~mixed /\ rest = <<>>  BY <1>1
<1>5. Alike(Coming, d)
  <2>1. Alike(HandledAll(desk, SubSeq(events, 1, n), FALSE), d)  BY <1>1, <1>3, AlikeSelf
  <2>2. Alike(Coming, HandledAll(d, rest, FALSE))  BY <2>1, <1>1, <1>2, SplitAlike DEF Coming
  <2> QED  BY <2>2, <1>4, NothingComes
<1>6. events' = <<>>  BY <1>1, <1>4 DEF Closed
<1> QED  BY <1>4, <1>5, <1>6, DeskKnownNext

LEMMA StopOrder ==
    ASSUME TurnsInv, TurnsInv', Ground, Ground', Order, NEW n, NEW d, StopStep(n, d)
    PROVE  Order'
<1> SUFFICES ASSUME ~mixed' PROVE Order'  BY DEF Order
<1>1. /\ ~desk.preparing /\ Closes(d, desk', "Interrupted")
      /\ \/ inbox' = Append(inbox, [op |-> "cancel", message |-> None]) /\ UNCHANGED <<stdin, driver, cli>>
         \/ Closed
      /\ incidents \subseteq incidents' /\ UNCHANGED <<preparations, answered>>
  BY DEF StopStep
<1>2. ~mixed /\ Alike(Coming, d) /\ events' = <<>>  BY StopComing
<1>3. preparations' = {}  BY <1>1, <1>2, NothingPrepared
<1>4. "Interrupted" \in Endings \ {"Completed"} /\ inbox \in Seq(Commands)
  BY Types DEF TurnsInv, Endings
<1> QED  BY <1>1, <1>2, <1>3, <1>4, ClosesOrder

LEMMA ReapOrder == ASSUME TurnsInv, TurnsInv', Ground, Ground', Order, Reap PROVE Order'
<1>1. /\ ~Active(desk) /\ events = <<>> /\ Closed
      /\ UNCHANGED <<preparations, incidents, answered, mixed>>
  BY DEF Reap, history
<1>2. desk'.turns = desk.turns /\ desk'.status = desk.status /\ ~desk'.runtime
  <2>1. desk \in Desk  BY Types DEF TurnsInv
  <2> QED  BY <2>1 DEF Reap, Desk
<1> SUFFICES ASSUME ~mixed' PROVE Order'  BY DEF Order
<1>3. preparations = {}  BY <1>1, NothingPrepared
<1>4. Alike(Coming, desk)  BY <1>1, DeskKnown DEF Alike
<1>5. events' = <<>>  BY <1>1 DEF Closed
<1>6. Closes(desk, desk', "Failed")  BY <1>1, <1>2, ActiveIsOpen DEF Closes
<1>7. "Failed" \in Endings \ {"Completed"}  BY DEF Endings
<1> QED  BY <1>1, <1>3, <1>4, <1>5, <1>6, <1>7, ClosesOrder

\* A preparation that is there is the only one.
LEMMA OnePreparation ==
    ASSUME TurnsInv, Ground, Order, ~mixed, NEW p \in preparations
    PROVE  /\ preparations \ {p} = {} /\ desk.preparing /\ Untouched(desk) /\ Coming = desk
           /\ p.message \in Messages /\ Last(desk.turns).opener = p.message
           /\ inbox = <<>> /\ events = <<>> /\ stdin = <<>> /\ ~driver.active
           /\ cli.alive /\ ~cli.running /\ ~cli.tasks
<1>1. PreparesLast  BY DEF Order
<1>2. preparations \subseteq [message : Messages, starts : BOOLEAN]  BY Types DEF TurnsInv
<1>3. \A q \in preparations : q.message = p.message /\ q.starts = p.starts
  BY <1>1 DEF PreparesLast
<1>4. \A q \in preparations : q = p  BY <1>2, <1>3
<1>5. /\ inbox = <<>> /\ events = <<>> /\ stdin = <<>> /\ ~driver.active
      /\ cli.alive /\ ~cli.running /\ ~cli.tasks /\ Coming = desk
  BY <1>1, DeskKnown DEF PreparesLast, ProviderQuiet
<1> QED  BY <1>1, <1>2, <1>4, <1>5 DEF PreparesLast

LEMMA FailPreparationOrder ==
    ASSUME TurnsInv, TurnsInv', Ground, Ground', Order, NEW p \in preparations, FailPreparationStep(p)
    PROVE  Order'
<1> SUFFICES ASSUME ~mixed'
             PROVE  PreparesLast' /\ PromptsAhead' /\ Underway' /\ Served' /\ Settled'
  BY DEF Order
<1>1. /\ preparations' = preparations \ {p} /\ ~desk'.runtime
      /\ desk.preparing /\ desk.status = "Connecting" => desk'.turns = Unwound(desk).turns
      /\ incidents \subseteq incidents' /\ UNCHANGED <<inbox, stdin, answered, mixed>>
  BY DEF FailPreparationStep
<1>2. /\ preparations' = {} /\ desk.preparing /\ Untouched(desk) /\ Coming = desk
      /\ inbox = <<>> /\ stdin = <<>>
  BY <1>1, OnePreparation
<1>3. Coming' = desk'  BY <1>1, DeskKnownNext
<1>4. Known(desk)  BY DeskKnown
<1>5. desk'.turns = Front(desk.turns) /\ desk.turns # <<>> /\ desk.turns \in Seq(Turn)
  BY <1>1, <1>2, <1>4, UnwoundTurns DEF Untouched, Active, Known, Desk
<1>6. Settled'
  <2>1. Settled  BY <1>1 DEF Order
  <2>2. Credited(desk'.turns, answered')  BY <2>1, <1>1, <1>2, <1>5, FrontShape DEF Settled
  <2>3. ASSUME "crash" \notin incidents' PROVE Calm(desk')
    <3>1. EarlierDone(desk.turns)  BY <1>1, <1>2, <2>1, <2>3 DEF Settled, Calm
    <3>2. EarlierDone(desk'.turns) /\ ~Open(desk'.turns)  BY <3>1, <1>5, FrontShape
    <3> QED  BY <3>2, ActiveIsOpen DEF Calm
  <2> QED  BY <2>2, <2>3, <1>3 DEF Settled
<1>7. PromptsAhead'
  <2>1. inbox' = <<>> /\ stdin' = <<>>  BY <1>1, <1>2
  <2> QED  BY <2>1, PromptAlone DEF PromptsAhead
<1> QED  BY <1>1, <1>2, <1>3, <1>6, <1>7 DEF PreparesLast, Underway, Served

LEMMA FailStartOrder ==
    ASSUME TurnsInv, TurnsInv', Ground, Ground', Order, NEW p \in preparations, FailStartStep(p)
    PROVE  Order'
<1> SUFFICES ASSUME ~mixed' PROVE Order'  BY DEF Order
<1>1. /\ preparations' = preparations \ {p} /\ Closes(desk, desk', "Failed")
      /\ incidents \subseteq incidents'
      /\ UNCHANGED <<inbox, events, stdin, driver, cli, answered, mixed>>
  BY DEF FailStartStep
<1>2. preparations' = {} /\ Coming = desk /\ events = <<>>  BY <1>1, OnePreparation
<1>3. Alike(Coming, desk)  BY <1>2, DeskKnown DEF Alike
<1>4. "Failed" \in Endings \ {"Completed"}  BY DEF Endings
<1> QED  BY <1>1, <1>2, <1>3, <1>4, ClosesOrder

LEMMA DropPreparationOrder ==
    ASSUME TurnsInv, Ground, Order, NEW p \in preparations, DropPreparationStep(p) PROVE Order'
<1> SUFFICES ASSUME ~mixed' PROVE FALSE  BY DEF Order
<1>1. ~mixed /\ (~desk.preparing \/ ~Untouched(desk))  BY DEF DropPreparationStep
<1> QED  BY <1>1, OnePreparation

\* The echo of the prompt of a turn that runs changes nothing.
LEMMA EchoShape ==
    ASSUME NEW d, Known(d), d.runtime, Active(d), NEW m \in Messages, Last(d.turns).opener = m
    PROVE  Alike(d, Handled(d, Echo(m), FALSE))
<1> DEFINE x == Echo(m)
           h == Handled(d, x, FALSE)
<1>1. /\ d \in Desk /\ Sound(d.turns) /\ x \in Events /\ x.kind = "submitted"
      /\ m # None /\ d.runtime = TRUE
  BY CommonEvents, ConstantsAssumption DEF Known, Echo, Desk
<1> HIDE DEF x
<1>2. h.turns = d.turns /\ h.status = d.status /\ h.runtime = d.runtime
  BY <1>1, HandledEffect, ActiveIsOpen DEF TurnsThen, StatusThen
<1>3. Known(h)  BY <1>1, HandledKnown
<1> QED  BY <1>2, <1>3 DEF Alike, x

\* A prompt goes out for the turn that waits for it, which its echo finds.
LEMMA SendPromptComing ==
    ASSUME TurnsInv, TurnsInv', Ground, Ground', Order, ~mixed', NEW p \in preparations,
           SendPromptStep(p)
    PROVE  LET m == p.message
           IN /\ preparations' = {} /\ m \in Messages /\ Last(desk.turns).opener = m
              /\ Coming = desk /\ Coming'.turns = desk.turns /\ Coming'.status = desk.status
              /\ inbox' = <<Prompt(m)>> /\ events' = <<Echo(m)>> /\ stdin' = <<>>
              /\ ~driver'.active /\ ~cli'.running /\ ~cli'.tasks
<1> DEFINE m == p.message
           c == Prompt(m)
           x == Echo(m)
<1>1. /\ preparations' = preparations \ {p} /\ desk'.runtime /\ desk'.turns = desk.turns
      /\ desk'.status = desk.status
      /\ \/ /\ inbox' = <<c>> /\ events' = <<x>> /\ stdin' = <<>>
            /\ driver' = NewDriver /\ cli' = NewCli
         \/ /\ inbox' = Append(inbox, c) /\ events' = Append(events, x)
            /\ UNCHANGED <<driver, stdin, cli>>
      /\ UNCHANGED <<answered, mixed, incidents>>
  BY DEF SendPromptStep
<1>2. /\ preparations' = {} /\ Untouched(desk) /\ Coming = desk
      /\ m \in Messages /\ Last(desk.turns).opener = m
      /\ inbox = <<>> /\ events = <<>> /\ stdin = <<>> /\ ~driver.active
      /\ ~cli.running /\ ~cli.tasks
  BY <1>1, OnePreparation
<1>3. /\ inbox' = <<c>> /\ events' = <<x>> /\ stdin' = <<>> /\ ~driver'.active
      /\ ~cli'.running /\ ~cli'.tasks
  BY <1>1, <1>2, PromptAlone DEF NewDriver, NewCli
<1>4. x \in Events  BY <1>2, CommonEvents
<1>5. Alike(desk', Handled(desk', x, FALSE))
  <2>1. Active(desk')  BY <1>1, <1>2 DEF Untouched, Active
  <2> QED  BY <1>1, <1>2, <2>1, EchoShape, DeskKnownNext
<1>6. Alike(desk', Coming')
  <2>1. Append(<<>>, x) = <<x>>  BY PromptAlone
  <2>2. HandledAll(desk', <<>>, FALSE) = desk'  BY NothingComes
  <2>3. Known(desk') /\ <<>> \in Seq(Events)  BY DeskKnownNext
  <2>4. Alike(HandledAll(desk', Append(<<>>, x), FALSE), Handled(desk', x, FALSE))
    BY <1>4, <2>2, <2>3, OneMoreComes
  <2>5. Alike(Coming', Handled(desk', x, FALSE))  BY <1>3, <2>1, <2>4 DEF Coming
  <2> QED  BY <1>5, <2>5 DEF Alike
<1> HIDE DEF c, x
<1>7. Coming'.turns = desk.turns /\ Coming'.status = desk.status  BY <1>1, <1>6 DEF Alike
<1> QED  BY <1>2, <1>3, <1>7 DEF c, x

LEMMA SendPromptOrder ==
    ASSUME TurnsInv, TurnsInv', Ground, Ground', Order, NEW p \in preparations, SendPromptStep(p)
    PROVE  Order'
<1> SUFFICES ASSUME ~mixed'
             PROVE  PreparesLast' /\ PromptsAhead' /\ Underway' /\ Served' /\ Settled'
  BY DEF Order
<1> DEFINE m == p.message
           c == Prompt(m)
<1>1. /\ preparations' = {} /\ Last(desk.turns).opener = m
      /\ Coming = desk /\ Coming'.turns = desk.turns /\ Coming'.status = desk.status
      /\ inbox' = <<c>> /\ stdin' = <<>> /\ ~driver'.active /\ ~cli'.running /\ ~cli'.tasks
  BY SendPromptComing
<1>2. UNCHANGED <<answered, mixed, incidents>>  BY DEF SendPromptStep
<1>3. c.op = "prompt" /\ c.message = m  BY DEF Prompt
<1> HIDE DEF c, m
<1>4. PromptsAhead'  BY <1>1, <1>3, PromptAlone DEF PromptsAhead
<1>5. Underway' /\ Served'
  <2>1. HasPrompt(inbox')  BY <1>1, <1>3, PromptAlone
  <2> QED  BY <2>1, <1>1 DEF Underway, Served
<1>6. Settled'
  <2>1. Settled  BY <1>2 DEF Order
  <2>2. Calm(desk) => Calm(Coming')  BY <1>1 DEF Calm, Active, Busy
  <2> QED  BY <2>1, <2>2, <1>1, <1>2 DEF Settled
<1> QED  BY <1>1, <1>4, <1>5, <1>6 DEF PreparesLast

\* What the channels are once the writer has taken a command.
LEMMA WritePrompts ==
    ASSUME TurnsInv, Ground, Order, ~mixed, NEW c, WriteStep(c)
    PROVE  /\ preparations = {} /\ PromptFirst(inbox') /\ ~HasPrompt(inbox')
           /\ PromptFirst(stdin') /\ (HasPrompt(stdin') => ~cli'.running /\ ~cli'.tasks)
           /\ HasPrompt(inbox) <=> c.op = "prompt"
           /\ c.op = "prompt" => ~driver.active /\ (Active(Coming) => Last(Coming.turns).opener = c.message)
           /\ c.op = "prompt" /\ stdin' # stdin => HasPrompt(stdin') /\ Head(stdin') = c
           /\ c.op # "prompt" /\ HasPrompt(stdin) => HasPrompt(stdin') /\ Head(stdin') = Head(stdin)
<1>1. /\ c \in Commands /\ inbox # <<>> /\ c = Head(inbox) /\ inbox' = Tail(inbox)
      /\ (stdin' = stdin \/ stdin' = Append(stdin, c)) /\ UNCHANGED cli
  BY DEF WriteStep, WriterAlone
<1>2. inbox \in Seq(Commands) /\ stdin \in Seq(Commands)  BY Types DEF TurnsInv
<1>3. PromptsAhead  BY DEF Order
<1>4. PromptFirst(inbox') /\ ~HasPrompt(inbox')  BY <1>1, <1>2, <1>3, PromptMarks DEF PromptsAhead
<1>5. HasPrompt(inbox) <=> c.op = "prompt"  BY <1>1 DEF HasPrompt
<1>6. preparations = {}  BY <1>1, NothingPrepared
<1>7. c.op = "prompt" => /\ stdin = <<>> /\ ~driver.active /\ ~cli.running /\ ~cli.tasks
                         /\ Active(Coming) => Last(Coming.turns).opener = c.message
  BY <1>1, <1>3, <1>5 DEF PromptsAhead
<1>8. CASE stdin' = stdin  BY <1>1, <1>3, <1>4, <1>5, <1>6, <1>7, <1>8 DEF PromptsAhead
<1>9. CASE stdin' = Append(stdin, c) /\ c.op = "prompt"
  <2>1. stdin' = <<c>>  BY <1>7, <1>9, PromptAlone
  <2>2. PromptFirst(stdin') /\ HasPrompt(stdin') /\ Head(stdin') = c  BY <1>9, <2>1, PromptAlone
  <2> QED  BY <1>1, <1>4, <1>5, <1>6, <1>7, <1>9, <2>2
<1>10. CASE stdin' = Append(stdin, c) /\ c.op # "prompt"
  <2>1. /\ PromptFirst(stdin') /\ (HasPrompt(stdin') <=> HasPrompt(stdin))
        /\ HasPrompt(stdin) => Head(stdin') = Head(stdin)
    BY <1>1, <1>2, <1>3, <1>10, PromptMarks DEF PromptsAhead
  <2> QED  BY <1>1, <1>3, <1>4, <1>5, <1>6, <1>10, <2>1 DEF PromptsAhead
<1> QED  BY <1>1, <1>8, <1>9, <1>10

\* What is said of a turn whose prompt did not reach the process.
LEMMA BrokenShape ==
    ASSUME NEW d, Known(d), d.runtime, NEW A, Credited(d.turns, A)
    PROVE  LET h == Handled(Handled(d, Event("error"), FALSE), Event("failed"), FALSE)
           IN /\ h.runtime /\ ~Active(h) /\ Credited(h.turns, A)
              /\ EarlierDone(d.turns) => EarlierDone(h.turns)
<1> DEFINE g == Handled(d, Event("error"), FALSE)
           h == Handled(g, Event("failed"), FALSE)
<1>1. Known(g)  BY CommonEvents, HandledKnown
<1>2. g.runtime /\ g.turns = d.turns  BY ErrorShape
<1> HIDE DEF g
<1>3. h.runtime /\ Closes(g, h, "Failed")  BY <1>1, <1>2, FailedShape
<1> HIDE DEF h
<1>4. /\ ~Active(h) /\ (EarlierDone(g.turns) => EarlierDone(h.turns))
      /\ Credited(g.turns, A) => Credited(h.turns, A)
  BY <1>1, <1>3, ClosesShape DEF Endings
<1> QED  BY <1>2, <1>3, <1>4 DEF g, h

\* A runtime that is lost hears nothing.
LEMMA DeafShape ==
    ASSUME NEW d, Known(d), ~d.runtime, NEW x \in Events
    PROVE  Handled(d, x, FALSE) = d
BY HandledKnown

\* What comes leaves the turns of a runtime that is lost alone.
LEMMA DeafSettled ==
    ASSUME TurnsInv, Ground, desk' = desk, ~Coming.runtime, Settled,
           answered \subseteq answered', incidents \subseteq incidents',
           NEW x \in Events, NEW y \in Events, NEW z \in Events,
           Says1(x) \/ Says2(x, y) \/ Says3(x, y, z) \/ events' = events
    PROVE  Underway' /\ Served' /\ Settled' /\ Coming'.turns = Coming.turns
<1>1. Known(Coming)  BY DeskKnown
<1>2. /\ Handled(Coming, x, FALSE) = Coming /\ Handled(Coming, y, FALSE) = Coming
      /\ Handled(Coming, z, FALSE) = Coming
  BY <1>1, DeafShape
<1>3. Alike(Coming, Coming')
  <2>1. events' = events => Alike(Coming, Coming')  BY DeskKnown, AlikeSelf, ComingSame
  <2> QED  BY <1>2, <2>1, ComingSays
<1>4. /\ ~Coming'.runtime /\ Coming'.turns = Coming.turns /\ (Calm(Coming) => Calm(Coming'))
  BY <1>3, AlikeShape
<1>5. Credited(Coming'.turns, answered')  BY <1>4 DEF Settled, Credited
<1> QED  BY <1>4, <1>5 DEF Underway, Served, Settled

LEMMA CrashKnown == ASSUME Ground, ~cli.alive PROVE "crash" \in incidents
BY DEF Ground

LEMMA WriteOrder ==
    ASSUME TurnsInv, TurnsInv', Ground, Ground', Order, NEW c, WriteStep(c) PROVE Order'
<1> SUFFICES ASSUME ~mixed'
             PROVE  PreparesLast' /\ PromptsAhead' /\ Underway' /\ Served' /\ Settled'
  BY DEF Order
<1>1. c \in Commands /\ UNCHANGED <<desk, preparations, cli, incidents, answered, mixed>>
  BY DEF WriteStep, WriterAlone
<1>2. Underway /\ Served /\ Settled /\ ~mixed  BY <1>1 DEF Order
<1>3. /\ preparations = {} /\ PromptFirst(inbox') /\ ~HasPrompt(inbox')
      /\ PromptFirst(stdin') /\ (HasPrompt(stdin') => ~cli'.running /\ ~cli'.tasks)
      /\ HasPrompt(inbox) <=> c.op = "prompt"
      /\ c.op = "prompt" => ~driver.active /\ (Active(Coming) => Last(Coming.turns).opener = c.message)
      /\ c.op = "prompt" /\ stdin' # stdin => HasPrompt(stdin') /\ Head(stdin') = c
      /\ c.op # "prompt" /\ HasPrompt(stdin) => HasPrompt(stdin') /\ Head(stdin') = Head(stdin)
  BY <1>1, WritePrompts
<1>4. PreparesLast' /\ PromptsAhead'  BY <1>1, <1>3 DEF PreparesLast, PromptsAhead
<1> DEFINE S == Event("started")
           E == Event("error")
           F == Event("failed")
           A == Accept(c.message)
           R == Refuse(c.message)
<1>5. S \in Events /\ E \in Events /\ F \in Events  BY CommonEvents
<1>6. c.op # "cancel" => c.message \in Messages /\ A \in Events /\ R \in Events
  BY <1>1, CommonEvents DEF Commands
<1>7. /\ Known(Coming) /\ Credited(Coming.turns, answered)
      /\ "crash" \notin incidents => Calm(Coming) /\ cli.alive
  BY <1>2, DeskKnown, CrashKnown DEF Settled
<1>8. \/ /\ c.op = "prompt" /\ cli.alive /\ Says1(S) /\ stdin' = Append(stdin, c) /\ driver'.active
      \/ c.op = "prompt" /\ ~cli.alive /\ Says3(S, E, F)
      \/ /\ c.op = "steer" /\ driver.active /\ cli.alive /\ Says1(A) /\ driver'.active
      \/ c.op = "steer" /\ driver.active /\ ~cli.alive /\ Says3(R, E, F)
      \/ c.op = "steer" /\ ~driver.active /\ Says1(R) /\ ~driver'.active
      \/ c.op = "cancel" /\ cli.alive /\ events' = events /\ driver'.active = driver.active
      \/ c.op = "cancel" /\ driver.active /\ ~cli.alive /\ Says2(E, F)
      \/ c.op = "cancel" /\ ~driver.active /\ ~cli.alive /\ Says1(E)
  BY DEF WriteStep
<1>9. CASE ~Coming.runtime
  <2>1. \E x, y, z \in Events : Says1(x) \/ Says2(x, y) \/ Says3(x, y, z) \/ events' = events
    <3> HIDE DEF S, E, F, A, R
    <3> QED  BY <1>5, <1>6, <1>8
  <2> QED  BY <1>1, <1>2, <1>4, <1>9, <2>1, DeafSettled
<1> SUFFICES ASSUME Coming.runtime PROVE Underway' /\ Served' /\ Settled'
  BY <1>4, <1>9
\* The pieces of what is left, about the desk that comes.
<1>10. ASSUME Credited(Coming'.turns, answered), "crash" \notin incidents => Calm(Coming')
       PROVE  Settled'
  BY <1>10, <1>1 DEF Settled
<1>11. ASSUME NEW h, Alike(h, Coming'), ~Active(h), Credited(h.turns, answered), ~cli.alive
       PROVE  Underway' /\ Served' /\ Settled'
  <2>1. ~Active(Coming') /\ Coming'.turns = h.turns  BY <1>11, AlikeShape
  <2> QED  BY <1>1, <1>7, <1>10, <1>11, <2>1 DEF Underway, Served
<1>12. CASE c.op = "prompt" /\ cli.alive /\ Says1(S) /\ stdin' = Append(stdin, c) /\ driver'.active
  <2> DEFINE h == Handled(Coming, S, FALSE)
  <2>1. /\ Active(h) /\ (EarlierDone(Coming.turns) => Calm(h)) /\ Credited(h.turns, answered)
        /\ Last(h.turns).opener = IF Active(Coming) THEN Last(Coming.turns).opener ELSE None
    BY <1>7, StartedShape
  <2>2. Alike(h, Coming')  BY <1>1, <1>5, <1>12, ComingSays
  <2> HIDE DEF h
  <2>3. Coming'.turns = h.turns /\ (Calm(h) => Calm(Coming'))  BY <2>2, AlikeShape
  <2>4. HasPrompt(stdin') /\ Head(stdin') = c
    <3>1. stdin' # stdin
      <4>1. stdin \in Seq(Commands)  BY Types DEF TurnsInv
      <4>2. Len(stdin') = Len(stdin) + 1 /\ Len(stdin) \in Nat
        BY <1>1, <1>12, <4>1, AppendProperties, LenProperties
      <4> QED  BY <4>2
    <3> QED  BY <1>3, <1>12, <3>1
  <2>5. Served'  BY <1>3, <1>12, <2>1, <2>3, <2>4 DEF Served, Serves
  <2> QED  BY <1>7, <1>10, <1>12, <2>1, <2>3, <2>5 DEF Underway, Calm
<1>13. CASE c.op = "prompt" /\ ~cli.alive /\ Says3(S, E, F)
  <2> DEFINE g == Handled(Coming, S, FALSE)
             h == Handled(Handled(g, E, FALSE), F, FALSE)
  <2>1. g.runtime /\ Credited(g.turns, answered) /\ Known(g)
    BY <1>5, <1>7, StartedShape, HandledKnown
  <2>2. Alike(h, Coming')  BY <1>1, <1>5, <1>13, ComingSays
  <2> HIDE DEF g
  <2>3. ~Active(h) /\ Credited(h.turns, answered)  BY <2>1, BrokenShape
  <2> QED  BY <1>11, <1>13, <2>2, <2>3
<1>14. CASE c.op = "steer" /\ driver.active /\ cli.alive /\ Says1(A) /\ driver'.active
  <2> DEFINE h == Handled(Coming, A, FALSE)
  <2>1. /\ (Active(h) <=> Active(Coming)) /\ (Calm(Coming) => Calm(h)) /\ Credited(h.turns, answered)
        /\ Active(Coming) => Last(h.turns).opener = Last(Coming.turns).opener
    BY <1>6, <1>7, <1>14, AcceptedShape
  <2>2. Alike(h, Coming')  BY <1>1, <1>6, <1>14, ComingSays
  <2> HIDE DEF h
  <2>3. /\ Coming'.turns = h.turns /\ (Calm(h) => Calm(Coming'))
        /\ Active(Coming') <=> Active(h)
    BY <2>2, AlikeShape
  <2>4. Served'  BY <1>1, <1>2, <1>3, <1>14, <2>1, <2>3 DEF Served, Serves
  <2> QED  BY <1>7, <1>10, <1>14, <2>1, <2>3, <2>4 DEF Underway
<1>15. CASE c.op = "steer" /\ driver.active /\ ~cli.alive /\ Says3(R, E, F)
  <2> DEFINE g == Handled(Coming, R, FALSE)
             h == Handled(Handled(g, E, FALSE), F, FALSE)
  <2>1. g.runtime /\ Credited(g.turns, answered) /\ Known(g)
    <3>1. g.runtime /\ g.turns = Coming.turns  BY <1>6, <1>7, <1>15, RefusedShape
    <3>2. Known(g)  BY <1>6, <1>7, <1>15, HandledKnown
    <3> QED  BY <3>1, <3>2, <1>7
  <2>2. Alike(h, Coming')  BY <1>1, <1>5, <1>6, <1>15, ComingSays
  <2> HIDE DEF g
  <2>3. ~Active(h) /\ Credited(h.turns, answered)  BY <2>1, BrokenShape
  <2> QED  BY <1>11, <1>15, <2>2, <2>3
<1>16. CASE c.op = "steer" /\ ~driver.active /\ Says1(R) /\ ~driver'.active
  <2> DEFINE h == Handled(Coming, R, FALSE)
  <2>1. h.turns = Coming.turns /\ h.status = Coming.status  BY <1>6, <1>7, <1>16, RefusedShape
  <2>2. Alike(h, Coming')  BY <1>1, <1>6, <1>16, ComingSays
  <2> HIDE DEF h
  <2>3. Coming'.turns = Coming.turns /\ Coming'.status = Coming.status  BY <2>1, <2>2, AlikeShape
  <2>4. ~Active(Coming)  BY <1>2, <1>3, <1>16 DEF Underway
  <2>5. ~Active(Coming') /\ (Calm(Coming) => Calm(Coming'))  BY <2>3, <2>4 DEF Active, Calm, Busy
  <2> QED  BY <1>7, <1>10, <2>3, <2>5 DEF Underway, Served
<1>17. CASE c.op = "cancel" /\ cli.alive /\ events' = events /\ driver'.active = driver.active
  <2>1. Coming' = Coming  BY <1>1, <1>17 DEF Coming
  <2>2. Underway'  BY <1>2, <1>3, <1>17, <2>1 DEF Underway
  <2>3. Served'  BY <1>1, <1>2, <1>3, <1>17, <2>1 DEF Served, Serves
  <2> QED  BY <1>7, <1>10, <2>1, <2>2, <2>3
<1>18. CASE c.op = "cancel" /\ driver.active /\ ~cli.alive /\ Says2(E, F)
  <2> DEFINE h == Handled(Handled(Coming, E, FALSE), F, FALSE)
  <2>1. Alike(h, Coming')  BY <1>1, <1>5, <1>18, ComingSays
  <2>2. ~Active(h) /\ Credited(h.turns, answered)  BY <1>7, BrokenShape
  <2> QED  BY <1>11, <1>18, <2>1, <2>2
<1>19. CASE c.op = "cancel" /\ ~driver.active /\ ~cli.alive /\ Says1(E)
  <2> DEFINE h == Handled(Coming, E, FALSE)
  <2>1. Alike(h, Coming')  BY <1>1, <1>5, <1>19, ComingSays
  <2>2. h.turns = Coming.turns  BY <1>7, ErrorShape
  <2>3. ~Active(Coming)  BY <1>2, <1>3, <1>19 DEF Underway
  <2> HIDE DEF h
  <2>4. ~Active(h) /\ Credited(h.turns, answered)  BY <1>7, <2>2, <2>3 DEF Active
  <2> QED  BY <1>11, <1>19, <2>1, <2>4
<1> QED  BY <1>8, <1>12, <1>13, <1>14, <1>15, <1>16, <1>17, <1>18, <1>19

LEMMA ReadOrder == ASSUME TurnsInv, Ground, Order, NEW c, ReadStep(c) PROVE Order'
<1> SUFFICES ASSUME ~mixed'
             PROVE  PreparesLast' /\ PromptsAhead' /\ Underway' /\ Served' /\ Settled'
  BY DEF Order
<1>1. /\ stdin # <<>> /\ c = Head(stdin) /\ stdin' = Tail(stdin)
      /\ cli.alive /\ cli'.tasks = cli.tasks
      /\ IF c.op = "cancel" THEN cli'.running = cli.running /\ cli'.serving = cli.serving
         ELSE cli'.running /\ cli'.serving = cli.serving \cup {c.message}
      /\ UNCHANGED <<desk, preparations, inbox, events, driver, incidents, answered, mixed>>
  BY DEF ReadStep
<1>2. PromptsAhead /\ Underway /\ Served /\ Settled  BY <1>1 DEF Order
<1>3. Coming' = Coming /\ preparations = {}  BY <1>1, NothingPrepared DEF Coming
<1>4. ~HasPrompt(inbox)  BY <1>1, <1>2 DEF PromptsAhead
<1>5. stdin \in Seq(Commands)  BY Types DEF TurnsInv
<1>6. PromptFirst(stdin') /\ ~HasPrompt(stdin')  BY <1>1, <1>2, <1>5, PromptMarks DEF PromptsAhead
<1>7. PreparesLast' /\ PromptsAhead'  BY <1>1, <1>2, <1>3, <1>4, <1>6 DEF PreparesLast, PromptsAhead
<1>8. Underway' /\ Settled'  BY <1>1, <1>2, <1>3 DEF Underway, Settled
<1>9. Served'  BY <1>1, <1>2, <1>3 DEF Served, Serves, HasPrompt
<1> QED  BY <1>7, <1>8, <1>9

LEMMA AtRest ==
    ASSUME TurnsInv, Ground, Order, ~mixed, cli.running \/ cli.tasks
    PROVE  preparations = {} /\ ~HasPrompt(inbox) /\ ~HasPrompt(stdin)
<1>1. PromptsAhead  BY DEF Order
<1> QED  BY <1>1, NothingPrepared DEF PromptsAhead

LEMMA ProviderOrder ==
    ASSUME TurnsInv, TurnsInv', Ground, Ground', Order, ProviderStep PROVE Order'
<1> SUFFICES ASSUME ~mixed'
             PROVE  PreparesLast' /\ PromptsAhead' /\ Underway' /\ Served' /\ Settled'
  BY DEF Order
<1>1. /\ desk.runtime /\ UNCHANGED <<desk, preparations, inbox>>
      /\ SpeakStep \/ DetachStep \/ WakeStep \/ ExitStep \/ ReplyStep \/ CrashStep
      /\ CrashStep \/ mixed' = mixed
      /\ ReplyStep \/ answered' = answered
  BY DEF ProviderStep
<1>2. ~mixed  BY <1>1 DEF CrashStep
<1>3. PromptsAhead /\ Underway /\ Served /\ Settled  BY <1>2 DEF Order
<1>4. /\ Known(Coming) /\ Credited(Coming.turns, answered)
      /\ "crash" \notin incidents => Calm(Coming)
  BY <1>3, DeskKnown DEF Settled
<1> DEFINE S == Event("started")
           E == Event("error")
           F == Event("failed")
           G == Event("finished")
           P == Event("parked")
           X == Event("exited")
<1>5. S \in Events /\ E \in Events /\ F \in Events /\ G \in Events /\ P \in Events /\ X \in Events
  BY CommonEvents
\* The process ends, or has.
<1>6. CASE CrashStep
  <2>1. /\ UNCHANGED <<stdin, events, driver>> /\ "crash" \in incidents' /\ ~cli'.alive
        /\ ~cli'.running /\ ~cli'.tasks /\ ~desk.preparing
    BY <1>6 DEF CrashStep
  <2>2. answered \subseteq answered'  BY <1>1, <1>6 DEF CrashStep, ReplyStep
  <2>3. preparations = {}  BY <1>2, <2>1, NothingPrepared
  <2>4. Coming' = Coming  BY <1>1, <2>1 DEF Coming
  <2>5. PreparesLast' /\ PromptsAhead'  BY <1>1, <1>3, <2>1, <2>3, <2>4 DEF PreparesLast, PromptsAhead
  <2>6. Underway' /\ Served'  BY <1>1, <1>3, <2>1, <2>3, <2>4 DEF Underway, Served
  <2>7. Settled'  BY <1>4, <2>1, <2>2, <2>4 DEF Settled, Credited
  <2> QED  BY <2>5, <2>6, <2>7
<1>7. CASE ExitStep
  <2>1. /\ UNCHANGED <<stdin, driver, incidents>> /\ ~cli.alive /\ Says2(E, X)
        /\ cli'.running = cli.running /\ cli'.tasks = cli.tasks
    BY <1>7 DEF ExitStep
  <2>2. answered \subseteq answered'  BY <1>1, <1>7 DEF ExitStep, ReplyStep
  <2>3. preparations = {} /\ "crash" \in incidents  BY <1>2, <2>1, NothingPrepared, CrashKnown
  <2>4. /\ ~Coming'.runtime /\ Credited(Coming'.turns, answered')
        /\ Active(Coming') => Coming'.turns = Coming.turns
    <3>1. CASE ~Coming.runtime
      <4>1. Underway' /\ Served' /\ Settled' /\ Coming'.turns = Coming.turns
        BY <1>1, <1>3, <1>5, <2>1, <2>2, <3>1, DeafSettled
      <4>2. Handled(Coming, E, FALSE) = Coming /\ Handled(Coming, X, FALSE) = Coming
        BY <1>4, <1>5, <3>1, DeafShape
      <4>3. Alike(Coming, Coming')  BY <1>1, <1>5, <2>1, <4>2, ComingSays
      <4> QED  BY <3>1, <4>1, <4>3 DEF Alike, Settled
    <3>2. CASE Coming.runtime
      <4> DEFINE g == Handled(Coming, E, FALSE)
                 h == Handled(g, X, FALSE)
      <4>1. g.runtime /\ g.turns = Coming.turns /\ Known(g)
        BY <1>4, <1>5, <3>2, ErrorShape, HandledKnown
      <4>2. Alike(h, Coming')  BY <1>1, <1>5, <2>1, ComingSays
      <4> HIDE DEF g
      <4>3. ~h.runtime /\ (h.turns = g.turns \/ Closes(g, h, "Failed"))  BY <4>1, ExitedShape
      <4> HIDE DEF h
      <4>4. Closes(g, h, "Failed") => ~Active(h) /\ Credited(h.turns, answered)
        BY <1>4, <4>1, ClosesShape DEF Endings
      <4>5. Coming'.turns = h.turns /\ ~Coming'.runtime /\ (Active(Coming') <=> Active(h))
        BY <4>2, <4>3, AlikeShape
      <4>6. Credited(h.turns, answered) /\ (Active(h) => h.turns = Coming.turns)
        BY <1>4, <4>1, <4>3, <4>4
      <4> QED  BY <2>2, <4>5, <4>6 DEF Credited
    <3> QED  BY <3>1, <3>2
  <2>5. PreparesLast' /\ Underway' /\ Served' /\ Settled'
    BY <1>1, <2>1, <2>3, <2>4 DEF PreparesLast, Underway, Served, Settled
  <2>6. PromptsAhead'
    <3>1. Active(Coming') => Active(Coming)  BY <2>4 DEF Active
    <3> QED  BY <1>1, <1>3, <2>1, <2>4, <3>1 DEF PromptsAhead
  <2> QED  BY <2>5, <2>6
\* The process is there and at work.
<1> SUFFICES ASSUME SpeakStep \/ DetachStep \/ WakeStep \/ ReplyStep
             PROVE  PreparesLast' /\ PromptsAhead' /\ Underway' /\ Served' /\ Settled'
  BY <1>1, <1>6, <1>7
<1>8. /\ cli.alive /\ (cli.running \/ cli.tasks) /\ stdin' = stdin /\ cli'.alive
      /\ "crash" \notin incidents' => "crash" \notin incidents
      /\ answered \subseteq answered'
  BY <1>1 DEF SpeakStep, DetachStep, WakeStep, ReplyStep
<1>9. preparations = {} /\ ~HasPrompt(inbox) /\ ~HasPrompt(stdin)  BY <1>2, <1>8, AtRest
<1>10. PreparesLast' /\ PromptsAhead'  BY <1>1, <1>3, <1>8, <1>9 DEF PreparesLast, PromptsAhead
<1>11. Coming.runtime /\ Active(Coming) => driver.active  BY <1>3, <1>9 DEF Underway
<1>12. Coming.runtime /\ Active(Coming) /\ Last(Coming.turns).opener # None
          => Last(Coming.turns).opener \in cli.serving \cup answered
  BY <1>3, <1>8, <1>9, <1>11 DEF Served, Serves
<1>13. Credited(Coming.turns, answered')  BY <1>4, <1>8 DEF Credited
<1>14. CASE ~Coming.runtime
  <2>1. incidents \subseteq incidents'  BY DEF SpeakStep, DetachStep, WakeStep, ReplyStep
  <2>2. Says1(S) \/ Says1(P) \/ Says1(G) \/ Says1(E) \/ Says1(F) \/ Says2(E, F) \/ events' = events
    BY DEF SpeakStep, DetachStep, WakeStep, ReplyStep
  <2>3. \E x, y, z \in Events : Says1(x) \/ Says2(x, y) \/ Says3(x, y, z) \/ events' = events
    <3> HIDE DEF S, E, F, G, P, X
    <3> QED  BY <1>5, <2>2
  <2> QED  BY <1>1, <1>3, <1>8, <1>10, <1>14, <2>1, <2>3, DeafSettled
<1> SUFFICES ASSUME Coming.runtime PROVE Underway' /\ Served' /\ Settled'
  BY <1>10, <1>14
<1>15. ASSUME events' = events, driver' = driver,
              cli.serving \cup answered \subseteq cli'.serving \cup answered'
       PROVE  Underway' /\ Served' /\ Settled'
  <2>1. Coming' = Coming  BY <1>1, <1>15 DEF Coming
  <2> QED  BY <1>4, <1>8, <1>11, <1>12, <1>13, <1>15, <2>1 DEF Underway, Served, Serves, Settled
<1>16. CASE SpeakStep
  <2>1. cli'.serving = cli.serving  BY <1>16 DEF SpeakStep
  <2>2. CASE Says1(S) /\ driver'.active
    <3> DEFINE h == Handled(Coming, S, FALSE)
    <3>1. /\ Active(h) /\ (EarlierDone(Coming.turns) => Calm(h)) /\ Credited(h.turns, answered')
          /\ Last(h.turns).opener = IF Active(Coming) THEN Last(Coming.turns).opener ELSE None
      BY <1>4, <1>13, StartedShape
    <3>2. Alike(h, Coming')  BY <1>1, <1>5, <2>2, ComingSays
    <3> HIDE DEF h
    <3>3. Coming'.turns = h.turns /\ (Calm(h) => Calm(Coming'))  BY <3>2, AlikeShape
    <3>4. Underway'  BY <2>2 DEF Underway
    <3>5. Served'  BY <1>8, <1>12, <2>1, <3>1, <3>3 DEF Served, Serves
    <3>6. Settled'  BY <1>4, <1>8, <3>1, <3>3 DEF Settled, Calm
    <3> QED  BY <3>4, <3>5, <3>6
  <2>3. CASE events' = events /\ driver' = driver  BY <1>8, <1>15, <2>1, <2>3
  <2> QED  BY <1>16, <2>2, <2>3 DEF SpeakStep
<1>17. CASE DetachStep \/ WakeStep  BY <1>8, <1>15, <1>17 DEF DetachStep, WakeStep
<1>18. CASE ReplyStep
  <2>1. \/ answered' = answered \cup cli.serving /\ driver.active /\ driver'.active /\ Says1(P)
        \/ answered' = answered \cup cli.serving /\ driver.active /\ ~driver'.active /\ Says1(G)
        \/ driver' = driver /\ ~driver.active /\ events' = events
        \/ driver' = driver /\ ~driver.active /\ Says1(E)
        \/ ~driver'.active /\ Says1(F)
        \/ ~driver'.active /\ Says2(E, F)
    BY <1>18 DEF ReplyStep
  \* The turn is over.
  <2>2. ASSUME NEW h, Alike(h, Coming'), ~Active(h), Credited(h.turns, answered'),
               EarlierDone(Coming.turns) => EarlierDone(h.turns)
        PROVE  Underway' /\ Served' /\ Settled'
    <3>1. ~Active(Coming') /\ Coming'.turns = h.turns  BY <2>2, AlikeShape
    <3>2. Settled'  BY <1>4, <1>8, <2>2, <3>1 DEF Settled, Calm
    <3> QED  BY <3>1, <3>2 DEF Underway, Served
  <2>3. CASE answered' = answered \cup cli.serving /\ driver.active /\ driver'.active /\ Says1(P)
    <3> DEFINE h == Handled(Coming, P, FALSE)
    <3>1. h.turns = Coming.turns /\ (Calm(Coming) => Calm(h))  BY <1>4, ParkedShape
    <3>2. Alike(h, Coming')  BY <1>1, <1>5, <2>3, ComingSays
    <3> HIDE DEF h
    <3>3. Coming'.turns = Coming.turns /\ (Calm(Coming) => Calm(Coming'))  BY <3>1, <3>2, AlikeShape
    <3>4. Active(Coming') => Active(Coming)  BY <3>3 DEF Active
    <3>5. Underway' /\ Served'  BY <1>12, <2>3, <3>3, <3>4 DEF Underway, Served, Serves
    <3>6. Settled'  BY <1>4, <1>8, <1>13, <3>3 DEF Settled
    <3> QED  BY <3>5, <3>6
  <2>4. CASE answered' = answered \cup cli.serving /\ driver.active /\ ~driver'.active /\ Says1(G)
    <3> DEFINE h == Handled(Coming, G, FALSE)
    <3>1. /\ ~Active(h) /\ (EarlierDone(Coming.turns) => Calm(h))
          /\ Credited(Coming.turns, answered') /\ (Active(Coming) /\ Last(Coming.turns).opener # None =>
                                                       Last(Coming.turns).opener \in answered')
               => Credited(h.turns, answered')
      BY <1>4, FinishedShape
    <3>2. Alike(h, Coming')  BY <1>1, <1>5, <2>4, ComingSays
    <3> HIDE DEF h
    <3>3. Credited(h.turns, answered')  BY <1>12, <1>13, <2>4, <3>1
    <3> QED  BY <2>2, <3>1, <3>2, <3>3 DEF Calm
  <2>5. CASE driver' = driver /\ ~driver.active /\ events' = events
    <3>1. Coming' = Coming  BY <1>1, <2>5 DEF Coming
    <3>2. Alike(Coming, Coming')  BY <1>4, <3>1, AlikeSelf
    <3> QED  BY <1>11, <1>13, <2>2, <2>5, <3>2
  <2>6. CASE driver' = driver /\ ~driver.active /\ Says1(E)
    <3> DEFINE h == Handled(Coming, E, FALSE)
    <3>1. h.turns = Coming.turns  BY <1>4, ErrorShape
    <3>2. Alike(h, Coming')  BY <1>1, <1>5, <2>6, ComingSays
    <3> HIDE DEF h
    <3>3. ~Active(h)  BY <1>11, <2>6, <3>1 DEF Active
    <3> QED  BY <1>13, <2>2, <3>1, <3>2, <3>3
  <2>7. CASE ~driver'.active /\ Says1(F)
    <3> DEFINE h == Handled(Coming, F, FALSE)
    <3>1. Closes(Coming, h, "Failed")  BY <1>4, FailedShape
    <3>2. Alike(h, Coming')  BY <1>1, <1>5, <2>7, ComingSays
    <3> HIDE DEF h
    <3>3. /\ ~Active(h) /\ (EarlierDone(Coming.turns) => EarlierDone(h.turns))
          /\ Credited(h.turns, answered')
      BY <1>4, <1>13, <3>1, ClosesShape DEF Endings
    <3> QED  BY <2>2, <3>2, <3>3
  <2>8. CASE ~driver'.active /\ Says2(E, F)
    <3> DEFINE h == Handled(Handled(Coming, E, FALSE), F, FALSE)
    <3>1. /\ ~Active(h) /\ Credited(h.turns, answered')
          /\ EarlierDone(Coming.turns) => EarlierDone(h.turns)
      BY <1>4, <1>13, BrokenShape
    <3>2. Alike(h, Coming')  BY <1>1, <1>5, <2>8, ComingSays
    <3> QED  BY <2>2, <3>1, <3>2
  <2> QED  BY <2>1, <2>3, <2>4, <2>5, <2>6, <2>7, <2>8
<1> QED  BY <1>16, <1>17, <1>18

----------------------------------------------------------------------------
(* The one turn that a message opens                                       *)

By(m) == {t \in Turn : t.opener = m}
Steers(m) == {[op |-> "steer", message |-> m]}

\* m may yet open a turn: it can be sent, or comes back to the queue if it is
\* refused as a steer.
MayOpen(m) ==
    \/ m \in composer \/ Hits(desk.queue, {m})
    \/ Hits(inbox, Steers(m)) \/ Hits(events, Refusal(m))

\* A message has one turn at most once all has come, and if it has one it opens
\* no other.
Spent ==
    ~mixed => \A m \in Messages \ desk.misread :
                  /\ Lone(Coming.turns, By(m))
                  /\ ~(Hits(Coming.turns, By(m)) /\ MayOpen(m))

\* u has no more turns of any message than s.
NoMore(s, u) ==
    \A m \in Messages : /\ Hits(u, By(m)) => Hits(s, By(m))
                        /\ Lone(s, By(m)) => Lone(u, By(m))

\* No message may open a turn that could not before.
NoMoreMay ==
    /\ desk.misread \subseteq desk'.misread
    /\ \A m \in Messages \ desk'.misread : MayOpen(m)' => MayOpen(m)

LEMMA SpentKeeps ==
    ASSUME Spent, ~mixed' => ~mixed /\ NoMore(Coming.turns, Coming'.turns), NoMoreMay
    PROVE  Spent'
BY DEF Spent, NoMore, NoMoreMay

LEMMA PutOpeners ==
    ASSUME NEW s \in Seq(Turn), s # <<>>, NEW t \in Turn, t.opener = Last(s).opener
    PROVE  NoMore(s, Put(s, t))
<1> DEFINE u == Put(s, t)
<1>1. /\ DOMAIN u = DOMAIN s /\ Len(s) \in DOMAIN s /\ u[Len(s)] = t
      /\ \A i \in DOMAIN s : i # Len(s) => u[i] = s[i]
      /\ Last(s) = s[Len(s)] /\ Last(s) \in Turn
  BY PutTurn
<1> HIDE DEF u
<1>2. \A m \in Messages, i \in DOMAIN s : u[i] \in By(m) <=> s[i] \in By(m)
  BY <1>1 DEF By
<1> QED  BY <1>1, <1>2 DEF NoMore, Hits, Lone, u

LEMMA ClosesOpeners ==
    ASSUME NEW d \in Desk, NEW e, NEW ending \in Endings, Closes(d, e, ending)
    PROVE  NoMore(d.turns, e.turns)
<1> DEFINE s == d.turns
           t == [Last(s) EXCEPT !.state = ending]
<1>1. s \in Seq(Turn)  BY DEF Desk
<1>2. CASE Open(s)
  <2>1. s # <<>> /\ Last(s) \in Turn  BY <1>1, <1>2, LastTurn DEF Open
  <2>2. t \in Turn /\ t.opener = Last(s).opener  BY <2>1 DEF Turn
  <2>3. e.turns = Put(s, t)  BY <1>2 DEF Closes
  <2> QED  BY <1>1, <2>1, <2>2, <2>3, PutOpeners
<1>3. CASE ~Open(s)  BY <1>3 DEF Closes, NoMore
<1> QED  BY <1>2, <1>3

\* Only the echo of a prompt opens a turn for a message.
LEMMA HandledOpeners ==
    ASSUME NEW d, Known(d), NEW x \in Events, x.kind # "submitted"
    PROVE  NoMore(d.turns, Handled(d, x, FALSE).turns)
<1> DEFINE h == Handled(d, x, FALSE)
           s == d.turns
<1>1. d \in Desk /\ Sound(s) /\ s \in Seq(Turn)  BY DEF Known, Desk
<1>2. (~d.runtime => h = d) /\ (d.runtime => h.turns = TurnsThen(s, d.status, x))
  BY <1>1, HandledEffect
<1> SUFFICES NoMore(s, h.turns)  OBVIOUS
<1> HIDE DEF h
<1>3. h.turns = s => NoMore(s, h.turns)  BY DEF NoMore
<1>4. ASSUME Open(s), NEW t \in Turn, t.opener = Last(s).opener, h.turns = Put(s, t)
      PROVE  NoMore(s, h.turns)
  BY <1>1, <1>4, PutOpeners DEF Open
<1>5. Open(s) => Last(s) \in Turn  BY <1>1, LastTurn DEF Open
<1>6. ASSUME h.turns = Append(s, NewTurn(None, TRUE)) PROVE NoMore(s, h.turns)
  <2> DEFINE t == NewTurn(None, TRUE)
  <2>1. t \in Turn /\ \A m \in Messages : t \notin By(m)
    BY NewTurnStarts, ConstantsAssumption DEF By, NewTurn
  <2>2. h.turns = Append(s, t)  BY <1>6
  <2> HIDE DEF t
  <2> SUFFICES ASSUME NEW m \in Messages
               PROVE  /\ Hits(h.turns, By(m)) => Hits(s, By(m))
                      /\ Lone(s, By(m)) => Lone(h.turns, By(m))
    BY DEF NoMore
  <2>3. /\ Hits(Append(s, t), By(m)) <=> Hits(s, By(m)) \/ t \in By(m)
        /\ Lone(s, By(m)) /\ ~(t \in By(m) /\ Hits(s, By(m))) => Lone(Append(s, t), By(m))
    BY <1>1, <2>1, AppendMarks
  <2> QED  BY <2>1, <2>2, <2>3
<1>7. CASE ~d.runtime  BY <1>2, <1>3, <1>7
<1>8. CASE d.runtime
  <2>1. h.turns = TurnsThen(s, d.status, x)  BY <1>2, <1>8
  <2>2. CASE x.kind = "started"
    <3>1. CASE Open(s)
      <4> DEFINE t == [Last(s) EXCEPT !.started = TRUE]
      <4>1. t \in Turn /\ t.opener = Last(s).opener  BY <1>5, <3>1 DEF Turn
      <4>2. h.turns = Put(s, t)  BY <2>1, <2>2, <3>1 DEF TurnsThen
      <4> QED  BY <1>4, <3>1, <4>1, <4>2
    <3>2. CASE ~Open(s)  BY <1>6, <2>1, <2>2, <3>2 DEF TurnsThen
    <3> QED  BY <3>1, <3>2
  <2>3. CASE x.kind = "accepted"
    <3>1. CASE Open(s)
      <4> DEFINE t == [Last(s) EXCEPT !.folded = @ \cup {x.message}]
      <4>1. x.message \in Messages  BY <2>3 DEF Events
      <4>2. t \in Turn /\ t.opener = Last(s).opener  BY <1>5, <3>1, <4>1 DEF Turn
      <4>3. h.turns = Put(s, t)  BY <2>1, <2>3, <3>1 DEF TurnsThen
      <4> QED  BY <1>4, <3>1, <4>2, <4>3
    <3>2. CASE ~Open(s)  BY <1>3, <2>1, <2>3, <3>2 DEF TurnsThen
    <3> QED  BY <3>1, <3>2
  <2>4. CASE x.kind \in {"finished", "failed", "exited"}
    <3>1. h.turns = s \/ \E ending \in Endings : Open(s) /\ h.turns = Put(s, [Last(s) EXCEPT !.state = ending])
      BY <2>1, <2>4 DEF TurnsThen, Endings
    <3>2. ASSUME Open(s), NEW ending \in Endings, h.turns = Put(s, [Last(s) EXCEPT !.state = ending])
          PROVE  NoMore(s, h.turns)
      <4> DEFINE t == [Last(s) EXCEPT !.state = ending]
      <4>1. t \in Turn /\ t.opener = Last(s).opener  BY <1>5, <3>2 DEF Turn
      <4>2. h.turns = Put(s, t)  BY <3>2
      <4> QED  BY <1>4, <3>2, <4>1, <4>2
    <3> QED  BY <1>3, <3>1, <3>2
  <2>5. CASE x.kind \in {"parked", "rejected", "error"}  BY <1>3, <2>1, <2>5 DEF TurnsThen
  <2> QED  BY <2>2, <2>3, <2>4, <2>5 DEF Events
<1> QED  BY <1>7, <1>8

LEMMA NoMoreTrans == ASSUME NEW s, NEW t, NEW u, NoMore(s, t), NoMore(t, u) PROVE NoMore(s, u)
BY DEF NoMore

\* What the provider says brings no message a turn.
LEMMA SaysOpeners ==
    ASSUME TurnsInv, Ground, desk' = desk, NEW x \in Events, NEW y \in Events, NEW z \in Events,
           x.kind # "submitted", y.kind # "submitted", z.kind # "submitted",
           Says1(x) \/ Says2(x, y) \/ Says3(x, y, z)
    PROVE  NoMore(Coming.turns, Coming'.turns)
<1> DEFINE h == Handled(Coming, x, FALSE)
           i == Handled(h, y, FALSE)
           j == Handled(i, z, FALSE)
<1>1. /\ Says1(x) => Alike(h, Coming')
      /\ Says2(x, y) => Alike(i, Coming')
      /\ Says3(x, y, z) => Alike(j, Coming')
  BY ComingSays
<1>2. Known(Coming)  BY DeskKnown
<1>3. Known(h) /\ NoMore(Coming.turns, h.turns)  BY <1>2, HandledKnown, HandledOpeners
<1> HIDE DEF h
<1>4. Known(i) /\ NoMore(h.turns, i.turns)  BY <1>3, HandledKnown, HandledOpeners
<1> HIDE DEF i
<1>5. NoMore(i.turns, j.turns)  BY <1>4, HandledOpeners
<1> HIDE DEF j
<1>6. NoMore(Coming.turns, i.turns) /\ NoMore(Coming.turns, j.turns)
  BY <1>3, <1>4, <1>5, NoMoreTrans
<1> QED  BY <1>1, <1>3, <1>6 DEF Alike

\* A message that the events which have come put into the queue was refused.
LEMMA HandledPlaces ==
    ASSUME NEW d \in Desk, NEW es \in Seq(Events), NEW b \in BOOLEAN
    PROVE  LET h == HandledAll(d, es, b)
           IN /\ d.misread \subseteq h.misread
              /\ \A m \in Messages \ h.misread :
                    Hits(h.queue, {m}) => Hits(d.queue, {m}) \/ Hits(es, Refusal(m))
<1> DEFINE n == Len(es)
<1>1. n \in Nat /\ DOMAIN es = 1..n /\ \A k \in 1..n : es[k] \in Events  BY LenProperties, ElementOfSeq
<1>2. PICK f : Leads(f, d, es, b, n)  BY <1>1, HandledAllSteps
<1> HIDE DEF n
<1> DEFINE P(k) == /\ f[k] \in Desk /\ d.misread \subseteq f[k].misread
                   /\ \A m \in Messages \ f[k].misread :
                         Hits(f[k].queue, {m}) => Hits(d.queue, {m}) \/ Hits(es, Refusal(m))
           K == {k \in 0..n : ~P(k)}
<1>3. P(0)  BY <1>2 DEF Leads
<1>4. ASSUME NEW k \in 1..n, P(k - 1) PROVE P(k)
  <2> DEFINE c == f[k - 1]
             e == f[k]
  <2>1. e = Handled(c, es[k], b) /\ es[k] \in Events /\ c \in Desk  BY <1>1, <1>2, <1>4 DEF Leads
  <2>2. Moves(c, e, es[k])  BY <2>1, HandledMoves
  <2>3. e \in Desk /\ c.misread \subseteq e.misread
    BY <2>2 DEF Moves
  <2>4. ASSUME NEW m \in Messages \ e.misread, Hits(e.queue, {m})
        PROVE  Hits(d.queue, {m}) \/ Hits(es, Refusal(m))
    <3>1. QueuesNoMore(c, e, m) \/ es[k] \in Refusal(m)  BY <2>2 DEF Moves
    <3>2. es[k] \in Refusal(m) => Hits(es, Refusal(m))  BY <1>1 DEF Hits
    <3>3. QueuesNoMore(c, e, m) => Hits(c.queue, {m})  BY <2>4 DEF QueuesNoMore
    <3>4. m \notin c.misread  BY <2>3
    <3> QED  BY <1>4, <3>1, <3>2, <3>3, <3>4
  <2> QED  BY <1>4, <2>3, <2>4
<1> HIDE DEF P
<1>5. P(n)
  <2> SUFFICES ASSUME K # {} PROVE FALSE  BY <1>1
  <2>1. K \in SUBSET Nat  OBVIOUS
  <2>2. PICK k \in K : \A j \in K : k <= j  BY <2>1, LeastNumber
  <2>3. k # 0 /\ k \in 0..n  BY <2>2, <1>3
  <2>4. k \in 1..n /\ k - 1 \in 0..n /\ ~(k <= k - 1)  BY <2>3, <1>1
  <2>5. P(k - 1)  BY <2>2, <2>4
  <2> QED  BY <2>2, <2>4, <2>5, <1>4
<1>6. f[n] = HandledAll(d, es, b)  BY <1>2 DEF Leads
<1> QED  BY <1>5, <1>6 DEF P

LEMMA FirstHits ==
    ASSUME NEW es \in Seq(Events), NEW n \in 0..Len(es), NEW S, Hits(SubSeq(es, 1, n), S)
    PROVE  Hits(es, S)
<1> DEFINE m == Len(es)
           t == SubSeq(es, 1, n)
<1>1. m \in Nat /\ n \in Nat /\ n <= m /\ DOMAIN es = 1..m /\ \A k \in 1..n : es[k] \in Events
  BY LenProperties, ElementOfSeq
<1>2. t \in Seq(Events) /\ Len(t) = n /\ \A k \in 1..n : t[k] = es[k]  BY <1>1, SubSeqProperties
<1>3. DOMAIN t = 1..n  BY <1>2, LenProperties
<1> HIDE DEF t
<1>4. PICK k \in 1..n : t[k] \in S  BY <1>3 DEF Hits, t
<1>5. k \in DOMAIN es /\ es[k] \in S  BY <1>1, <1>2, <1>4
<1> QED  BY <1>5 DEF Hits

LEMMA ShownPlaces ==
    ASSUME TurnsInv, NEW n \in 0..Len(events), NEW b \in BOOLEAN, NEW d,
           d = HandledAll(desk, SubSeq(events, 1, n), b)
    PROVE  /\ d \in Desk /\ desk.misread \subseteq d.misread
           /\ \A m \in Messages \ d.misread : Hits(d.queue, {m}) => MayOpen(m)
<1> DEFINE s == SubSeq(events, 1, n)
<1>1. desk \in Desk /\ events \in Seq(Events) /\ Len(events) \in Nat
  BY Types, LenProperties DEF TurnsInv
<1>2. s \in Seq(Events)  BY <1>1, SubSeqProperties
<1>3. \A m : Hits(s, Refusal(m)) => Hits(events, Refusal(m))  BY <1>1, FirstHits
<1> HIDE DEF s
<1>4. d \in Desk  BY HandledAllKeeps
<1>5. /\ desk.misread \subseteq d.misread
      /\ \A m \in Messages \ d.misread :
            Hits(d.queue, {m}) => Hits(desk.queue, {m}) \/ Hits(s, Refusal(m))
  BY <1>1, <1>2, HandledPlaces DEF s
<1> QED  BY <1>3, <1>4, <1>5 DEF MayOpen

\* The turn that m opens is the only one, and no copy of m is left to open another.
LEMMA OpensSpent ==
    ASSUME TurnsInv', Ground', Spent, NEW d, Alike(Coming, d), NEW m \in Messages, NEW es,
           Opens(d, m, es), m \in Messages \ desk'.misread => MayOpen(m), NoMoreMay, events' = <<>>
    PROVE  Spent'
<1> DEFINE t == NewTurn(m, FALSE)
<1> SUFFICES ASSUME ~mixed', NEW x \in Messages \ desk'.misread
             PROVE  /\ Lone(Coming'.turns, By(x))
                    /\ ~(Hits(Coming'.turns, By(x)) /\ MayOpen(x)')
  BY DEF Spent
<1>1. ~mixed /\ preparations = {}  BY DEF Opens
<1>2. Coming.turns = d.turns /\ Coming' = desk' /\ d.turns \in Seq(Turn)
  BY DeskKnownNext DEF Alike, Known, Desk
<1>3. /\ desk'.turns = Append(d.turns, t)
      /\ preparations' = {[message |-> m, starts |-> ~d.runtime]}
  BY <1>1 DEF Opens
<1>4. t \in Turn /\ t.opener = m  BY NewTurnStarts DEF NewTurn
<1> HIDE DEF t
<1>5. /\ x \in Messages \ desk.misread /\ (MayOpen(x)' => MayOpen(x))
      /\ Lone(d.turns, By(x)) /\ ~(Hits(d.turns, By(x)) /\ MayOpen(x))
  BY <1>1, <1>2 DEF Spent, NoMoreMay
<1>6. t \in By(x) <=> x = m  BY <1>4 DEF By
<1>7. /\ Hits(desk'.turns, By(x)) <=> Hits(d.turns, By(x)) \/ t \in By(x)
      /\ Lone(d.turns, By(x)) /\ ~(t \in By(x) /\ Hits(d.turns, By(x)))
             => Lone(desk'.turns, By(x))
  BY <1>2, <1>3, <1>4, AppendMarks
<1>8. CASE x # m  BY <1>2, <1>5, <1>6, <1>7, <1>8
<1>9. CASE x = m
  <2>1. OneCopy(x, composer', desk'.queue, preparations', inbox', stdin', events', delivered'[x])
    BY DEF TurnsInv, OneCopyEach
  <2>2. Prepares(preparations', x)  BY <1>3, <1>9 DEF Prepares
  <2>3. Hits(inbox', Steers(x)) => Hits(inbox', Sends(x))
    <3>1. Steers(x) \subseteq Sends(x)  BY DEF Steers, Sends
    <3> QED  BY <3>1 DEF Hits
  <2>4. ~MayOpen(x)'  BY <2>1, <2>2, <2>3 DEF MayOpen, OneCopy, AtMostOne
  <2> QED  BY <1>2, <1>5, <1>6, <1>7, <1>9, <2>4
<1> QED  BY <1>8, <1>9

LEMMA PumpSpent ==
    ASSUME TurnsInv, TurnsInv', Ground, Ground', Spent, NEW n, NEW d, PumpStep(n, d) PROVE Spent'
<1>1. /\ n \in 1..Len(events) /\ d = HandledAll(desk, SubSeq(events, 1, n), TRUE)
      /\ \/ events' = SubSeq(events, n + 1, Len(events)) /\ inbox' = inbox
         \/ Closed
      /\ composer' = composer
  BY DEF PumpStep
<1>2. desk'.misread = d.misread /\ \A x : Hits(desk'.queue, {x}) => Hits(d.queue, {x})
  BY DEF PumpStep
<1>3. events \in Seq(Events) /\ n \in 0..Len(events)  BY <1>1, Types, LenProperties DEF TurnsInv
<1>4. /\ desk.misread \subseteq d.misread
      /\ \A m \in Messages \ d.misread : Hits(d.queue, {m}) => MayOpen(m)
  BY <1>1, <1>3, ShownPlaces
<1>5. \A S : Hits(events', S) => Hits(events, S)
  BY <1>1, <1>3, RestHits, EmptyMarks DEF Closed
<1>6. \A S : Hits(inbox', S) => Hits(inbox, S)  BY <1>1, EmptyMarks DEF Closed
<1>7. NoMoreMay  BY <1>1, <1>2, <1>4, <1>5, <1>6 DEF NoMoreMay, MayOpen
<1>8. CASE Still(d)
  <2>1. mixed' = mixed /\ Alike(Coming, Coming')  BY <1>8, PumpComing
  <2> QED  BY <1>7, <2>1, SpentKeeps DEF Alike, NoMore
<1>9. ASSUME NEW m \in Messages, Opens(d, m, SubSeq(events, n + 1, Len(events))), Hits(d.queue, {m})
      PROVE  Spent'
  <2> SUFFICES ASSUME ~mixed' PROVE Spent'  BY DEF Spent
  <2>1. Alike(Coming, d) /\ events' = <<>>  BY <1>9, PumpStarts
  <2>2. m \in Messages \ desk'.misread => MayOpen(m)  BY <1>2, <1>4, <1>9
  <2> QED  BY <1>7, <1>9, <2>1, <2>2, OpensSpent
<1> QED  BY <1>8, <1>9 DEF PumpStep

LEMMA StopSpent ==
    ASSUME TurnsInv, TurnsInv', Ground, Ground', Spent, NEW n, NEW d, StopStep(n, d) PROVE Spent'
<1> DEFINE c == [op |-> "cancel", message |-> None]
<1>1. /\ n \in 0..Len(events) /\ d = HandledAll(desk, SubSeq(events, 1, n), FALSE)
      /\ \/ events' = SubSeq(events, n + 1, Len(events)) /\ inbox' = Append(inbox, c)
         \/ Closed
      /\ desk'.misread = d.misread /\ desk'.queue = d.queue
      /\ composer' = composer /\ Closes(d, desk', "Interrupted")
  BY DEF StopStep
<1>2. events \in Seq(Events) /\ inbox \in Seq(Commands)  BY Types DEF TurnsInv
<1>3. /\ d \in Desk /\ desk.misread \subseteq d.misread
      /\ \A m \in Messages \ d.misread : Hits(d.queue, {m}) => MayOpen(m)
  BY <1>1, ShownPlaces
<1>4. \A S : Hits(events', S) => Hits(events, S)
  BY <1>1, <1>2, RestHits, EmptyMarks DEF Closed
<1>5. c \in Commands /\ \A m : c \notin Steers(m)  BY DEF Commands, Steers
<1> HIDE DEF c
<1>6. ASSUME NEW m PROVE Hits(inbox', Steers(m)) => Hits(inbox, Steers(m))
  <2>1. Hits(Append(inbox, c), Steers(m)) <=> Hits(inbox, Steers(m)) \/ c \in Steers(m)
    BY <1>2, <1>5, AppendMarks
  <2> QED  BY <1>1, <1>5, <2>1, EmptyMarks DEF Closed
<1>7. NoMoreMay  BY <1>1, <1>3, <1>4, <1>6 DEF NoMoreMay, MayOpen
<1>8. ASSUME ~mixed' PROVE ~mixed /\ NoMore(Coming.turns, Coming'.turns)
  <2>1. ~mixed /\ Alike(Coming, d) /\ Coming' = desk'  BY <1>8, StopComing
  <2>2. NoMore(d.turns, desk'.turns)  BY <1>1, <1>3, ClosesOpeners DEF Endings
  <2> QED  BY <2>1, <2>2 DEF Alike
<1> QED  BY <1>7, <1>8, SpentKeeps

\* A message that goes to the queue, a preparation or the driver could open a
\* turn before.
LEMMA GoesMay ==
    ASSUME TypeOK, NEW d \in Desk, NEW m \in Messages, Goes(d, m, inbox, inbox'), MayOpen(m),
           d.misread = desk.misread, \A x : Hits(d.queue, {x}) => Hits(desk.queue, {x}),
           composer' \subseteq composer, events' = events
    PROVE  NoMoreMay
<1> DEFINE c == [op |-> "steer", message |-> m]
<1>1. d.queue \in Seq(Messages) /\ inbox \in Seq(Commands) /\ c \in Commands
  BY Types DEF Desk, Commands
<1>2. \A x : c \in Steers(x) <=> x = m  BY DEF Steers
<1>3. /\ desk'.misread = d.misread
      /\ \/ desk'.queue = Append(d.queue, m) /\ inbox' = inbox
         \/ desk'.queue = d.queue /\ inbox' = inbox
         \/ desk'.queue = d.queue /\ inbox' = Append(inbox, c)
  BY DEF Goes
<1> HIDE DEF c
<1>4. \A x : Hits(Append(d.queue, m), {x}) <=> Hits(d.queue, {x}) \/ x = m  BY <1>1, QueuedMarks
<1>5. \A x : Hits(Append(inbox, c), Steers(x)) <=> Hits(inbox, Steers(x)) \/ x = m
  BY <1>1, <1>2, AppendMarks
<1> QED  BY <1>3, <1>4, <1>5 DEF NoMoreMay, MayOpen

\* A step of the user, or the end of a capture, opens a turn for a message that
\* could, if it opens one.
LEMMA SubmitPlaces ==
    ASSUME TurnsInv, TurnsInv', NEW d, SameTask(d), NEW m \in Messages, MayOpen(m),
           Submit(d, m, events), inbox' = inbox,
           d.misread = desk.misread, \A x : Hits(d.queue, {x}) => Hits(desk.queue, {x}),
           composer' \subseteq composer, events' = events
    PROVE  NoMoreMay /\ (Still(desk) \/ Opens(desk, m, events))
<1>1. d \in Desk /\ mixed \in BOOLEAN /\ desk' \in Desk /\ TypeOK  BY DEF SameTask, TurnsInv, TypeOK
<1>2. Goes(d, m, inbox, inbox')  BY <1>1, SubmitGoes
<1>3. NoMoreMay  BY <1>1, <1>2, GoesMay
<1>4. Still(d) \/ Opens(d, m, events)  BY <1>1, SubmitEffect
<1> QED  BY <1>3, <1>4, SameSteps

LEMMA SteerPlaces ==
    ASSUME TurnsInv, TurnsInv', NEW d, SameTask(d), NEW m \in Messages, MayOpen(m), SteerMessage(d, m),
           d.misread = desk.misread, \A x : Hits(d.queue, {x}) => Hits(desk.queue, {x}),
           composer' \subseteq composer, events' = events
    PROVE  NoMoreMay /\ (Still(desk) \/ Opens(desk, m, events))
<1>1. d \in Desk /\ mixed \in BOOLEAN /\ desk' \in Desk /\ TypeOK  BY DEF SameTask, TurnsInv, TypeOK
<1>2. Goes(d, m, inbox, inbox')  BY <1>1, SteerGoes
<1>3. NoMoreMay  BY <1>1, <1>2, GoesMay
<1>4. Still(d) \/ Opens(d, m, events)  BY <1>1, SteerEffect
<1> QED  BY <1>3, <1>4, SameSteps

LEMMA UnqueuedPlaces ==
    ASSUME desk \in Desk, NEW i \in DOMAIN desk.queue
    PROVE  LET d == Unqueued(i)
               m == desk.queue[i]
           IN /\ SameTask(d) /\ m \in Messages /\ MayOpen(m) /\ d.misread = desk.misread
              /\ \A x : Hits(d.queue, {x}) => Hits(desk.queue, {x})
<1> DEFINE q == RemoveAt(desk.queue, i)
           d == Unqueued(i)
           m == desk.queue[i]
<1>1. SameTask(d) /\ m \in Messages  BY UnqueuedSame
<1>2. desk.queue \in Seq(Messages)  BY DEF Desk
<1>3. q \in Seq(Messages) /\ \A x : Hits(q, {x}) => Hits(desk.queue, {x})  BY <1>2, RemoveAtMarks
<1>4. d = [desk EXCEPT !.queue = q]  BY DEF Unqueued
<1> HIDE DEF q, d
<1>5. d.queue = q /\ d.misread = desk.misread  BY <1>4 DEF Desk
<1>6. MayOpen(m)  BY DEF MayOpen, Hits
<1> QED  BY <1>1, <1>3, <1>5, <1>6 DEF d

LEMMA UserPlaces ==
    ASSUME TurnsInv, TurnsInv',
           \/ \E m \in Messages : Send(m) \/ Steer(m)
           \/ \E i \in DOMAIN desk.queue : SteerQueued(i) \/ EditQueued(i) \/ RemoveQueued(i)
    PROVE  NoMoreMay /\ (Still(desk) \/ \E m \in Messages : MayOpen(m) /\ Opens(desk, m, events))
<1>1. TypeOK /\ desk \in Desk /\ desk' \in Desk /\ SameTask(desk)
  BY DEF TurnsInv, TypeOK, SameTask
<1>2. ASSUME NEW m \in Messages, Send(m) \/ Steer(m)
      PROVE  NoMoreMay /\ MayOpen(m) /\ (Still(desk) \/ Opens(desk, m, events))
  <2>1. /\ composer' \subseteq composer /\ events' = events
        /\ \/ SteerMessage(desk, m)
           \/ desk' = Enqueued(desk, m) /\ UNCHANGED <<preparations, inbox, mixed>>
           \/ Submit(desk, m, events) /\ UNCHANGED inbox
    BY <1>2 DEF Send, Steer
  <2>2. MayOpen(m)  BY <1>2 DEF Send, Steer, MayOpen
  <2>3. CASE desk' = Enqueued(desk, m) /\ UNCHANGED <<preparations, inbox, mixed>>
    <3>1. Goes(desk, m, inbox, inbox)  BY <1>1, <2>3, EnqueuedGoes
    <3>2. NoMoreMay  BY <1>1, <2>1, <2>2, <2>3, <3>1, GoesMay
    <3>3. Still(desk)  BY <1>1, <2>3 DEF Still, Desk, Enqueued
    <3> QED  BY <2>2, <3>2, <3>3
  <2>4. CASE SteerMessage(desk, m)  BY <1>1, <2>1, <2>2, <2>4, SteerPlaces
  <2>5. CASE Submit(desk, m, events) /\ UNCHANGED inbox  BY <1>1, <2>1, <2>2, <2>5, SubmitPlaces
  <2> QED  BY <2>1, <2>3, <2>4, <2>5
<1>3. ASSUME NEW i \in DOMAIN desk.queue, SteerQueued(i) \/ EditQueued(i) \/ RemoveQueued(i)
      PROVE  NoMoreMay /\ (Still(desk) \/ \E m \in Messages : MayOpen(m) /\ Opens(desk, m, events))
  <2> DEFINE d == Unqueued(i)
             m == desk.queue[i]
  <2>1. /\ SameTask(d) /\ m \in Messages /\ MayOpen(m) /\ d.misread = desk.misread
        /\ \A x : Hits(d.queue, {x}) => Hits(desk.queue, {x})
    BY <1>1, UnqueuedPlaces
  <2>2. CASE SteerQueued(i)
    <3>1. SteerMessage(d, m) /\ composer' = composer /\ events' = events  BY <2>2 DEF SteerQueued
    <3> HIDE DEF d, m
    <3>2. NoMoreMay /\ (Still(desk) \/ Opens(desk, m, events))  BY <2>1, <3>1, SteerPlaces
    <3> QED  BY <2>1, <3>2
  <2>3. CASE EditQueued(i) \/ RemoveQueued(i)
    <3>1. /\ desk' = d /\ composer' \subseteq composer \cup {m}
          /\ UNCHANGED <<inbox, events, preparations, mixed>>
      BY <2>3, RestoredMoves DEF EditQueued, RemoveQueued, driverVars, history
    <3> HIDE DEF d, m
    <3>2. Still(desk)  BY <1>1, <2>1, <3>1 DEF Still, SameTask
    <3>3. NoMoreMay  BY <2>1, <3>1 DEF NoMoreMay, MayOpen
    <3> QED  BY <2>1, <3>2, <3>3
  <2> QED  BY <1>3, <2>2, <2>3
<1> QED  BY <1>2, <1>3

LEMMA EndCapturePlaces ==
    ASSUME TurnsInv, TurnsInv', NEW count \in desk.captures, EndCapture(count)
    PROVE  NoMoreMay /\ (Still(desk) \/ \E m \in Messages : MayOpen(m) /\ Opens(desk, m, events))
<1> DEFINE c == desk.captures \ {count}
           d == [desk EXCEPT !.captures = c, !.drain = FALSE]
<1>1. TypeOK /\ desk \in Desk /\ desk' \in Desk /\ mixed \in BOOLEAN /\ c \in SUBSET Nat
  BY DEF TurnsInv, TypeOK, Desk
<1>2. /\ IF desk.drain /\ Drains(d) THEN Submit([d EXCEPT !.queue = Tail(@)], Head(d.queue), events)
         ELSE desk' = d /\ UNCHANGED <<preparations, mixed>>
      /\ UNCHANGED <<inbox, events, composer>>
  BY DEF EndCapture, driverVars
<1> HIDE DEF c
<1>3. SameTask(d) /\ d.queue = desk.queue /\ d.misread = desk.misread  BY <1>1 DEF SameTask, Desk
<1>4. d \in Desk  BY <1>3 DEF SameTask
<1> HIDE DEF d
<1>5. CASE desk.drain /\ Drains(d)
  <2> DEFINE m == Head(d.queue)
  <2>1. d.queue # <<>> /\ Submit([d EXCEPT !.queue = Tail(@)], m, events)  BY <1>2, <1>5 DEF Drains
  <2>2. m \in Messages /\ (Still(d) \/ Opens(d, m, events))  BY <1>1, <1>4, <2>1, HeadOpens
  <2>3. desk'.misread = d.misread /\ \A x : Hits(desk'.queue, {x}) => Hits(d.queue, {x})
    BY <1>4, <2>1, HeadLeaves
  <2>4. MayOpen(m)
    <3>1. Hits(d.queue, {m})  BY <2>1, <1>4, TailMarks DEF Desk
    <3> QED  BY <3>1, <1>3 DEF MayOpen
  <2> HIDE DEF m
  <2>5. NoMoreMay  BY <1>2, <1>3, <2>3 DEF NoMoreMay, MayOpen
  <2> QED  BY <1>3, <2>2, <2>4, <2>5, SameSteps
<1>6. CASE ~(desk.drain /\ Drains(d))
  <2>1. desk' = d /\ UNCHANGED <<preparations, mixed>>  BY <1>2, <1>6
  <2>2. Still(desk)  BY <1>3, <2>1 DEF SameTask, Still
  <2>3. NoMoreMay  BY <1>2, <1>3, <2>1 DEF NoMoreMay, MayOpen
  <2> QED  BY <2>2, <2>3
<1> QED  BY <1>5, <1>6

LEMMA UserSpent ==
    ASSUME TurnsInv, TurnsInv', Ground, Ground', Spent, UserStep, NoMoreMay,
           Still(desk) \/ \E m \in Messages : MayOpen(m) /\ Opens(desk, m, events)
    PROVE  Spent'
<1>1. UNCHANGED <<events, stdin>>  BY DEF UserStep
<1>2. CASE Still(desk)
  <2>1. Alike(desk, desk')  BY <1>2, DeskKnown, DeskKnownNext DEF Still, Alike
  <2>2. Coming'.turns = Coming.turns  BY <1>1, <2>1, ComingSame DEF Alike
  <2> QED  BY <1>2, <2>2, SpentKeeps DEF Still, NoMore
<1>3. ASSUME ~Still(desk), NEW m \in Messages, MayOpen(m), Opens(desk, m, events)
      PROVE  Spent'
  <2> SUFFICES ASSUME ~mixed' PROVE Spent'  BY DEF Spent
  <2>1. Alike(Coming, desk) /\ events' = <<>>  BY <1>1, <1>3, OpensQuiet
  <2> QED  BY <1>3, <2>1, OpensSpent
<1> QED  BY <1>2, <1>3

\* A step that hands nothing on: what was and is not coming decides.
LEMMA SamePlaces ==
    ASSUME UNCHANGED <<composer, inbox, events>>, desk'.queue = desk.queue,
           desk'.misread = desk.misread
    PROVE  NoMoreMay
BY DEF NoMoreMay, MayOpen

LEMMA ReapSpent == ASSUME TurnsInv, TurnsInv', Ground, Ground', Spent, Reap PROVE Spent'
<1>1. /\ events = <<>> /\ Closed /\ UNCHANGED <<composer, mixed>>
      /\ desk' = [desk EXCEPT !.runtime = FALSE, !.steers = <<>>, !.dropped = @ \cup ToSet(desk.steers)]
  BY DEF Reap, history
<1>2. desk'.turns = desk.turns /\ desk'.queue = desk.queue /\ desk'.misread = desk.misread
  <2>1. desk \in Desk  BY Types DEF TurnsInv
  <2> QED  BY <1>1, <2>1 DEF Desk
<1>3. inbox' = <<>> /\ events' = <<>>  BY <1>1 DEF Closed
<1>4. Coming = desk /\ Coming' = desk'  BY <1>1, <1>3, DeskKnown, DeskKnownNext
<1>5. NoMoreMay  BY <1>1, <1>2, <1>3, EmptyMarks DEF NoMoreMay, MayOpen
<1> QED  BY <1>1, <1>2, <1>4, <1>5, SpentKeeps DEF NoMore

LEMMA FailStartSpent ==
    ASSUME TurnsInv, TurnsInv', Ground, Ground', Order, Spent, NEW p \in preparations,
           FailStartStep(p)
    PROVE  Spent'
<1>1. /\ Closes(desk, desk', "Failed") /\ desk'.queue = desk.queue /\ desk'.misread = desk.misread
      /\ UNCHANGED <<composer, inbox, events, mixed>>
  BY DEF FailStartStep
<1>2. ASSUME ~mixed' PROVE ~mixed /\ NoMore(Coming.turns, Coming'.turns)
  <2>1. ~mixed  BY <1>1, <1>2
  <2>2. Coming = desk /\ events' = <<>>  BY <1>1, <2>1, OnePreparation
  <2>3. Coming' = desk' /\ desk \in Desk  BY <2>2, DeskKnown, DeskKnownNext DEF Known
  <2> QED  BY <1>1, <2>1, <2>2, <2>3, ClosesOpeners DEF Endings
<1> QED  BY <1>1, <1>2, SamePlaces, SpentKeeps

LEMMA DropPreparationSpent ==
    ASSUME TurnsInv, Ground, Order, Spent, NEW p \in preparations, DropPreparationStep(p)
    PROVE  Spent'
<1> SUFFICES ASSUME ~mixed' PROVE FALSE  BY DEF Spent
<1>1. ~mixed /\ (~desk.preparing \/ ~Untouched(desk))  BY DEF DropPreparationStep
<1> QED  BY <1>1, OnePreparation

LEMMA SendPromptSpent ==
    ASSUME TurnsInv, TurnsInv', Ground, Ground', Order, Spent, NEW p \in preparations,
           SendPromptStep(p)
    PROVE  Spent'
<1> SUFFICES ASSUME ~mixed' PROVE Spent'  BY DEF Spent
<1> DEFINE m == p.message
<1>1. /\ m \in Messages /\ Coming = desk /\ Coming'.turns = desk.turns
      /\ inbox' = <<Prompt(m)>> /\ events' = <<Echo(m)>>
  BY SendPromptComing
<1>2. /\ desk'.queue = desk.queue /\ desk'.misread = desk.misread /\ UNCHANGED <<composer, mixed>>
  BY DEF SendPromptStep
<1> HIDE DEF m
<1>3. ASSUME NEW x PROVE ~Hits(inbox', Steers(x)) /\ ~Hits(events', Refusal(x))
  <2>1. Prompt(m) \notin Steers(x) /\ Echo(m) \notin Refusal(x)
    BY DEF Prompt, Steers, Echo, Refusal
  <2>2. ~Hits(<<Prompt(m)>>, Steers(x))
    <3> DEFINE c == Prompt(m)
    <3> HIDE DEF c
    <3>1. Hits(<<c>>, Steers(x)) <=> c \in Steers(x)  BY OneMark
    <3> QED  BY <3>1, <2>1 DEF c
  <2>3. ~Hits(<<Echo(m)>>, Refusal(x))
    <3> DEFINE c == Echo(m)
    <3> HIDE DEF c
    <3>1. Hits(<<c>>, Refusal(x)) <=> c \in Refusal(x)  BY OneMark
    <3> QED  BY <3>1, <2>1 DEF c
  <2> QED  BY <1>1, <2>2, <2>3
<1>4. NoMoreMay  BY <1>2, <1>3 DEF NoMoreMay, MayOpen
<1> QED  BY <1>1, <1>2, <1>4, SpentKeeps DEF NoMore

LEMMA FrontMarks ==
    ASSUME NEW s \in Seq(Turn), s # <<>>, NEW S
    PROVE  /\ Hits(Front(s), S) => Hits(s, S)
           /\ Lone(s, S) => Lone(Front(s), S) /\ ~(Last(s) \in S /\ Hits(Front(s), S))
<1> DEFINE u == Front(s)
<1>1. Len(s) \in Nat /\ DOMAIN s = 1..Len(s) /\ Len(s) # 0 /\ Last(s) = s[Len(s)]
  BY LenProperties, EmptySeq, LastTurn
<1>2. u \in Seq(Turn) /\ Len(u) = Len(s) - 1 /\ \A i \in 1..Len(s) - 1 : u[i] = s[i]
  BY <1>1, SubSeqProperties DEF Front
<1>3. DOMAIN u = 1..Len(s) - 1  BY <1>2, LenProperties
<1> HIDE DEF u
<1>4. \A i \in DOMAIN u : i \in DOMAIN s /\ i # Len(s) /\ u[i] = s[i]  BY <1>1, <1>2, <1>3
<1>5. Hits(u, S) => Hits(s, S)  BY <1>4 DEF Hits
<1>6. ASSUME Lone(s, S) PROVE Lone(u, S) /\ ~(Last(s) \in S /\ Hits(u, S))
  <2>1. Lone(u, S)  BY <1>4, <1>6 DEF Lone
  <2>2. ASSUME Last(s) \in S, NEW i \in DOMAIN u, u[i] \in S PROVE FALSE
    <3>1. Len(s) \in DOMAIN s  BY <1>1
    <3> QED  BY <1>1, <1>4, <1>6, <2>2, <3>1 DEF Lone
  <2> QED  BY <2>1, <2>2 DEF Hits
<1> QED  BY <1>5, <1>6 DEF u

\* The message whose worktree was not made comes back, and its turn goes.
LEMMA FailPreparationSpent ==
    ASSUME TurnsInv, TurnsInv', Ground, Ground', Order, Spent, NEW p \in preparations,
           FailPreparationStep(p)
    PROVE  Spent'
<1> DEFINE m == p.message
           s == desk.turns
<1> SUFFICES ASSUME ~mixed', NEW x \in Messages \ desk'.misread
             PROVE  /\ Lone(Coming'.turns, By(x))
                    /\ ~(Hits(Coming'.turns, By(x)) /\ MayOpen(x)')
  BY DEF Spent
<1>1. /\ ~desk'.runtime /\ desk'.queue = desk.queue /\ desk'.misread = desk.misread
      /\ desk.preparing /\ desk.status = "Connecting" =>
            desk'.turns = Unwound(desk).turns /\ composer' \subseteq composer \cup {m}
      /\ UNCHANGED <<inbox, events, mixed>>
  BY DEF FailPreparationStep
<1>2. desk.preparing /\ Untouched(desk) /\ Coming = desk /\ Last(s).opener = m
  BY <1>1, OnePreparation
<1>3. Coming' = desk'  BY <1>1, DeskKnownNext
<1>4. Known(desk)  BY DeskKnown
<1>5. desk'.turns = Front(s) /\ s # <<>> /\ s \in Seq(Turn)
  BY <1>1, <1>2, <1>4, UnwoundTurns DEF Untouched, Active, Known, Desk
<1>6. Last(s) \in Turn  BY <1>5, LastTurn
<1>7. Last(s) \in By(x) <=> x = m  BY <1>2, <1>6 DEF By
<1>8. composer' \subseteq composer \cup {m}  BY <1>1, <1>2 DEF Untouched
<1> HIDE DEF m
<1>9. x # m => (MayOpen(x)' => MayOpen(x))  BY <1>1, <1>8 DEF MayOpen
<1>10. x \in Messages \ desk.misread /\ Lone(s, By(x)) /\ ~(Hits(s, By(x)) /\ MayOpen(x))
  BY <1>1, <1>2 DEF Spent
<1>11. /\ Hits(Front(s), By(x)) => Hits(s, By(x))
       /\ Lone(s, By(x)) => Lone(Front(s), By(x)) /\ ~(Last(s) \in By(x) /\ Hits(Front(s), By(x)))
  BY <1>5, FrontMarks
<1> QED  BY <1>3, <1>5, <1>7, <1>9, <1>10, <1>11

\* A steer that the writer refuses was waiting for it.
LEMMA WriteSpent ==
    ASSUME TurnsInv, TurnsInv', Ground, Ground', Spent, NEW c, WriteStep(c) PROVE Spent'
<1> DEFINE S == Event("started")
           E == Event("error")
           F == Event("failed")
           A == Accept(c.message)
           R == Refuse(c.message)
<1>1. /\ c \in Commands /\ inbox # <<>> /\ c = Head(inbox) /\ inbox' = Tail(inbox) /\ WriterAlone
      /\ events \in Seq(Events) /\ inbox \in Seq(Commands)
      /\ c.op # "cancel" => c.message \in Messages
  BY Types DEF TurnsInv, WriteStep, Commands
<1>2. /\ {S, E, F} \subseteq Events
      /\ S.kind # "submitted" /\ E.kind # "submitted" /\ F.kind # "submitted"
      /\ c.op # "cancel" => A \in Events /\ R \in Events
      /\ A.kind # "submitted" /\ R.kind # "submitted"
  BY <1>1, CommonEvents DEF Event, Accept, Refuse
<1>3. /\ \A x : S \notin Refusal(x) /\ E \notin Refusal(x) /\ F \notin Refusal(x) /\ A \notin Refusal(x)
      /\ \A x : R \in Refusal(x) => x = c.message
  BY DEF Event, Accept, Refuse, Refusal
<1>4. \/ Says1(S) \/ Says3(S, E, F) \/ (c.op # "cancel" /\ Says1(A)) \/ events' = events
      \/ (c.op = "steer" /\ (Says3(R, E, F) \/ Says1(R))) \/ Says2(E, F) \/ Says1(E)
  BY DEF WriteStep
<1> HIDE DEF S, E, F, A, R
<1>5. NoMore(Coming.turns, Coming'.turns)
  <2>1. events' = events => Coming' = Coming  BY <1>1 DEF WriterAlone, Coming
  <2>2. desk' = desk  BY <1>1 DEF WriterAlone
  <2> QED  BY <1>2, <1>4, <2>1, <2>2, SaysOpeners DEF NoMore
<1>6. ASSUME NEW x, Hits(events', Refusal(x))
      PROVE  Hits(events, Refusal(x)) \/ (c.op = "steer" /\ x = c.message)
  BY <1>1, <1>2, <1>3, <1>4, <1>6, SaysHits
<1>7. ASSUME NEW x, c.op = "steer", x = c.message PROVE c \in Steers(x)
  BY <1>1, <1>7 DEF Commands, Steers
<1>8. \A x : Hits(inbox, Steers(x)) <=> c \in Steers(x) \/ Hits(inbox', Steers(x))
  BY <1>1, TailMarks
<1>9. desk' = desk /\ composer' = composer /\ mixed' = mixed  BY <1>1 DEF WriterAlone
<1>10. NoMoreMay  BY <1>6, <1>7, <1>8, <1>9 DEF NoMoreMay, MayOpen
<1> QED  BY <1>5, <1>9, <1>10, SpentKeeps

LEMMA ReadSpent == ASSUME Spent, NEW c, ReadStep(c) PROVE Spent'
<1>1. UNCHANGED <<desk, composer, inbox, events, mixed>>  BY DEF ReadStep
<1>2. Coming' = Coming  BY <1>1 DEF Coming
<1>3. NoMoreMay  BY <1>1, SamePlaces
<1> QED  BY <1>1, <1>2, <1>3, SpentKeeps DEF NoMore

\* The process opens no turn for a message, and refuses none.
LEMMA ProviderSpent ==
    ASSUME TurnsInv, TurnsInv', Ground, Ground', Spent, ProviderStep PROVE Spent'
<1> DEFINE S == Event("started")
           E == Event("error")
           F == Event("failed")
           G == Event("finished")
           P == Event("parked")
           X == Event("exited")
<1>1. UNCHANGED <<desk, composer, inbox>> /\ events \in Seq(Events)
  BY Types DEF ProviderStep, TurnsInv
<1>2. /\ {S, E, F, G, P, X} \subseteq Events
      /\ \A x \in {S, E, F, G, P, X} : x.kind # "submitted" /\ \A m : x \notin Refusal(m)
  BY CommonEvents DEF Event, Refusal
<1>3. \/ Says1(S) \/ Says1(P) \/ Says1(G) \/ Says1(E) \/ Says1(F)
      \/ Says2(E, F) \/ Says2(E, X) \/ events' = events
  BY DEF ProviderStep, SpeakStep, DetachStep, WakeStep, ReplyStep, CrashStep, ExitStep
<1> HIDE DEF S, E, F, G, P, X
<1>4. NoMore(Coming.turns, Coming'.turns)
  <2>1. events' = events => Coming' = Coming  BY <1>1 DEF Coming
  <2> QED  BY <1>1, <1>2, <1>3, <2>1, SaysOpeners DEF NoMore
<1>5. \A m : Hits(events', Refusal(m)) => Hits(events, Refusal(m))
  BY <1>1, <1>2, <1>3, SaysHits
<1>6. NoMoreMay  BY <1>1, <1>5 DEF NoMoreMay, MayOpen
<1>7. ~mixed' => ~mixed  BY DEF ProviderStep, CrashStep
<1> QED  BY <1>4, <1>6, <1>7, SpentKeeps

----------------------------------------------------------------------------
(* The theorems                                                            *)

LEMMA InitTurns == Init => TurnsInv
<1> SUFFICES ASSUME Init PROVE TurnsInv  OBVIOUS
<1>1. /\ <<>> \in Seq(Messages) /\ <<>> \in Seq(Turn) /\ <<>> \in Seq(Commands) /\ <<>> \in Seq(Events)
  BY EmptySeq
<1>2. desk \in Desk  BY <1>1 DEF Init, Desk, Statuses
<1>3. TypeOK  BY <1>1, <1>2 DEF Init, TypeOK, NewDriver, NewCli
<1>4. OneCopyEach(desk, events)
  <2> SUFFICES ASSUME NEW m \in Messages
               PROVE  OneCopy(m, composer, desk.queue, preparations, inbox, stdin, events, delivered[m])
    BY DEF OneCopyEach
  <2>1. /\ desk.queue = <<>> /\ preparations = {} /\ inbox = <<>> /\ stdin = <<>> /\ events = <<>>
        /\ delivered[m] = 0
    BY DEF Init
  <2> QED  BY <2>1, EmptyMarks DEF OneCopy, AtMostOne, Prepares
<1>5. HasAll(desk)  BY DEF Init, HasAll
<1>6. Fresh(desk, preparations)  BY DEF Init, Fresh
<1> QED  BY <1>3, <1>4, <1>5, <1>6 DEF TurnsInv

LEMMA NextTurns == TurnsInv /\ [Next]_vars => TurnsInv'
<1> SUFFICES ASSUME TurnsInv, [Next]_vars PROVE TurnsInv'  OBVIOUS
<1>1. CASE User
  BY <1>1, SendKeeps, SteerKeeps, SteerQueuedKeeps, EditKeeps, RemoveKeeps, StopKeeps DEF User
<1>2. CASE Pump  BY <1>2, PumpKeeps
<1>3. CASE Captured  BY <1>3, EndCaptureKeeps DEF Captured
<1>4. CASE Prepared
  BY <1>4, FailPreparationKeeps, DropPreparationKeeps, FailStartKeeps, SendPromptKeeps DEF Prepared
<1>5. CASE Reap  BY <1>5, ReapKeeps
<1>6. CASE Write  BY <1>6, WriteKeeps
<1>7. CASE Claude
  BY <1>7, ReadKeeps, SpeakKeeps, DetachKeeps, WakeKeeps, ReportExitKeeps, ReplyKeeps DEF Claude
<1>8. CASE Crash  BY <1>8, CrashKeeps
<1>9. CASE UNCHANGED vars
  <2>1. UNCHANGED <<desk, composer, preparations, inbox, events, driver, stdin, cli, incidents, delivered,
                    answered, discarded, mislaid, mixed, swallowed>>
    BY <1>9 DEF vars, driverVars, history
  <2>2. TypeOK /\ OneCopyEach(desk, events) /\ HasAll(desk) /\ Fresh(desk, preparations)
    BY DEF TurnsInv
  <2>3. TypeOK'  BY <2>1, <2>2 DEF TypeOK
  <2>4. OneCopyEach(desk, events)'  BY <2>1, <2>2 DEF OneCopyEach
  <2>5. HasAll(desk)' /\ Fresh(desk', preparations')  BY <2>1, <2>2 DEF HasAll, Fresh
  <2> QED  BY <2>3, <2>4, <2>5 DEF TurnsInv
<1> QED  BY <1>1, <1>2, <1>3, <1>4, <1>5, <1>6, <1>7, <1>8, <1>9 DEF Next

LEMMA AlwaysTurns == Spec => []TurnsInv
BY InitTurns, NextTurns, PTL DEF Spec

\* Statuses, turns, queue and channels are well formed, whatever the user, the
\* client's event pump, the driver's threads and the process do
\* (app/runtime.rs, app/streaming.rs, driver/claude.rs).
THEOREM TypeCorrect == Spec => []TypeOK
<1>1. TurnsInv => TypeOK  BY DEF TurnsInv
<1> QED  BY <1>1, AlwaysTurns, PTL

\* Every message the user has sent is in the composer, the queue, a steer or the
\* transcript, unless the user removed it, or it was a steer that went with its
\* runtime or a Stop, or that the answer to such a steer settled, or it was
\* mislaid: typed where another message came back, or taken out of the transcript
\* by a preparation that failed behind another task: through prompts that fail to
\* start (finish_submission_preparation), steers that are rejected
\* (handle_driver_event), turns that are taken back, crashes and reaps.
THEOREM NoneLost == Spec => []NothingLost
<1>1. TurnsInv => NothingLost
  <2> SUFFICES ASSUME TurnsInv, NEW m \in Messages
               PROVE  Held(m) \/ Shown(m) \/ m \in desk.dropped \cup desk.misread \cup discarded \cup mislaid
    BY DEF NothingLost
  <2>1. m \in composer \cup discarded \cup mislaid \/ Has(desk, m)  BY DEF TurnsInv, HasAll
  <2> QED  BY <2>1 DEF Has, ShownIn, Held, Shown
<1> QED  BY <1>1, AlwaysTurns, PTL

\* The process reads a message once at most, whichever way it went: sent, queued
\* and drained, steered and rejected (driver/claude.rs), edited, or prepared again
\* after a preparation that failed; only a steer that the answer to another one
\* settled (streaming.rs) may be read again.
THEOREM NoneSentTwice == Spec => []SentOnce
<1>1. TurnsInv => SentOnce
  <2> SUFFICES ASSUME TurnsInv, NEW m \in Messages \ desk.misread PROVE delivered[m] <= 1
    BY DEF SentOnce
  <2>1. delivered[m] \in {0, 1}  BY DEF TurnsInv, OneCopyEach, OneCopy
  <2> QED  BY <2>1
<1> QED  BY <1>1, AlwaysTurns, PTL

LEMMA InitOrder == Init => Ground /\ Order
<1> SUFFICES ASSUME Init PROVE Ground /\ Order  OBVIOUS
<1>1. /\ desk.turns = <<>> /\ ~desk.runtime /\ inbox = <<>> /\ events = <<>> /\ stdin = <<>>
      /\ driver = NewDriver /\ cli = NewCli /\ preparations = {} /\ desk.status = "Idle"
  BY DEF Init
<1>2. Sound(<<>>) /\ Credited(<<>>, answered) /\ EarlierDone(<<>>)
  BY DEF Sound, Credited, EarlierDone
<1>3. Ground  BY <1>1, <1>2, EmptyMarks DEF Ground, NewCli
<1>4. TurnsInv  BY InitTurns
<1>5. Coming = desk  BY <1>1, <1>3, <1>4, DeskKnown
<1>6. PromptsAhead  BY <1>1, PromptAlone DEF PromptsAhead
<1>7. Settled  BY <1>1, <1>2, <1>5 DEF Settled, Calm, Active
<1> QED  BY <1>1, <1>3, <1>5, <1>6, <1>7 DEF Order, PreparesLast, Underway, Served

LEMMA NextOrder == TurnsInv /\ Ground /\ Order /\ [Next]_vars => Ground' /\ Order'
<1> SUFFICES ASSUME TurnsInv, Ground, Order, [Next]_vars PROVE Ground' /\ Order'  OBVIOUS
<1>1. TurnsInv'  BY NextTurns
<1>2. CASE UserStep  BY <1>1, <1>2, UserGround, UserOrder
<1>3. CASE Stop
  <2>1. PICK n, d : StopStep(n, d)  BY <1>3, StopSteps
  <2> QED  BY <1>1, <2>1, StopGround, StopOrder
<1>4. CASE Pump
  <2>1. PICK n, d : PumpStep(n, d)  BY <1>1, <1>4, PumpSteps
  <2> QED  BY <1>1, <2>1, PumpGround, PumpOrder
<1>5. CASE Reap  BY <1>1, <1>5, ReapGround, ReapOrder
<1>6. CASE Prepared
  <2>1. PICK p \in preparations :
            FailPreparation(p) \/ DropPreparation(p) \/ FailStart(p) \/ SendPrompt(p)
    BY <1>6 DEF Prepared
  <2>2. CASE FailPreparation(p)
    <3>1. FailPreparationStep(p)  BY <2>2, FailPreparationSteps
    <3> QED  BY <1>1, <3>1, FailPreparationGround, FailPreparationOrder
  <2>3. CASE DropPreparation(p)
    <3>1. DropPreparationStep(p)  BY <2>3, PreparationSteps
    <3> QED  BY <3>1, PreparationGround, DropPreparationOrder
  <2>4. CASE FailStart(p)
    <3>1. FailStartStep(p)  BY <2>4, PreparationSteps
    <3>2. Ground'  BY <3>1, PreparationGround
    <3> QED  BY <1>1, <3>1, <3>2, FailStartOrder
  <2>5. CASE SendPrompt(p)
    <3>1. SendPromptStep(p)  BY <2>5, PreparationSteps
    <3>2. Ground'  BY <3>1, PreparationGround
    <3> QED  BY <1>1, <3>1, <3>2, SendPromptOrder
  <2> QED  BY <2>1, <2>2, <2>3, <2>4, <2>5
<1>7. CASE Write
  <2>1. PICK c : WriteStep(c)  BY <1>7, WriteSteps
  <2> QED  BY <1>1, <2>1, WriteGround, WriteOrder
<1>8. CASE Read
  <2>1. PICK c : ReadStep(c)  BY <1>8, ReadSteps
  <2> QED  BY <2>1, ReadGround, ReadOrder
<1>9. CASE Speak \/ Detach \/ Wake \/ ReportExit \/ Crash \/ \E success \in BOOLEAN : Reply(success)
  <2>1. ProviderStep  BY <1>9, ProviderSteps
  <2> QED  BY <1>1, <2>1, ProviderGround, ProviderOrder
<1>10. CASE UNCHANGED vars
  <2>1. UNCHANGED <<desk, composer, preparations, inbox, events, driver, stdin, cli, incidents,
                    answered, mixed>>
    BY <1>10 DEF vars, driverVars, history
  <2>2. Coming' = Coming /\ (Untouched(desk))' = Untouched(desk)  BY <2>1 DEF Coming
  <2>3. Ground'  BY <2>1 DEF Ground, Exits, Event, NewDriver, NewCli
  <2>4. Order'
    BY <2>1, <2>2 DEF Order, PreparesLast, ProviderQuiet, PromptsAhead, Underway, Served, Serves, Settled
  <2> QED  BY <2>3, <2>4
<1>11. CASE Captured
  <2>1. PICK count \in desk.captures : EndCapture(count)  BY <1>11 DEF Captured
  <2> QED  BY <1>1, <1>2, <2>1, EndCaptureSteps
<1>12. CASE User
  <2>1. UserStep \/ Stop  BY <1>1, <1>12, UserSteps DEF User
  <2> QED  BY <1>2, <1>3, <2>1
<1> QED  BY <1>4, <1>5, <1>6, <1>7, <1>8, <1>9, <1>10, <1>11, <1>12 DEF Next, Claude

LEMMA AlwaysOrder == Spec => [](TurnsInv /\ Ground /\ Order)
<1>1. Init => TurnsInv /\ Ground /\ Order  BY InitTurns, InitOrder
<1>2. TurnsInv /\ Ground /\ Order /\ [Next]_vars => (TurnsInv /\ Ground /\ Order)'
  BY NextTurns, NextOrder
<1> QED  BY <1>1, <1>2, PTL DEF Spec

\* A turn that the transcript shows as completed was answered: its prompt reached
\* the process and the process's reply to it succeeded, though no event names its
\* turn (handle_driver_event, driver/claude.rs); as long as no turn began before
\* the provider was done with the last one.
THEOREM AnsweredIfCompleted == Spec => []CompletedIsAnswered
<1>1. TurnsInv /\ Ground /\ Order => CompletedIsAnswered
  <2> SUFFICES ASSUME TurnsInv, Ground, Order, NEW i \in DOMAIN desk.turns, ~mixed,
                      desk.turns[i].state = "Completed", desk.turns[i].opener # None
               PROVE  desk.turns[i].opener \in answered
    BY DEF CompletedIsAnswered
  <2>1. Known(desk) /\ desk.turns \in Seq(Turn) /\ Known(Coming) /\ Coming.turns \in Seq(Turn)
    BY DeskKnown DEF Known, Desk
  <2>2. Grew(desk.turns, Coming.turns)  BY DeskKnown, ComesKnown DEF Coming
  <2>3. DOMAIN desk.turns = 1..Len(desk.turns) /\ Len(desk.turns) \in Nat
        /\ DOMAIN Coming.turns = 1..Len(Coming.turns) /\ Len(Coming.turns) \in Nat
    BY <2>1, LenProperties
  <2>4. /\ i \in DOMAIN Coming.turns /\ Coming.turns[i].opener = desk.turns[i].opener
        /\ Coming.turns[i].state = "Completed"
    BY <2>2, <2>3 DEF Grew
  <2> QED  BY <2>4 DEF Order, Settled, Credited
<1> QED  BY <1>1, AlwaysOrder, PTL

\* No turn is left running below a later one, as long as none began too early
\* and the process has not died: whichever way the earlier one ended
\* (streaming.rs, cancel_turn, finish_submission_preparation), it was settled.
THEOREM NoneLeftRunning == Spec => []EarlierSettled
<1>1. TurnsInv /\ Ground /\ Order => EarlierSettled
  <2> SUFFICES ASSUME TurnsInv, Ground, Order, ~mixed, "crash" \notin incidents,
                      NEW i \in 1..Len(desk.turns) - 1
               PROVE  desk.turns[i].state # "Running"
    BY DEF EarlierSettled
  <2>1. Known(desk) /\ desk.turns \in Seq(Turn) /\ Known(Coming) /\ Coming.turns \in Seq(Turn)
    BY DeskKnown DEF Known, Desk
  <2>2. Grew(desk.turns, Coming.turns)  BY DeskKnown, ComesKnown DEF Coming
  <2>3. Len(desk.turns) \in Nat /\ Len(Coming.turns) \in Nat  BY <2>1, LenProperties
  <2>4. i \in 1..Len(Coming.turns) - 1 /\ Coming.turns[i].state = desk.turns[i].state
    BY <2>2, <2>3 DEF Grew
  <2> QED  BY <2>4 DEF Order, Settled, Calm, EarlierDone
<1> QED  BY <1>1, AlwaysOrder, PTL

LEMMA InitSpent == Init => Spent
<1> SUFFICES ASSUME Init PROVE Spent  OBVIOUS
<1>1. TurnsInv /\ Ground /\ desk.turns = <<>> /\ events = <<>>  BY InitTurns, InitOrder DEF Init
<1>2. Coming.turns = <<>>  BY <1>1, DeskKnown
<1> QED  BY <1>2, EmptyMarks DEF Spent

LEMMA NextSpent == TurnsInv /\ Ground /\ Order /\ Spent /\ [Next]_vars => Spent'
<1> SUFFICES ASSUME TurnsInv, Ground, Order, Spent, [Next]_vars PROVE Spent'  OBVIOUS
<1>1. TurnsInv' /\ Ground' /\ Order'  BY NextTurns, NextOrder
<1>2. CASE User
  <2>1. CASE Stop
    <3>1. PICK n, d : StopStep(n, d)  BY <2>1, StopSteps
    <3> QED  BY <1>1, <3>1, StopSpent
  <2>2. CASE ~Stop
    <3>1. \/ \E m \in Messages : Send(m) \/ Steer(m)
          \/ \E i \in DOMAIN desk.queue : SteerQueued(i) \/ EditQueued(i) \/ RemoveQueued(i)
      BY <1>2, <2>2 DEF User
    <3> QED  BY <1>1, <3>1, UserSteps, UserPlaces, UserSpent
  <2> QED  BY <2>1, <2>2
<1>3. CASE Pump
  <2>1. PICK n, d : PumpStep(n, d)  BY <1>1, <1>3, PumpSteps
  <2> QED  BY <1>1, <2>1, PumpSpent
<1>4. CASE Captured
  <2>1. PICK count \in desk.captures : EndCapture(count)  BY <1>4 DEF Captured
  <2> QED  BY <1>1, <2>1, EndCaptureSteps, EndCapturePlaces, UserSpent
<1>5. CASE Reap  BY <1>1, <1>5, ReapSpent
<1>6. CASE Prepared
  <2>1. PICK p \in preparations :
            FailPreparation(p) \/ DropPreparation(p) \/ FailStart(p) \/ SendPrompt(p)
    BY <1>6 DEF Prepared
  <2>2. CASE FailPreparation(p)
    <3>1. FailPreparationStep(p)  BY <2>2, FailPreparationSteps
    <3> QED  BY <1>1, <3>1, FailPreparationSpent
  <2>3. CASE DropPreparation(p)
    <3>1. DropPreparationStep(p)  BY <2>3, PreparationSteps
    <3> QED  BY <3>1, DropPreparationSpent
  <2>4. CASE FailStart(p)
    <3>1. FailStartStep(p)  BY <2>4, PreparationSteps
    <3> QED  BY <1>1, <3>1, FailStartSpent
  <2>5. CASE SendPrompt(p)
    <3>1. SendPromptStep(p)  BY <2>5, PreparationSteps
    <3> QED  BY <1>1, <3>1, SendPromptSpent
  <2> QED  BY <2>1, <2>2, <2>3, <2>4, <2>5
<1>7. CASE Write
  <2>1. PICK c : WriteStep(c)  BY <1>7, WriteSteps
  <2> QED  BY <1>1, <2>1, WriteSpent
<1>8. CASE Read
  <2>1. PICK c : ReadStep(c)  BY <1>8, ReadSteps
  <2> QED  BY <2>1, ReadSpent
<1>9. CASE Speak \/ Detach \/ Wake \/ ReportExit \/ Crash \/ \E success \in BOOLEAN : Reply(success)
  <2>1. ProviderStep  BY <1>9, ProviderSteps
  <2> QED  BY <1>1, <2>1, ProviderSpent
<1>10. CASE UNCHANGED vars
  <2>1. UNCHANGED <<desk, composer, inbox, events, mixed>>  BY <1>10 DEF vars, driverVars, history
  <2>2. Coming' = Coming  BY <2>1 DEF Coming
  <2>3. NoMoreMay  BY <2>1, SamePlaces
  <2> QED  BY <2>1, <2>2, <2>3, SpentKeeps DEF NoMore
<1> QED  BY <1>2, <1>3, <1>4, <1>5, <1>6, <1>7, <1>8, <1>9, <1>10 DEF Next, Claude

LEMMA AlwaysSpent == Spec => [](TurnsInv /\ Ground /\ Order /\ Spent)
<1>1. Init => TurnsInv /\ Ground /\ Order /\ Spent  BY InitTurns, InitOrder, InitSpent
<1>2. TurnsInv /\ Ground /\ Order /\ Spent /\ [Next]_vars => (TurnsInv /\ Ground /\ Order /\ Spent)'
  BY NextTurns, NextOrder, NextSpent
<1> QED  BY <1>1, <1>2, PTL DEF Spec

\* No message opens two turns: the echo that the daemon sends of a prompt finds
\* the turn that was begun for it (adopt_submitted_prompt), and neither a refused
\* steer nor a failed preparation leaves a copy behind when it hands one back; as
\* long as no turn began before the provider was done with the last one, and but
\* for a message that took another one's late answer.
THEOREM NoneShownTwice == Spec => []ShownOnce
<1>1. TurnsInv /\ Ground /\ Order /\ Spent => ShownOnce
  <2> SUFFICES ASSUME TurnsInv, Ground, Spent, ~mixed, NEW m \in Messages \ desk.misread
               PROVE  Cardinality(Opened(m)) <= 1
    BY DEF ShownOnce
  <2>1. Known(desk) /\ desk.turns \in Seq(Turn) /\ Known(Coming) /\ Coming.turns \in Seq(Turn)
    BY DeskKnown DEF Known, Desk
  <2>2. Grew(desk.turns, Coming.turns)  BY DeskKnown, ComesKnown DEF Coming
  <2>3. /\ DOMAIN desk.turns = 1..Len(desk.turns) /\ Len(desk.turns) \in Nat
        /\ DOMAIN Coming.turns = 1..Len(Coming.turns) /\ Len(Coming.turns) \in Nat
        /\ \A i \in 1..Len(Coming.turns) : Coming.turns[i] \in Turn
    BY <2>1, LenProperties, ElementOfSeq
  <2>4. Lone(Coming.turns, By(m)) /\ m # None  BY ConstantsAssumption DEF Spent
  <2>5. \A i \in Opened(m) : i \in DOMAIN Coming.turns /\ Coming.turns[i] \in By(m)
    BY <2>2, <2>3, <2>4 DEF Opened, Grew, By
  <2>6. \A i, j \in Opened(m) : i = j  BY <2>4, <2>5 DEF Lone
  <2>7. CASE Opened(m) = {}
    <3>1. Cardinality({}) = 0  BY FS_EmptySet
    <3> QED  BY <2>7, <3>1
  <2>8. ASSUME NEW i \in Opened(m) PROVE Cardinality(Opened(m)) <= 1
    <3>1. Opened(m) = {i}  BY <2>6
    <3>2. Cardinality({i}) = 1  BY FS_Singleton
    <3> QED  BY <3>1, <3>2
  <2> QED  BY <2>7, <2>8
<1> QED  BY <1>1, AlwaysSpent, PTL
=============================================================================
