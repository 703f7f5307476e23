---------------------------- MODULE RewindProofs ----------------------------
(***************************************************************************)
(* Proofs about Rewind: nothing is destroyed by rewinds that do not        *)
(* finish, and no save erases a checkpoint.  The type invariant of Rewind  *)
(* also says what a native session of the provider holds; these proofs     *)
(* need less: the shape of the copies, captures and rewinds.               *)
(***************************************************************************)
EXTENDS Rewind, SequenceTheorems, TLAPS

Snapshot == [content : Int, turn : Nat]
Shape == [id : Nat, running : BOOLEAN, told : BOOLEAN, base : Int, check : SUBSET Snapshot]

IsCopy(c) ==
    /\ c = [turns |-> c.turns, status |-> c.status, cursor |-> c.cursor]
    /\ c.turns \in Seq(Shape)

IsCapture(c) ==
    /\ c = [count |-> c.count, turn |-> c.turn, step |-> c.step, found |-> c.found,
            wanted |-> c.wanted]
    /\ c.turn \in Nat /\ c.found \subseteq Snapshot
    /\ c.step = "captured" => c.found # {}

\* A rewind has no safety snapshot before it has taken one.
IsRewind(r) ==
    /\ r = [step |-> r.step, k |-> r.k, turns |-> r.turns, cursor |-> r.cursor, ref |-> r.ref,
            safety |-> r.safety, alone |-> r.alone]
    /\ r.step \in {"started", "secured", "restored", "undo", "rewound", "cleaned"}
    /\ r.turns \in Seq(Shape) /\ r.k \in 1..Len(r.turns) /\ r.safety \in Int
    /\ r.step = "started" => r.safety = Unknown

Numbers == work \in Int /\ edits \in Nat /\ begun \in Nat
Refs == /\ \A n \in DOMAIN starts : starts[n] \in Snapshot
        /\ \A n \in DOMAIN ends : ends[n] \in Snapshot
Copies == IsCopy(desk) /\ IsCopy(stored)
Captures == \A c \in captures : IsCapture(c)
Rewinds == /\ rewinds = [w \in Actors |-> rewinds[w]]
           /\ \A w \in Actors : rewinds[w] = None \/ IsRewind(rewinds[w])

\* Only the last turn runs, and none while the desktop rewinds or is idle: what
\* it rewinds is still there when the rewind ends.
Quiet ==
    /\ \A i \in DOMAIN desk.turns : desk.turns[i].running =>
          i = Len(desk.turns) /\ desk.status # "Idle" /\ ~Rewinding("desktop")
    /\ Rewinding("desktop") =>
          desk.status = "Connecting" /\ rewinds["desktop"].k <= Len(desk.turns)
    /\ desk.status = "Working" => desk.turns # <<>>

RewindInv == Numbers /\ Refs /\ Copies /\ Captures /\ Rewinds /\ Quiet

-----------------------------------------------------------------------------
(* Turns, copies and snapshots                                             *)

LEMMA ASequence == ASSUME NEW S, NEW n \in Nat, NEW f \in [1..n -> S]
                   PROVE  f \in Seq(S) /\ Len(f) = n /\ DOMAIN f = 1..n
OBVIOUS

\* The turns of a copy, one by one.
LEMMA TurnsOf ==
    ASSUME NEW q \in Seq(Shape)
    PROVE  /\ Len(q) \in Nat /\ DOMAIN q = 1..Len(q) /\ \A i \in DOMAIN q : q[i] \in Shape
           /\ q # <<>> => Len(q) \in DOMAIN q /\ Last(q) = q[Len(q)] /\ Last(q) \in Shape
BY LenProperties, ElementOfSeq, EmptySeq DEF Last

LEMMA Changed ==
    ASSUME NEW t \in Shape
    PROVE  /\ \A b \in BOOLEAN : [t EXCEPT !.running = b] \in Shape
           /\ \A b \in BOOLEAN : [t EXCEPT !.running = b].running = b
           /\ \A b \in BOOLEAN : [t EXCEPT !.told = b] \in Shape
           /\ \A b \in BOOLEAN : [t EXCEPT !.told = b].running = t.running
           /\ \A n \in Int : [t EXCEPT !.base = n] \in Shape
           /\ \A n \in Int : [t EXCEPT !.base = n].running = t.running
           /\ \A d \in SUBSET Snapshot : [t EXCEPT !.check = d] \in Shape
           /\ \A d \in SUBSET Snapshot : [t EXCEPT !.check = d].check = d
           /\ \A d \in SUBSET Snapshot : [t EXCEPT !.check = d].running = t.running
BY DEF Shape

LEMMA CopyChanged ==
    ASSUME NEW c, IsCopy(c)
    PROVE  /\ \A q \in Seq(Shape) : LET d == [c EXCEPT !.turns = q]
                                   IN IsCopy(d) /\ d.turns = q /\ d.status = c.status
           /\ \A x : LET d == [c EXCEPT !.status = x]
                     IN IsCopy(d) /\ d.turns = c.turns /\ d.status = x
           /\ \A x : LET d == [c EXCEPT !.cursor = x]
                     IN IsCopy(d) /\ d.turns = c.turns /\ d.status = c.status
<1>1. c = [turns |-> c.turns, status |-> c.status, cursor |-> c.cursor] /\ c.turns \in Seq(Shape)
  BY DEF IsCopy
<1>2. \A x : /\ [c EXCEPT !.turns = x] = [turns |-> x, status |-> c.status, cursor |-> c.cursor]
            /\ [c EXCEPT !.status = x] = [turns |-> c.turns, status |-> x, cursor |-> c.cursor]
            /\ [c EXCEPT !.cursor = x] = [turns |-> c.turns, status |-> c.status, cursor |-> x]
  BY <1>1
<1> QED  BY <1>1, <1>2 DEF IsCopy

LEMMA RefSet ==
    ASSUME NEW f, NEW n, NEW r \in Snapshot, \A i \in DOMAIN f : f[i] \in Snapshot
    PROVE  /\ \A i \in DOMAIN SetRef(f, n, r) : SetRef(f, n, r)[i] \in Snapshot
           /\ \A i \in DOMAIN NewRef(f, n, r) : NewRef(f, n, r)[i] \in Snapshot
BY DEF SetRef, NewRef

-----------------------------------------------------------------------------
(* The rewinds                                                             *)

LEMMA Ongoing ==
    ASSUME Rewinds, NEW w \in Actors, Rewinding(w)
    PROVE  IsRewind(rewinds[w])
BY DEF Rewinds, Rewinding, None

LEMMA RewindSet ==
    ASSUME Rewinds, NEW w \in Actors, NEW r, r = None \/ IsRewind(r),
           rewinds' = [rewinds EXCEPT ![w] = r]
    PROVE  /\ Rewinds' /\ rewinds'[w] = r
           /\ \A v \in Actors : v # w => rewinds'[v] = rewinds[v]
           /\ Rewinding(w)' <=> r # None
           /\ \A v \in Actors : v # w => (Rewinding(v)' <=> Rewinding(v))
<1>1. rewinds = [v \in Actors |-> rewinds[v]]  BY DEF Rewinds
<1>2. rewinds' = [v \in Actors |-> IF v = w THEN r ELSE rewinds[v]]  BY <1>1
<1>3. rewinds'[w] = r /\ \A v \in Actors : v # w => rewinds'[v] = rewinds[v]  BY <1>2
<1>4. Rewinds'
  <2>1. rewinds' = [v \in Actors |-> rewinds'[v]]  BY <1>2, <1>3
  <2>2. \A v \in Actors : rewinds'[v] = None \/ IsRewind(rewinds'[v])  BY <1>3 DEF Rewinds
  <2> QED  BY <2>1, <2>2 DEF Rewinds, IsRewind, Shape, Snapshot
<1>5. None.step = "none" /\ (IsRewind(r) => r.step # "none")  BY DEF None, IsRewind
<1> QED  BY <1>3, <1>4, <1>5 DEF Rewinding

\* A step of a rewind that goes on.
LEMMA Stepped ==
    ASSUME Rewinds, Quiet, NEW w \in Actors, Rewinding(w), NEW r, IsRewind(r),
           r.k = rewinds[w].k, rewinds' = [rewinds EXCEPT ![w] = r], desk' = desk
    PROVE  Rewinds' /\ Quiet'
<1>1. IsRewind(r) => r # None  BY DEF IsRewind, None
<1>2. Rewinds' /\ \A v \in Actors : (Rewinding(v)' <=> Rewinding(v)) /\ rewinds'[v].k = rewinds[v].k
  BY <1>1, RewindSet
<1>3. "desktop" \in Actors  BY DEF Actors
<1> QED  BY <1>2, <1>3 DEF Quiet

LEMMA Advanced ==
    ASSUME Rewinds, NEW w \in Actors, Rewinding(w),
           NEW step \in {"started", "secured", "restored", "undo", "rewound", "cleaned"},
           step # "started", Advance(w, step)
    PROVE  /\ rewinds' = [rewinds EXCEPT ![w] = [rewinds[w] EXCEPT !.step = step]]
           /\ IsRewind([rewinds[w] EXCEPT !.step = step])
           /\ [rewinds[w] EXCEPT !.step = step].k = rewinds[w].k
<1>1. IsRewind(rewinds[w])  BY Ongoing
<1>2. rewinds' = [rewinds EXCEPT ![w] = [rewinds[w] EXCEPT !.step = step]]  BY DEF Advance
<1> QED  BY <1>1, <1>2 DEF IsRewind

\* One field of a rewind set.
LEMMA FieldSet ==
    ASSUME NEW r, IsRewind(r)
    PROVE  /\ \A s \in {"secured", "rewound"} :
                 LET q == [r EXCEPT !.step = s] IN IsRewind(q) /\ q.k = r.k /\ q.step = s
           /\ \A n \in Int : r.step # "started" =>
                 LET q == [r EXCEPT !.safety = n] IN IsRewind(q) /\ q.k = r.k
           /\ \A x : LET q == [r EXCEPT !.ref = x] IN IsRewind(q) /\ q.k = r.k
           /\ \A x : LET q == [r EXCEPT !.cursor = x] IN IsRewind(q) /\ q.k = r.k
           /\ \A x : LET q == [r EXCEPT !.alone = x] IN IsRewind(q) /\ q.k = r.k
<1>1. r = [step |-> r.step, k |-> r.k, turns |-> r.turns, cursor |-> r.cursor,
           ref |-> r.ref, safety |-> r.safety, alone |-> r.alone]
  BY DEF IsRewind
<1>2. ASSUME NEW s \in {"secured", "rewound"}
      PROVE  LET q == [r EXCEPT !.step = s] IN IsRewind(q) /\ q.k = r.k /\ q.step = s
  <2> DEFINE q == [step |-> s, k |-> r.k, turns |-> r.turns, cursor |-> r.cursor,
            ref |-> r.ref, safety |-> r.safety, alone |-> r.alone]
  <2>1. [r EXCEPT !.step = s] = q  BY <1>1, SMTT(30)
  <2>2. IsRewind(q) /\ q.k = r.k /\ q.step = s  BY DEF IsRewind
  <2> QED  BY <2>1, <2>2, Zenon
<1>3. ASSUME NEW n \in Int, r.step # "started"
      PROVE  LET q == [r EXCEPT !.safety = n] IN IsRewind(q) /\ q.k = r.k
  <2> DEFINE q == [step |-> r.step, k |-> r.k, turns |-> r.turns, cursor |-> r.cursor,
            ref |-> r.ref, safety |-> n, alone |-> r.alone]
  <2>1. [r EXCEPT !.safety = n] = q  BY <1>1, SMTT(30)
  <2>2. IsRewind(q) /\ q.k = r.k  BY <1>3 DEF IsRewind
  <2> QED  BY <2>1, <2>2, Zenon
<1>4. ASSUME NEW x
      PROVE  LET q == [r EXCEPT !.ref = x] IN IsRewind(q) /\ q.k = r.k
  <2> DEFINE q == [step |-> r.step, k |-> r.k, turns |-> r.turns, cursor |-> r.cursor,
            ref |-> x, safety |-> r.safety, alone |-> r.alone]
  <2>1. [r EXCEPT !.ref = x] = q  BY <1>1, SMTT(30)
  <2>2. IsRewind(q) /\ q.k = r.k  BY DEF IsRewind
  <2> QED  BY <2>1, <2>2, Zenon
<1>5. ASSUME NEW x
      PROVE  LET q == [r EXCEPT !.cursor = x] IN IsRewind(q) /\ q.k = r.k
  <2> DEFINE q == [step |-> r.step, k |-> r.k, turns |-> r.turns, cursor |-> x,
            ref |-> r.ref, safety |-> r.safety, alone |-> r.alone]
  <2>1. [r EXCEPT !.cursor = x] = q  BY <1>1, SMTT(30)
  <2>2. IsRewind(q) /\ q.k = r.k  BY DEF IsRewind
  <2> QED  BY <2>1, <2>2, Zenon
<1>6. ASSUME NEW x
      PROVE  LET q == [r EXCEPT !.alone = x] IN IsRewind(q) /\ q.k = r.k
  <2> DEFINE q == [step |-> r.step, k |-> r.k, turns |-> r.turns, cursor |-> r.cursor,
            ref |-> r.ref, safety |-> r.safety, alone |-> x]
  <2>1. [r EXCEPT !.alone = x] = q  BY <1>1, SMTT(30)
  <2>2. IsRewind(q) /\ q.k = r.k  BY DEF IsRewind
  <2> QED  BY <2>1, <2>2, Zenon
<1> QED  BY <1>2, <1>3, <1>4, <1>5, <1>6

LEMMA RewindChanged ==
    ASSUME NEW r, IsRewind(r)
    PROVE  /\ \A ref : \A n \in Int :
                 LET q == [r EXCEPT !.step = "secured", !.safety = n, !.ref = ref]
                 IN IsRewind(q) /\ q.k = r.k
           /\ \A cursor : LET q == [r EXCEPT !.step = "rewound", !.cursor = cursor]
                         IN IsRewind(q) /\ q.k = r.k
           /\ LET q == [r EXCEPT !.alone = FALSE] IN IsRewind(q) /\ q.k = r.k
<1>1. ASSUME NEW ref, NEW n \in Int
      PROVE  LET q == [r EXCEPT !.step = "secured", !.safety = n, !.ref = ref]
             IN IsRewind(q) /\ q.k = r.k
  <2> DEFINE a == [r EXCEPT !.step = "secured"]
             b == [a EXCEPT !.safety = n]
             c == [b EXCEPT !.ref = ref]
  <2>1. [r EXCEPT !.step = "secured", !.safety = n, !.ref = ref] = c  OBVIOUS
  <2>2. IsRewind(a) /\ a.k = r.k /\ a.step = "secured"  BY FieldSet
  <2> HIDE DEF a
  <2>3. IsRewind(b) /\ b.k = r.k  BY <2>2, FieldSet
  <2> HIDE DEF b
  <2>4. IsRewind(c) /\ c.k = r.k
    <3>1. \A x : LET q == [b EXCEPT !.ref = x] IN IsRewind(q) /\ q.k = b.k  BY <2>3, FieldSet
    <3> QED  BY <2>3, <3>1
  <2> QED  BY <2>1, <2>4, Zenon
<1>2. ASSUME NEW cursor
      PROVE  LET q == [r EXCEPT !.step = "rewound", !.cursor = cursor]
             IN IsRewind(q) /\ q.k = r.k
  <2> DEFINE a == [r EXCEPT !.step = "rewound"]
             b == [a EXCEPT !.cursor = cursor]
  <2>1. [r EXCEPT !.step = "rewound", !.cursor = cursor] = b  OBVIOUS
  <2>2. IsRewind(a) /\ a.k = r.k  BY FieldSet
  <2> HIDE DEF a
  <2>3. IsRewind(b) /\ b.k = r.k
    <3>1. \A x : LET q == [a EXCEPT !.cursor = x] IN IsRewind(q) /\ q.k = a.k  BY <2>2, FieldSet
    <3> QED  BY <2>2, <3>1
  <2> QED  BY <2>1, <2>3, Zenon
<1>3. LET q == [r EXCEPT !.alone = FALSE] IN IsRewind(q) /\ q.k = r.k  BY FieldSet
<1> QED  BY <1>1, <1>2, <1>3

\* A rewind that goes on, but is not alone any more.
LEMMA NotAlone ==
    ASSUME Rewinds, NEW w \in Actors,
           rewinds'[w] = IF Rewinding(w) THEN [rewinds[w] EXCEPT !.alone = FALSE] ELSE None
    PROVE  /\ rewinds'[w] = None \/ IsRewind(rewinds'[w])
           /\ Rewinding(w)' <=> Rewinding(w)
           /\ Rewinding(w) => rewinds'[w].k = rewinds[w].k
<1>1. CASE Rewinding(w)
  <2>1. IsRewind(rewinds[w]) /\ rewinds'[w] = [rewinds[w] EXCEPT !.alone = FALSE]
    BY <1>1, Ongoing
  <2>2. IsRewind(rewinds'[w]) /\ rewinds'[w].k = rewinds[w].k  BY <2>1, RewindChanged
  <2>3. IsRewind(rewinds'[w]) => rewinds'[w].step # "none"  BY DEF IsRewind
  <2> QED  BY <1>1, <2>2, <2>3 DEF Rewinding
<1>2. CASE ~Rewinding(w)  BY <1>2 DEF Rewinding, None
<1> QED  BY <1>1, <1>2

\* A rewind that is given up.
LEMMA Aborted ==
    ASSUME Rewinds, Quiet, IsCopy(desk), NEW w \in Actors, Rewinding(w), Abort(w)
    PROVE  Rewinds' /\ Quiet' /\ IsCopy(desk') /\ rewinds'[w] = None
<1>1. rewinds' = [rewinds EXCEPT ![w] = None]  BY DEF Abort
<1>2. /\ Rewinds' /\ rewinds'[w] = None /\ ~Rewinding(w)'
      /\ \A v \in Actors : v # w => rewinds'[v] = rewinds[v] /\ (Rewinding(v)' <=> Rewinding(v))
  BY <1>1, RewindSet
<1>3. desk' = IF w = "desktop" THEN [desk EXCEPT !.status = "Idle"] ELSE desk  BY DEF Abort
<1>4. IsCopy(desk') /\ desk'.turns = desk.turns  BY <1>3, CopyChanged DEF IsCopy
<1>5. IF w = "desktop" THEN desk'.status = "Idle" ELSE desk' = desk  BY <1>3, CopyChanged
<1>6. "desktop" \in Actors  BY DEF Actors
<1> QED  BY <1>2, <1>4, <1>5, <1>6 DEF Quiet

-----------------------------------------------------------------------------
(* Each action keeps the invariant                                         *)

\* What no action of a rewind's middle touches.
Rest == <<edits, begun, stored, captures>>

LEMMA InitOK == Init => RewindInv
<1> SUFFICES ASSUME Init PROVE RewindInv  OBVIOUS
<1>1. Numbers /\ Refs  BY DEF Init, Numbers, Refs
<1>2. desk = [turns |-> <<>>, status |-> "Idle", cursor |-> NoSession] /\ stored = desk
  BY DEF Init
<1>3. Copies  BY <1>2, EmptySeq DEF Copies, IsCopy
<1>4. Captures  BY DEF Init, Captures
<1>5. Rewinds  BY DEF Init, Rewinds
<1>6. Quiet  BY <1>2 DEF Init, Quiet, Rewinding, None, Actors
<1> QED  BY <1>1, <1>3, <1>4, <1>5, <1>6 DEF RewindInv

LEMMA StepKeeps ==
    ASSUME RewindInv, NEW w \in Actors, Step(w) PROVE RewindInv'
<1> USE DEF RewindInv
<1>0. UNCHANGED Rest /\ Rewinding(w)
  BY DEF Step, Rest, Rewinding, TakeSafety, Restore, Fail, Undo, RewindProvider, CleanUp, refs, copies
<1>1. IsRewind(rewinds[w])  BY <1>0, Ongoing
<1>2. Captures' /\ IsCopy(stored')
  BY <1>0 DEF Rest, Captures, Copies, IsCapture, IsCopy
<1>3. CASE TakeSafety(w)
  <2>1. UNCHANGED <<work, starts, ends>>  BY <1>3 DEF TakeSafety, refs
  <2>2. Numbers' /\ Refs'  BY <1>0, <2>1 DEF Rest, Numbers, Refs
  <2>3. CASE Abort(w)
    <3>1. Rewinds' /\ Quiet' /\ IsCopy(desk')  BY <1>0, <2>3, Aborted DEF Copies
    <3> QED  BY <1>2, <2>2, <3>1 DEF Copies
  <2>4. CASE ~Abort(w)
    <3> DEFINE r == [rewinds[w] EXCEPT !.step = "secured", !.safety = work,
                                        !.ref = RestoreRef(rewinds[w].k)]
    <3>1. rewinds' = [rewinds EXCEPT ![w] = r] /\ desk' = desk
      BY <1>3, <2>4 DEF TakeSafety
    <3>2. IsRewind(r) /\ r.k = rewinds[w].k  BY <1>1, RewindChanged DEF Numbers
    <3> HIDE DEF r
    <3>3. Rewinds' /\ Quiet'  BY <1>0, <3>1, <3>2, Stepped
    <3> QED  BY <1>2, <2>2, <3>1, <3>3 DEF Copies, IsCopy
  <2> QED  BY <2>3, <2>4
<1>4. CASE Undo(w)
  <2>1. Abort(w) /\ UNCHANGED <<starts, ends>>  BY <1>4 DEF Undo
  <2>2. work' \in Int  BY <1>1, <1>4 DEF Undo, IsRewind, Torn
  <2>3. Rewinds' /\ Quiet' /\ IsCopy(desk')  BY <1>0, <2>1, Aborted DEF Copies
  <2> QED  BY <1>0, <1>2, <2>1, <2>2, <2>3 DEF Copies, Rest, Numbers, Refs
<1>5. CASE Restore(w) \/ Fail(w) \/ CleanUp(w)
  <2>1. PICK step \in {"restored", "undo", "cleaned"} : Advance(w, step)
    BY <1>5 DEF Restore, Fail, CleanUp
  <2>2. desk' = desk  BY <1>5 DEF Restore, Fail, CleanUp, copies
  <2>3. Rewinds' /\ Quiet'
    <3> DEFINE r == [rewinds[w] EXCEPT !.step = step]
    <3>1. rewinds' = [rewinds EXCEPT ![w] = r] /\ IsRewind(r) /\ r.k = rewinds[w].k
      BY <1>0, <2>1, Advanced
    <3> HIDE DEF r
    <3> QED  BY <1>0, <2>2, <3>1, Stepped
  <2>4. work' \in Int
    <3>1. CASE Restore(w)
      <4>1. work' = work \/ (Exists(rewinds[w]) /\ work' = Commit(rewinds[w]).content)
        BY <3>1 DEF Restore
      <4>2. Exists(rewinds[w]) => Commit(rewinds[w]) \in Snapshot  BY DEF Exists, Commit, Refs
      <4> QED  BY <4>1, <4>2 DEF Snapshot, Numbers
    <3>2. CASE Fail(w)  BY <3>2 DEF Fail, Torn, Numbers
    <3>3. CASE CleanUp(w)  BY <3>3 DEF CleanUp, Numbers
    <3> QED  BY <1>5, <3>1, <3>2, <3>3
  <2>5. Refs'
    <3>1. CASE Restore(w) \/ Fail(w)  BY <3>1 DEF Restore, Fail, refs, Refs
    <3>2. CASE CleanUp(w)  BY <3>2 DEF CleanUp, Refs, Restrict
    <3> QED  BY <1>5, <3>1, <3>2
  <2> QED  BY <1>0, <1>2, <2>2, <2>3, <2>4, <2>5 DEF Copies, IsCopy, Rest, Numbers
<1>6. CASE RewindProvider(w)
  <2> DEFINE r == [rewinds[w] EXCEPT !.step = "rewound", !.cursor = NextCursor(rewinds[w])]
  <2>1. rewinds' = [rewinds EXCEPT ![w] = r]  BY <1>6 DEF RewindProvider
  <2>2. IsRewind(r) /\ r.k = rewinds[w].k  BY <1>1, RewindChanged
  <2>3. UNCHANGED <<work, starts, ends, desk>>  BY <1>6 DEF RewindProvider, refs, copies
  <2> HIDE DEF r
  <2>4. Rewinds' /\ Quiet'  BY <1>0, <2>1, <2>2, <2>3, Stepped
  <2> QED  BY <1>0, <1>2, <2>3, <2>4 DEF Copies, IsCopy, Rest, Numbers, Refs
<1> QED  BY <1>3, <1>4, <1>5, <1>6 DEF Step

-----------------------------------------------------------------------------
(* The actions of the desktop, and of its saves                            *)

LEMMA OnLastKeeps ==
    ASSUME IsCopy(desk), desk.turns # <<>>, NEW turn \in Shape
    PROVE  /\ IsCopy(OnLast(turn)) /\ OnLast(turn).status = desk.status
           /\ OnLast(turn).turns \in Seq(Shape)
           /\ Len(OnLast(turn).turns) = Len(desk.turns)
           /\ OnLast(turn).turns[Len(desk.turns)] = turn
           /\ \A i \in DOMAIN desk.turns : i # Len(desk.turns) =>
                 OnLast(turn).turns[i] = desk.turns[i]
<1> DEFINE q == [desk.turns EXCEPT ![Len(desk.turns)] = turn]
<1>1. /\ desk.turns \in Seq(Shape) /\ Len(desk.turns) \in DOMAIN desk.turns
      /\ DOMAIN desk.turns = 1..Len(desk.turns)
  BY TurnsOf DEF IsCopy
<1>2. q \in Seq(Shape) /\ Len(q) = Len(desk.turns)  BY <1>1
<1>3. q[Len(desk.turns)] = turn
      /\ \A i \in DOMAIN desk.turns : i # Len(desk.turns) => q[i] = desk.turns[i]
  BY <1>1
<1>4. OnLast(turn) = [desk EXCEPT !.turns = q]  BY DEF OnLast
<1> HIDE DEF q
<1>5. IsCopy([desk EXCEPT !.turns = q]) /\ [desk EXCEPT !.turns = q].turns = q
      /\ [desk EXCEPT !.turns = q].status = desk.status
  BY <1>2, CopyChanged
<1> QED  BY <1>2, <1>3, <1>4, <1>5

LEMMA WithTurnKeeps ==
    ASSUME NEW c, IsCopy(c), NEW id \in Nat
    PROVE  /\ IsCopy(WithTurn(c, id)) /\ WithTurn(c, id).status = "Connecting"
           /\ WithTurn(c, id).turns \in Seq(Shape)
           /\ Len(WithTurn(c, id).turns) = Len(c.turns) + 1
           /\ \A i \in DOMAIN c.turns : WithTurn(c, id).turns[i] = c.turns[i]
<1> DEFINE turn == [id |-> id, running |-> TRUE, told |-> FALSE, base |-> Unknown, check |-> {}]
           q == Append(c.turns, turn)
           a == [c EXCEPT !.status = "Connecting"]
           b == [a EXCEPT !.turns = q]
<1>1. turn \in Shape  BY DEF Shape, Unknown
<1>2. c.turns \in Seq(Shape)  BY DEF IsCopy
<1> HIDE DEF turn
<1>3. /\ q \in Seq(Shape) /\ Len(q) = Len(c.turns) + 1
      /\ \A i \in DOMAIN c.turns : q[i] = c.turns[i]
  BY <1>1, <1>2
<1>4. [c EXCEPT !.status = "Connecting", !.turns = q] = b  OBVIOUS
<1>5. WithTurn(c, id) = [c EXCEPT !.status = "Connecting", !.turns = q]
  BY DEF WithTurn, turn
<1> HIDE DEF q
<1>6. IsCopy(a) /\ a.status = "Connecting"
  <2>1. \A x : LET d == [c EXCEPT !.status = x] IN IsCopy(d) /\ d.turns = c.turns /\ d.status = x
    BY CopyChanged
  <2> QED  BY <2>1
<1> HIDE DEF a
<1>7. IsCopy(b) /\ b.turns = q /\ b.status = "Connecting"  BY <1>3, <1>6, CopyChanged
<1> HIDE DEF b
<1>8. WithTurn(c, id) = b  BY <1>4, <1>5
<1> QED  BY <1>3, <1>7, <1>8

\* A change of the last turn of the desktop's copy, which still runs if it ran.
LEMMA LastChanged ==
    ASSUME Rewinds, Quiet, IsCopy(desk), desk.turns # <<>>, NEW turn \in Shape,
           ~Rewinding("desktop")', IsCopy(desk'), desk'.turns = OnLast(turn).turns,
           turn.running => desk'.status # "Idle"
    PROVE  Quiet'
<1>2. Len(desk'.turns) = Len(desk.turns) /\ DOMAIN desk'.turns = DOMAIN desk.turns
  BY OnLastKeeps, TurnsOf DEF IsCopy
<1>3. \A i \in DOMAIN desk'.turns :
          IF i = Len(desk.turns) THEN desk'.turns[i] = turn ELSE desk'.turns[i] = desk.turns[i]
  BY <1>2, OnLastKeeps
<1>4. \A i \in DOMAIN desk'.turns : desk'.turns[i].running =>
          i = Len(desk'.turns) /\ desk'.status # "Idle"
  BY <1>2, <1>3 DEF Quiet
<1>5. desk'.turns # <<>>  BY <1>2, EmptySeq, TurnsOf DEF IsCopy
<1> QED  BY <1>4, <1>5 DEF Quiet

LEMMA EditKeeps == ASSUME RewindInv, Edit PROVE RewindInv'
<1> USE DEF RewindInv
<1>1. rewinds' = [w \in Actors |-> IF Rewinding(w) THEN [rewinds[w] EXCEPT !.alone = FALSE] ELSE None]
  BY DEF Edit
<1>2. ASSUME NEW w \in Actors
      PROVE  /\ rewinds'[w] = None \/ IsRewind(rewinds'[w])
             /\ Rewinding(w)' <=> Rewinding(w)
             /\ Rewinding(w) => rewinds'[w].k = rewinds[w].k
  BY <1>1, NotAlone
<1>3. Rewinds'
  <2>1. rewinds' = [w \in Actors |-> rewinds'[w]]  BY <1>1
  <2> QED  BY <1>2, <2>1 DEF Rewinds, IsRewind, Shape, Snapshot
<1>4. Quiet'  BY <1>1, <1>2 DEF Quiet, Edit, copies, Actors
<1>5. Numbers' /\ Refs' /\ Captures' /\ Copies'
  BY DEF Edit, Numbers, Refs, Captures, Copies, refs, copies, IsCapture, IsCopy
<1> QED  BY <1>3, <1>4, <1>5

LEMMA SubmitKeeps == ASSUME RewindInv, Submit PROVE RewindInv'
<1> USE DEF RewindInv
<1>1. /\ begun + 1 \in Nat /\ desk' = WithTurn(desk, begun + 1) /\ begun' = begun + 1
      /\ desk.status = "Idle" /\ IsCopy(desk)
  BY DEF Submit, Numbers, Copies
<1>2. UNCHANGED <<work, edits, starts, ends, stored, captures, rewinds>>  BY DEF Submit, refs
<1>3. ~Rewinding("desktop") /\ \A i \in DOMAIN desk.turns : ~desk.turns[i].running
  BY <1>1 DEF Quiet
<1>4. /\ IsCopy(desk') /\ desk'.status = "Connecting"
      /\ DOMAIN desk.turns = 1..Len(desk.turns) /\ Len(desk.turns) \in Nat
      /\ DOMAIN desk'.turns = 1..Len(desk.turns) + 1 /\ Len(desk'.turns) = Len(desk.turns) + 1
      /\ \A i \in DOMAIN desk.turns : desk'.turns[i] = desk.turns[i]
  BY <1>1, WithTurnKeeps, TurnsOf DEF IsCopy
<1>5. Quiet'  BY <1>2, <1>3, <1>4 DEF Quiet, Rewinding
<1> QED
  BY <1>1, <1>2, <1>4, <1>5
  DEF Numbers, Refs, Copies, Captures, Rewinds, IsCopy, IsCapture, IsRewind, Shape, Snapshot

\* A turn that is being prepared or at work is the last one, and no rewind of
\* the desktop runs beside it.
LEMMA LastRuns ==
    ASSUME RewindInv, Preparing
    PROVE  /\ desk.turns # <<>> /\ IsCopy(desk) /\ Last(desk.turns) \in Shape
           /\ ~Rewinding("desktop") /\ Len(desk.turns) \in DOMAIN desk.turns
<1>1. IsCopy(desk) /\ desk.turns # <<>> /\ Last(desk.turns).running
  BY DEF RewindInv, Copies, Preparing
<1>2. /\ Len(desk.turns) \in DOMAIN desk.turns /\ Last(desk.turns) = desk.turns[Len(desk.turns)]
      /\ Last(desk.turns) \in Shape
  BY <1>1, TurnsOf DEF IsCopy
<1> QED  BY <1>1, <1>2 DEF RewindInv, Quiet

LEMMA CaptureTurnStartKeeps == ASSUME RewindInv, CaptureTurnStart PROVE RewindInv'
<1> DEFINE turn == [Last(desk.turns) EXCEPT !.base = work]
<1>1. /\ Preparing /\ desk' = OnLast(turn) /\ Snapshots(Len(desk.turns), Last(desk.turns).id)
      /\ UNCHANGED <<work, edits, begun, stored, captures, rewinds>>
  BY DEF CaptureTurnStart
<1>2. /\ desk.turns # <<>> /\ IsCopy(desk) /\ Last(desk.turns) \in Shape
      /\ ~Rewinding("desktop") /\ Len(desk.turns) \in DOMAIN desk.turns
  BY <1>1, LastRuns
<1>3. work \in Int /\ Last(desk.turns).id \in Nat  BY <1>2 DEF Shape, RewindInv, Numbers
<1>4. turn \in Shape  BY <1>2, <1>3, Changed
<1> HIDE DEF turn
<1>5. IsCopy(desk') /\ desk'.status = desk.status /\ desk'.turns = OnLast(turn).turns
  BY <1>1, <1>2, <1>4, OnLastKeeps
<1>6. Quiet'
  <2>1. desk.status # "Idle"  BY <1>1 DEF Preparing
  <2> QED  BY <1>1, <1>2, <1>4, <1>5, <2>1, LastChanged DEF RewindInv, Rewinding
<1>7. Refs'
  <2> DEFINE r == [content |-> work, turn |-> Last(desk.turns).id]
             b == [content |-> work, turn |-> 0]
  <2>1. r \in Snapshot /\ b \in Snapshot  BY <1>3 DEF Snapshot
  <2>2. starts' = SetRef(starts, Len(desk.turns), r) /\ ends' = NewRef(ends, Len(desk.turns) - 1, b)
    BY <1>1 DEF Snapshots
  <2> HIDE DEF r, b
  <2> QED  BY <2>1, <2>2, RefSet DEF RewindInv, Refs
<1> QED
  BY <1>1, <1>5, <1>6, <1>7
  DEF RewindInv, Numbers, Copies, Captures, Rewinds, IsCopy, IsCapture, IsRewind, Shape, Snapshot

LEMMA PromptKeeps == ASSUME RewindInv, Prompt PROVE RewindInv'
<1> DEFINE turn == [Last(desk.turns) EXCEPT !.told = TRUE]
<1>1. PICK cursor : desk' = [OnLast(turn) EXCEPT !.status = "Working", !.cursor = cursor]
  BY DEF Prompt
<1>2. Preparing /\ UNCHANGED <<work, edits, begun, starts, ends, stored, captures, rewinds>>
  BY DEF Prompt, refs
<1>3. /\ desk.turns # <<>> /\ IsCopy(desk) /\ Last(desk.turns) \in Shape
      /\ ~Rewinding("desktop") /\ Len(desk.turns) \in DOMAIN desk.turns
  BY <1>2, LastRuns
<1>4. turn \in Shape  BY <1>3, Changed
<1> HIDE DEF turn
<1>5. IsCopy(desk') /\ desk'.status = "Working" /\ desk'.turns = OnLast(turn).turns
  <2> DEFINE a == [OnLast(turn) EXCEPT !.status = "Working"]
             b == [a EXCEPT !.cursor = cursor]
  <2>1. desk' = b  BY <1>1
  <2>2. IsCopy(OnLast(turn))  BY <1>3, <1>4, OnLastKeeps
  <2>3. IsCopy(a) /\ a.turns = OnLast(turn).turns /\ a.status = "Working"  BY <2>2, CopyChanged
  <2> HIDE DEF a
  <2>4. IsCopy(b) /\ b.turns = a.turns /\ b.status = a.status  BY <2>3, CopyChanged
  <2> HIDE DEF b
  <2> QED  BY <2>1, <2>3, <2>4 DEF IsCopy
<1>6. Quiet'  BY <1>2, <1>3, <1>4, <1>5, LastChanged DEF RewindInv, Rewinding
<1> QED
  BY <1>2, <1>5, <1>6
  DEF RewindInv, Numbers, Refs, Copies, Captures, Rewinds, IsCopy, IsCapture, IsRewind, Shape, Snapshot

LEMMA RequestedKeeps ==
    ASSUME Captures, NEW n, NEW id \in Nat
    PROVE  \A c \in Requested(n, id) : IsCapture(c)
BY DEF Captures, Requested, IsCapture

\* The turn that runs ends, and its checkpoint is asked for.
LEMMA LastEnds ==
    ASSUME RewindInv, desk.turns # <<>>, ~Rewinding("desktop")',
           desk' = [OnLast([Last(desk.turns) EXCEPT !.running = FALSE]) EXCEPT !.status = "Idle"]
    PROVE  /\ IsCopy(desk') /\ Quiet' /\ Last(desk.turns).id \in Nat
           /\ \A c \in Requested(Len(desk.turns), Last(desk.turns).id) : IsCapture(c)
<1> DEFINE turn == [Last(desk.turns) EXCEPT !.running = FALSE]
<1>1. IsCopy(desk) /\ Last(desk.turns) \in Shape  BY TurnsOf DEF RewindInv, Copies, IsCopy
<1>2. turn \in Shape /\ turn.running = FALSE /\ Last(desk.turns).id \in Nat
  BY <1>1, Changed DEF Shape
<1> HIDE DEF turn
<1>3. desk' = [OnLast(turn) EXCEPT !.status = "Idle"]  BY DEF turn
<1>4. IsCopy(desk') /\ desk'.turns = OnLast(turn).turns
  <2>1. IsCopy(OnLast(turn))  BY <1>1, <1>2, OnLastKeeps
  <2>2. LET d == [OnLast(turn) EXCEPT !.status = "Idle"]
        IN IsCopy(d) /\ d.turns = OnLast(turn).turns
    BY <2>1, CopyChanged
  <2> QED  BY <1>3, <2>2 DEF IsCopy
<1>5. Quiet'  BY <1>1, <1>2, <1>4, LastChanged DEF RewindInv
<1> QED  BY <1>2, <1>4, <1>5, RequestedKeeps DEF RewindInv

LEMMA EndTurnKeeps == ASSUME RewindInv, EndTurn PROVE RewindInv'
<1>1. UNCHANGED <<work, edits, begun, starts, ends, stored, rewinds>>  BY DEF EndTurn, refs
<1>2. /\ desk' = [OnLast([Last(desk.turns) EXCEPT !.running = FALSE]) EXCEPT !.status = "Idle"]
      /\ captures' = Requested(Len(desk.turns), Last(desk.turns).id)
  BY DEF EndTurn
<1>3. desk.turns # <<>> /\ ~Rewinding("desktop")
  <2>1. CASE Preparing  BY <2>1, LastRuns
  <2>2. CASE desk.status = "Working"  BY <2>2 DEF RewindInv, Quiet
  <2> QED  BY <2>1, <2>2 DEF EndTurn
<1>4. IsCopy(desk') /\ Quiet' /\ \A c \in captures' : IsCapture(c)
  BY <1>1, <1>2, <1>3, LastEnds DEF Rewinding
<1> QED
  BY <1>1, <1>4
  DEF RewindInv, Numbers, Refs, Copies, Captures, Rewinds, IsCopy, IsCapture, IsRewind, Shape, Snapshot

-----------------------------------------------------------------------------
(* Saves and checkpoints                                                   *)

\* A save of a copy keeps the checkpoints the daemon has in memory.
LEMMA PreservedKeeps ==
    ASSUME NEW c, IsCopy(c), IsCopy(stored)
    PROVE  /\ IsCopy(Preserved(c)) /\ Len(Preserved(c).turns) = Len(c.turns)
           /\ \A i \in DOMAIN c.turns \cap DOMAIN stored.turns :
                 resident /\ stored.turns[i].check # {} =>
                     Preserved(c).turns[i].check = stored.turns[i].check
<1> DEFINE f(i) == IF resident /\ i \in DOMAIN stored.turns /\ stored.turns[i].check # {}
                   THEN [c.turns[i] EXCEPT !.check = stored.turns[i].check] ELSE c.turns[i]
           q == [i \in DOMAIN c.turns |-> f(i)]
<1>1. /\ \A i \in DOMAIN c.turns : c.turns[i] \in Shape
      /\ \A i \in DOMAIN stored.turns : stored.turns[i] \in Shape
      /\ Len(c.turns) \in Nat /\ DOMAIN c.turns = 1..Len(c.turns)
  BY TurnsOf DEF IsCopy
<1>2. ASSUME NEW i \in DOMAIN c.turns
      PROVE  /\ f(i) \in Shape
             /\ resident /\ i \in DOMAIN stored.turns /\ stored.turns[i].check # {} =>
                    f(i).check = stored.turns[i].check
  <2>1. \A d \in SUBSET Snapshot :
            [c.turns[i] EXCEPT !.check = d] \in Shape /\ [c.turns[i] EXCEPT !.check = d].check = d
    BY <1>1, Changed
  <2>2. \A j \in DOMAIN stored.turns : stored.turns[j].check \in SUBSET Snapshot
    BY <1>1 DEF Shape
  <2> QED  BY <1>1, <2>1, <2>2
<1> HIDE DEF f
<1>3. q \in Seq(Shape) /\ Len(q) = Len(c.turns)
  <2>1. q \in [1..Len(c.turns) -> Shape]  BY <1>1, <1>2
  <2> QED  BY <1>1, <2>1, ASequence
<1>4. Preserved(c) = [c EXCEPT !.turns = q]  BY DEF Preserved, f
<1>5. \A i \in DOMAIN c.turns : q[i] = f(i)  OBVIOUS
<1> HIDE DEF q
<1>6. IsCopy(Preserved(c)) /\ Preserved(c).turns = q  BY <1>3, <1>4, CopyChanged
<1> QED  BY <1>2, <1>3, <1>5, <1>6

\* One checkpoint of a copy set.
LEMMA CheckSet ==
    ASSUME NEW c, IsCopy(c), NEW i \in DOMAIN c.turns, NEW d \in SUBSET Snapshot
    PROVE  LET e == [c EXCEPT !.turns[i].check = d]
           IN /\ IsCopy(e) /\ e.status = c.status /\ Len(e.turns) = Len(c.turns)
              /\ e.turns[i].check = d
              /\ \A j \in DOMAIN c.turns : /\ e.turns[j].running = c.turns[j].running
                                           /\ j # i => e.turns[j] = c.turns[j]
<1> DEFINE turn == [c.turns[i] EXCEPT !.check = d]
           q == [c.turns EXCEPT ![i] = turn]
<1>1. c.turns \in Seq(Shape) /\ c.turns[i] \in Shape  BY TurnsOf DEF IsCopy
<1>2. turn \in Shape /\ turn.check = d /\ turn.running = c.turns[i].running  BY <1>1, Changed
<1>3. [c EXCEPT !.turns[i].check = d] = [c EXCEPT !.turns = q]  OBVIOUS
<1> HIDE DEF turn
<1>4. /\ q \in Seq(Shape) /\ Len(q) = Len(c.turns) /\ q[i] = turn
      /\ \A j \in DOMAIN c.turns : j # i => q[j] = c.turns[j]
  BY <1>1, <1>2
<1> HIDE DEF q
<1>5. LET e == [c EXCEPT !.turns = q] IN IsCopy(e) /\ e.turns = q /\ e.status = c.status
  BY <1>4, CopyChanged
<1> QED  BY <1>2, <1>3, <1>4, <1>5

LEMMA SaveKeeps == ASSUME RewindInv, Save \/ SaveStale \/ Trim PROVE RewindInv'
<1>1. UNCHANGED <<work, edits, begun, starts, ends, desk, captures, rewinds>>
  BY DEF Save, SaveStale, Trim, refs
<1>2. IsCopy(stored')
  <2>1. IsCopy(desk) /\ IsCopy(stored)  BY DEF RewindInv, Copies
  <2>2. CASE Save  BY <2>1, <2>2, PreservedKeeps DEF Save, IsCopy
  <2>3. CASE SaveStale
    <3>1. PICK i \in DOMAIN stored.turns : stored' = Preserved([stored EXCEPT !.turns[i].check = {}])
      BY <2>3 DEF SaveStale
    <3>2. IsCopy([stored EXCEPT !.turns[i].check = {}])  BY <2>1, CheckSet
    <3> QED  BY <2>1, <3>1, <3>2, PreservedKeeps DEF IsCopy
  <2>4. CASE Trim  BY <2>1, <2>4 DEF Trim, IsCopy
  <2> QED  BY <2>2, <2>3, <2>4
<1> QED
  BY <1>1, <1>2
  DEF RewindInv, Numbers, Refs, Copies, Captures, Rewinds, Quiet, Rewinding, IsCopy, IsCapture,
      IsRewind, Shape, Snapshot

\* A request that goes on.
LEMMA CaptureChanged ==
    ASSUME NEW c, IsCapture(c)
    PROVE  /\ \A s : s # "captured" => IsCapture([c EXCEPT !.step = s])
           /\ \A s : \A d \in SUBSET Snapshot : s # "captured" \/ d # {} =>
                 IsCapture([c EXCEPT !.step = s, !.found = d])
           /\ IsCapture([c EXCEPT !.wanted = FALSE])
<1>1. /\ c = [count |-> c.count, turn |-> c.turn, step |-> c.step, found |-> c.found,
              wanted |-> c.wanted]
      /\ c.turn \in Nat /\ c.found \in SUBSET Snapshot
  BY DEF IsCapture
<1>2. \A x : [c EXCEPT !.step = x] = [count |-> c.count, turn |-> c.turn, step |-> x,
                                     found |-> c.found, wanted |-> c.wanted]
  BY <1>1
<1>3. ASSUME NEW x, NEW y
      PROVE  [c EXCEPT !.step = x, !.found = y]
                 = [count |-> c.count, turn |-> c.turn, step |-> x, found |-> y, wanted |-> c.wanted]
  <2> DEFINE a == [count |-> c.count, turn |-> c.turn, step |-> x, found |-> c.found,
                   wanted |-> c.wanted]
  <2>1. [c EXCEPT !.step = x, !.found = y] = [[c EXCEPT !.step = x] EXCEPT !.found = y]
    OBVIOUS
  <2>2. [c EXCEPT !.step = x] = a  BY <1>2
  <2>3. [a EXCEPT !.found = y] = [count |-> c.count, turn |-> c.turn, step |-> x, found |-> y,
                                  wanted |-> c.wanted]
    OBVIOUS
  <2> QED  BY <2>1, <2>2, <2>3, Zenon
<1>4. \A x : [c EXCEPT !.wanted = x] = [count |-> c.count, turn |-> c.turn, step |-> c.step,
                                     found |-> c.found, wanted |-> x]
  BY <1>1
<1>5. \A s : s # "captured" => IsCapture([c EXCEPT !.step = s])  BY <1>1, <1>2 DEF IsCapture
<1>6. \A s : \A d \in SUBSET Snapshot : s # "captured" \/ d # {} =>
          IsCapture([c EXCEPT !.step = s, !.found = d])
  BY <1>1, <1>3 DEF IsCapture
<1>7. IsCapture([c EXCEPT !.wanted = FALSE])
  <2>1. \A x : IsCapture([c EXCEPT !.wanted = x])  BY <1>1, <1>4 DEF IsCapture
  <2> QED  BY <2>1
<1> QED  BY <1>5, <1>6, <1>7

LEMMA Became == ASSUME Captures, NEW c \in captures, NEW d, IsCapture(d), Becomes(c, d)
                PROVE  Captures'
<1>1. \A e \in captures' : IsCapture(e)  BY DEF Captures, Becomes
<1> QED  BY <1>1 DEF Captures, IsCapture, Snapshot

LEMMA CaptureKeeps == ASSUME RewindInv, NEW c \in captures, Capture(c) PROVE RewindInv'
<1>1. UNCHANGED <<work, edits, begun, starts, rewinds>>
  BY DEF Capture, FindCheckpoint, CaptureTurn, StoreCheckpoint, FailCapture, AttachCheckpoint, refs
<1>2. IsCapture(c) /\ IsCopy(desk) /\ IsCopy(stored) /\ Captures
  BY DEF RewindInv, Captures, Copies
<1>3. c.found \in SUBSET Snapshot  BY <1>2 DEF IsCapture
<1>4. CASE FindCheckpoint(c) \/ FailCapture(c)
  <2>1. StoredCheck(c.count) \in SUBSET Snapshot  BY <1>2, TurnsOf DEF StoredCheck, IsCopy, Shape
  <2>2. PICK d : Becomes(c, d) /\ IsCapture(d)
    <3>1. CASE FindCheckpoint(c)
      BY <1>2, <2>1, <3>1, CaptureChanged DEF FindCheckpoint
    <3>2. CASE FailCapture(c)  BY <1>2, <3>2, CaptureChanged DEF FailCapture
    <3> QED  BY <1>4, <3>1, <3>2
  <2>3. Captures'  BY <1>2, <2>2, Became
  <2>4. UNCHANGED <<ends, desk, stored>>  BY <1>4 DEF FindCheckpoint, FailCapture, refs, copies
  <2> QED
    BY <1>1, <2>3, <2>4
    DEF RewindInv, Numbers, Refs, Copies, Rewinds, Quiet, Rewinding, IsCopy, IsRewind, Shape, Snapshot
<1>5. CASE CaptureTurn(c)
  <2> DEFINE r == [content |-> work, turn |-> c.turn]
             d == [c EXCEPT !.step = "captured", !.found = {r}]
  <2>1. ends' = SetRef(ends, c.count, r) /\ Becomes(c, d) /\ UNCHANGED <<desk, stored>>
    BY <1>5 DEF CaptureTurn, copies
  <2>2. r \in Snapshot  BY <1>2 DEF Snapshot, IsCapture, RewindInv, Numbers
  <2> HIDE DEF r
  <2>3. IsCapture(d)  BY <1>2, <2>2, CaptureChanged
  <2> HIDE DEF d
  <2>4. Captures'  BY <1>2, <2>1, <2>3, Became
  <2>5. Refs'  BY <1>1, <2>1, <2>2, RefSet DEF RewindInv, Refs
  <2> QED
    BY <1>1, <2>1, <2>4, <2>5
    DEF RewindInv, Numbers, Copies, Rewinds, Quiet, Rewinding, IsCopy, IsRewind, Shape, Snapshot
<1>6. CASE StoreCheckpoint(c)
  <2>1. UNCHANGED <<ends, desk>> /\ Becomes(c, [c EXCEPT !.step = "answered"])
    BY <1>6 DEF StoreCheckpoint, refs
  <2>2. Captures'
    <3>1. IsCapture([c EXCEPT !.step = "answered"])  BY <1>2, CaptureChanged
    <3> QED  BY <1>2, <2>1, <3>1, Became
  <2>3. IsCopy(stored')  BY <1>2, <1>3, <1>6, CheckSet DEF StoreCheckpoint, IsCopy
  <2> QED
    BY <1>1, <2>1, <2>2, <2>3
    DEF RewindInv, Numbers, Refs, Copies, Rewinds, Quiet, Rewinding, IsCopy, IsRewind, Shape, Snapshot
<1>7. CASE AttachCheckpoint(c)
  <2>1. captures' = captures \ {c} /\ UNCHANGED <<ends, stored>>  BY <1>7 DEF AttachCheckpoint, refs
  <2>2. Captures'  BY <1>2, <2>1 DEF Captures, IsCapture, Snapshot
  <2>3. CASE desk' = desk
    BY <1>1, <2>1, <2>2, <2>3
    DEF RewindInv, Numbers, Refs, Copies, Rewinds, Quiet, Rewinding, IsCopy, IsRewind, Shape, Snapshot
  <2>4. CASE desk' # desk
    <3>1. c.count \in DOMAIN desk.turns /\ desk' = [desk EXCEPT !.turns[c.count].check = c.found]
      BY <1>7, <2>4 DEF AttachCheckpoint
    <3>2. /\ IsCopy(desk') /\ desk'.status = desk.status /\ Len(desk'.turns) = Len(desk.turns)
          /\ \A j \in DOMAIN desk.turns : desk'.turns[j].running = desk.turns[j].running
      <4>1. LET e == [desk EXCEPT !.turns[c.count].check = c.found]
            IN /\ IsCopy(e) /\ e.status = desk.status /\ Len(e.turns) = Len(desk.turns)
               /\ \A j \in DOMAIN desk.turns : e.turns[j].running = desk.turns[j].running
        BY <1>2, <1>3, <3>1, CheckSet
      <4> QED  BY <3>1, <4>1 DEF IsCopy
    <3>3. DOMAIN desk'.turns = DOMAIN desk.turns /\ desk'.turns # <<>>
      BY <1>2, <3>1, <3>2, TurnsOf, EmptySeq DEF IsCopy
    <3>4. Quiet'  BY <1>1, <3>2, <3>3 DEF RewindInv, Quiet, Rewinding
    <3> QED
      BY <1>1, <2>1, <2>2, <3>2, <3>4
      DEF RewindInv, Numbers, Refs, Copies, Rewinds, IsCopy, IsRewind, Shape, Snapshot
  <2> QED  BY <2>3, <2>4
<1> QED  BY <1>4, <1>5, <1>6, <1>7 DEF Capture

-----------------------------------------------------------------------------
(* A rewind begins and ends                                                *)

LEMMA StartKeeps == ASSUME RewindInv, NEW w \in Actors, NEW k, Start(w, k) PROVE RewindInv'
<1> DEFINE rewind(b) ==
              [step |-> "started", k |-> k, turns |-> Source(w).turns, cursor |-> Source(w).cursor,
               ref |-> None, safety |-> Unknown, alone |-> b]
           b0 == UpToDate(Source(w)) /\ ~\E v \in Actors : Rewinding(v)
<1>1. /\ UNCHANGED <<work, edits, begun, starts, ends, stored, captures>>
      /\ Source(w).status = "Idle" /\ ~Rewinding(w) /\ k \in DOMAIN Source(w).turns
      /\ desk' = IF w = "desktop" THEN [desk EXCEPT !.status = "Connecting"] ELSE desk
  BY DEF Start, refs
<1>2. rewinds' = [v \in Actors |-> IF v = w THEN rewind(b0)
                                   ELSE IF Rewinding(v) THEN [rewinds[v] EXCEPT !.alone = FALSE]
                                   ELSE None]
  BY Zenon DEF Start
<1> HIDE DEF b0
<1>3. IsCopy(desk) /\ IsCopy(stored) /\ IsCopy(Source(w))  BY DEF RewindInv, Copies, Source
<1>4. Source(w).turns \in Seq(Shape) /\ k \in 1..Len(Source(w).turns)
  BY <1>1, <1>3, TurnsOf DEF IsCopy
<1>5. IsRewind(rewind(b0))  BY <1>4 DEF IsRewind, Unknown
<1>6. rewind(b0).k = k /\ rewind(b0).step # "none"  OBVIOUS
<1> HIDE DEF rewind
<1>7. rewinds'[w] = rewind(b0) /\ Rewinding(w)'  BY <1>2, <1>6 DEF Rewinding
<1>8. ASSUME NEW v \in Actors, v # w
      PROVE  /\ rewinds'[v] = None \/ IsRewind(rewinds'[v])
             /\ Rewinding(v)' <=> Rewinding(v)
             /\ Rewinding(v) => rewinds'[v].k = rewinds[v].k
  BY <1>2, <1>8, NotAlone DEF RewindInv
<1>9. Rewinds'
  <2>1. rewinds' = [v \in Actors |-> rewinds'[v]]  BY <1>2
  <2> QED  BY <1>5, <1>7, <1>8, <2>1 DEF Rewinds, IsRewind, Shape, Snapshot
<1>10. IsCopy(desk') /\ desk'.turns = desk.turns  BY <1>1, <1>3, CopyChanged DEF IsCopy
<1>11. Quiet'
  <2>1. "desktop" \in Actors  BY DEF Actors
  <2>2. CASE w = "desktop"
    <3>1. desk'.status = "Connecting" /\ desk.status = "Idle" /\ desk' = [desk EXCEPT !.status = "Connecting"]
      BY <1>1, <1>3, <2>2, CopyChanged DEF Source
    <3>2. \A i \in DOMAIN desk.turns : ~desk.turns[i].running  BY <3>1 DEF RewindInv, Quiet
    <3>3. rewinds'["desktop"].k <= Len(desk.turns)  BY <1>4, <1>6, <1>7, <1>3, TurnsOf, <2>2 DEF Source, IsCopy
    <3> QED  BY <1>7, <1>10, <2>2, <3>1, <3>2, <3>3 DEF Quiet
  <2>3. CASE w # "desktop"  BY <1>1, <1>8, <2>1, <2>3 DEF RewindInv, Quiet
  <2> QED  BY <2>2, <2>3
<1> QED
  BY <1>1, <1>9, <1>10, <1>11
  DEF RewindInv, Numbers, Refs, Copies, Captures, IsCopy, IsCapture, Shape, Snapshot

\* The turns before the one a rewind goes back to.
LEMMA Cut ==
    ASSUME NEW q \in Seq(Shape), NEW k \in 1..Len(q)
    PROVE  /\ SubSeq(q, 1, k - 1) \in Seq(Shape) /\ Len(SubSeq(q, 1, k - 1)) = k - 1
           /\ \A i \in DOMAIN SubSeq(q, 1, k - 1) : SubSeq(q, 1, k - 1)[i] = q[i] /\ i \in DOMAIN q
<1>1. Len(q) \in Nat /\ DOMAIN q = 1..Len(q)  BY TurnsOf
<1>2. \A i \in 1..k - 1 : q[i] \in Shape  BY <1>1, TurnsOf
<1>3. SubSeq(q, 1, k - 1) = [i \in 1..k - 1 |-> q[i]]
  BY <1>1
<1>4. [i \in 1..k - 1 |-> q[i]] \in [1..k - 1 -> Shape]  BY <1>2
<1>5. k - 1 \in Nat  BY <1>1
<1> QED  BY <1>1, <1>3, <1>4, <1>5, ASequence

LEMMA FinishDesktopKeeps == ASSUME RewindInv, FinishDesktop PROVE RewindInv'
<1> DEFINE r == rewinds["desktop"]
           q == SubSeq(desk.turns, 1, r.k - 1)
           a == [desk EXCEPT !.turns = q]
           b == [a EXCEPT !.status = "Idle"]
           c == [b EXCEPT !.cursor = r.cursor]
<1>1. "desktop" \in Actors /\ Rewinding("desktop")  BY DEF FinishDesktop, HandsOver, Rewinding, Actors
<1>2. /\ UNCHANGED <<work, edits, starts, ends, stored, captures>>
      /\ rewinds' = [rewinds EXCEPT !["desktop"] = None]
  BY DEF FinishDesktop, HandsOver, refs
<1>3. \/ desk' = c /\ begun' = begun
      \/ desk' = WithTurn(c, begun + 1) /\ begun' = begun + 1
  <2>1. [desk EXCEPT !.turns = q, !.status = "Idle", !.cursor = r.cursor] = c  OBVIOUS
  <2> QED  BY <2>1 DEF FinishDesktop
<1>4. Rewinds' /\ ~Rewinding("desktop")'  BY <1>1, <1>2, RewindSet DEF RewindInv
<1>5. IsRewind(r) /\ IsCopy(desk) /\ r.k <= Len(desk.turns)
  BY <1>1, Ongoing DEF RewindInv, Quiet, Copies
<1>6. desk.turns \in Seq(Shape) /\ r.k \in 1..Len(desk.turns)
  BY <1>5, TurnsOf DEF IsRewind, IsCopy
<1>7. \A i \in DOMAIN desk.turns : ~desk.turns[i].running  BY <1>1 DEF RewindInv, Quiet
<1>8. q \in Seq(Shape) /\ \A i \in DOMAIN q : ~q[i].running  BY <1>6, <1>7, Cut
<1> HIDE DEF q
<1>9. IsCopy(a) /\ a.turns = q  BY <1>5, <1>8, CopyChanged
<1> HIDE DEF a
<1>10. IsCopy(b) /\ b.turns = q /\ b.status = "Idle"
  <2>1. \A x : LET d == [a EXCEPT !.status = x] IN IsCopy(d) /\ d.turns = a.turns /\ d.status = x
    BY <1>9, CopyChanged
  <2> QED  BY <1>9, <2>1
<1> HIDE DEF b
<1>11. IsCopy(c) /\ c.turns = q /\ c.status = "Idle"  BY <1>10, CopyChanged
<1> HIDE DEF c
<1>12. IsCopy(desk') /\ Quiet' /\ begun' \in Nat
  <2>1. CASE desk' = c /\ begun' = begun
    BY <1>4, <1>8, <1>11, <2>1 DEF Quiet, IsCopy, RewindInv, Numbers
  <2>2. CASE desk' = WithTurn(c, begun + 1) /\ begun' = begun + 1
    <3>1. begun + 1 \in Nat  BY DEF RewindInv, Numbers
    <3>2. /\ IsCopy(desk') /\ desk'.status = "Connecting"
          /\ DOMAIN q = 1..Len(q) /\ Len(q) \in Nat
          /\ DOMAIN desk'.turns = 1..Len(q) + 1 /\ Len(desk'.turns) = Len(q) + 1
          /\ \A i \in DOMAIN q : desk'.turns[i] = q[i]
      BY <1>8, <1>11, <2>2, <3>1, WithTurnKeeps, TurnsOf DEF IsCopy
    <3>3. Quiet'  BY <1>4, <1>8, <3>2 DEF Quiet
    <3> QED  BY <2>2, <3>1, <3>2, <3>3
  <2> QED  BY <1>3, <2>1, <2>2
<1> QED
  BY <1>2, <1>4, <1>12
  DEF RewindInv, Numbers, Refs, Copies, Captures, IsCopy, IsCapture, Shape, Snapshot

LEMMA DroppedKeeps ==
    ASSUME RewindInv, Dropped, UNCHANGED rewinds["desktop"]
    PROVE  IsCopy(desk') /\ Quiet' /\ \A c \in captures' : IsCapture(c)
<1>1. CASE desk.status = "Working"
  <2>1. desk.turns # <<>> /\ ~Rewinding("desktop")'  BY <1>1 DEF RewindInv, Quiet, Rewinding
  <2>2. /\ desk' = [OnLast([Last(desk.turns) EXCEPT !.running = FALSE]) EXCEPT !.status = "Idle"]
        /\ captures' = Requested(Len(desk.turns), Last(desk.turns).id)
    BY <1>1 DEF Dropped
  <2> QED  BY <2>1, <2>2, LastEnds
<1>2. CASE desk.status # "Working"
  <2>1. UNCHANGED <<desk, captures>>  BY <1>2 DEF Dropped
  <2> QED  BY <2>1 DEF RewindInv, Copies, Captures, Quiet, Rewinding, IsCopy
<1> QED  BY <1>1, <1>2

LEMMA FinishDaemonKeeps == ASSUME RewindInv, FinishDaemon PROVE RewindInv'
<1> DEFINE r == rewinds["daemon"]
<1>1. "daemon" \in Actors /\ "desktop" \in Actors /\ Rewinding("daemon")
  BY DEF FinishDaemon, HandsOver, Rewinding, Actors
<1>2. /\ UNCHANGED <<work, edits, begun, starts, ends>>
      /\ rewinds' = [rewinds EXCEPT !["daemon"] = None] /\ Dropped
      /\ stored' = [turns |-> Kept(r), status |-> "Idle", cursor |-> r.cursor]
  BY DEF FinishDaemon, HandsOver, refs
<1>3. Rewinds' /\ UNCHANGED rewinds["desktop"]  BY <1>1, <1>2, RewindSet DEF RewindInv
<1>4. IsCopy(desk') /\ Quiet' /\ \A c \in captures' : IsCapture(c)  BY <1>2, <1>3, DroppedKeeps
<1>5. Kept(r) \in Seq(Shape)
  <2>1. IsRewind(r)  BY <1>1, Ongoing DEF RewindInv
  <2>2. r.turns \in Seq(Shape) /\ r.k \in 1..Len(r.turns)  BY <2>1 DEF IsRewind
  <2> QED  BY <2>2, Cut DEF Kept
<1>6. IsCopy(stored')  BY <1>2, <1>5 DEF IsCopy
<1> QED
  BY <1>2, <1>3, <1>4, <1>6
  DEF RewindInv, Numbers, Refs, Copies, Captures, IsCopy, IsCapture, Shape, Snapshot

LEMMA QuitKeeps == ASSUME RewindInv, Quit PROVE RewindInv'
<1> DEFINE f(i) == [stored.turns[i] EXCEPT !.running = FALSE]
           q == [i \in DOMAIN stored.turns |-> f(i)]
           a == [stored EXCEPT !.status = "Idle"]
           b == [a EXCEPT !.turns = q]
<1>1. /\ UNCHANGED <<work, edits, begun, starts, ends, stored>>
      /\ rewinds' = [rewinds EXCEPT !["desktop"] = None]
      /\ captures' = {[c EXCEPT !.wanted = FALSE] : c \in captures}
  BY DEF Quit
<1>2. desk' = b
  <2>1. [stored EXCEPT !.status = "Idle", !.turns = q] = b  OBVIOUS
  <2> QED  BY <2>1 DEF Quit
<1>3. "desktop" \in Actors  BY DEF Actors
<1>4. Rewinds' /\ ~Rewinding("desktop")'  BY <1>1, <1>3, RewindSet DEF RewindInv
<1>5. \A c \in captures' : IsCapture(c)
  BY <1>1, CaptureChanged DEF RewindInv, Captures
<1>6. IsCopy(stored) /\ stored.turns \in Seq(Shape)  BY DEF RewindInv, Copies, IsCopy
<1>7. q \in Seq(Shape) /\ \A i \in DOMAIN q : ~q[i].running
  <2>1. \A i \in DOMAIN stored.turns : f(i) \in Shape /\ f(i).running = FALSE
    BY <1>6, TurnsOf, Changed
  <2> HIDE DEF f
  <2>2. Len(stored.turns) \in Nat /\ q \in [1..Len(stored.turns) -> Shape]
    BY <1>6, <2>1, TurnsOf
  <2> QED  BY <2>1, <2>2, ASequence
<1> HIDE DEF q
<1>8. IsCopy(a) /\ a.status = "Idle"
  <2>1. \A x : LET d == [stored EXCEPT !.status = x]
               IN IsCopy(d) /\ d.turns = stored.turns /\ d.status = x
    BY <1>6, CopyChanged
  <2> QED  BY <2>1
<1> HIDE DEF a
<1>9. IsCopy(b) /\ b.status = "Idle" /\ b.turns = q  BY <1>7, <1>8, CopyChanged
<1> HIDE DEF b
<1>10. IsCopy(desk') /\ Quiet'  BY <1>2, <1>4, <1>7, <1>9 DEF Quiet, IsCopy
<1> QED
  BY <1>1, <1>4, <1>5, <1>6, <1>10
  DEF RewindInv, Numbers, Refs, Copies, Captures, IsCopy, IsCapture, Shape, Snapshot

LEMMA DieKeeps == ASSUME RewindInv, Die PROVE RewindInv'
<1>1. /\ UNCHANGED <<work, edits, begun, starts, ends, stored>>
      /\ rewinds' = [w \in Actors |-> None] /\ captures' = {}
  BY DEF Die
<1>2. "desktop" \in Actors  BY DEF Actors
<1>3. Rewinds' /\ ~Rewinding("desktop")'
  <2>1. \A w \in Actors : rewinds'[w] = None  BY <1>1
  <2>2. rewinds' = [w \in Actors |-> rewinds'[w]]  BY <1>1
  <2> QED  BY <1>2, <2>1, <2>2 DEF Rewinds, Rewinding, None
<1>4. IsCopy(desk) /\ IsCopy(stored)  BY DEF RewindInv, Copies
<1>5. IsCopy(desk') /\ Quiet'
  <2>1. CASE desk.status = "Working"
    <3>1. desk.turns # <<>>  BY <2>1 DEF RewindInv, Quiet
    <3>2. desk' = [OnLast([Last(desk.turns) EXCEPT !.running = FALSE]) EXCEPT !.status = "Idle"]
      BY <2>1 DEF Die
    <3> QED  BY <1>3, <3>1, <3>2, LastEnds
  <2>2. CASE desk.status # "Working" /\ Rewinding("desktop")
    <3>1. desk' = [desk EXCEPT !.status = "Idle"]  BY <2>2 DEF Die
    <3>2. IsCopy(desk') /\ desk'.turns = desk.turns /\ desk'.status = "Idle"
      BY <1>4, <3>1, CopyChanged DEF IsCopy
    <3>3. \A i \in DOMAIN desk.turns : ~desk.turns[i].running  BY <2>2 DEF RewindInv, Quiet
    <3> QED  BY <1>3, <3>2, <3>3 DEF Quiet
  <2>3. CASE desk.status # "Working" /\ ~Rewinding("desktop")
    <3>1. desk' = desk  BY <2>3 DEF Die
    <3> QED  BY <1>3, <1>4, <2>3, <3>1 DEF RewindInv, Quiet, IsCopy
  <2> QED  BY <2>1, <2>2, <2>3
<1> QED
  BY <1>1, <1>3, <1>4, <1>5
  DEF RewindInv, Numbers, Refs, Copies, Captures, IsCopy, Shape, Snapshot

-----------------------------------------------------------------------------
(* The theorems                                                            *)

LEMMA StutterKeeps == ASSUME RewindInv, UNCHANGED vars PROVE RewindInv'
BY DEF vars, refs, copies, RewindInv, Numbers, Refs, Copies, Captures, Rewinds, Quiet, Rewinding,
       IsCopy, IsCapture, IsRewind, Shape, Snapshot

LEMMA NextKeeps == RewindInv /\ [Next]_vars => RewindInv'
<1> SUFFICES ASSUME RewindInv, [Next]_vars PROVE RewindInv'  OBVIOUS
<1>1. CASE Desktop
  BY <1>1, SubmitKeeps, CaptureTurnStartKeeps, PromptKeeps, EndTurnKeeps, SaveKeeps,
     FinishDesktopKeeps DEF Desktop
<1>2. CASE Edit \/ SaveStale \/ Trim  BY <1>2, EditKeeps, SaveKeeps
<1>3. CASE \E c \in captures : Capture(c)  BY <1>3, CaptureKeeps
<1>4. CASE \E w \in Actors : Step(w)  BY <1>4, StepKeeps
<1>5. CASE \E w \in Actors : \E k \in 1..MaxCount : Start(w, k)  BY <1>5, StartKeeps
<1>6. CASE FinishDaemon \/ Quit \/ Die  BY <1>6, FinishDaemonKeeps, QuitKeeps, DieKeeps
<1>7. CASE UNCHANGED vars  BY <1>7, StutterKeeps
<1> QED  BY <1>1, <1>2, <1>3, <1>4, <1>5, <1>6, <1>7 DEF Next

\* The copies, captures and rewinds keep their shape, and only the last turn
\* runs.  (Rewind.tla; the invariant of the theorems below.)
THEOREM RewindInvariant == Spec => []RewindInv
<1>1. Init => RewindInv  BY InitOK
<1>2. RewindInv /\ [Next]_vars => RewindInv'  BY NextKeeps
<1> QED  BY <1>1, <1>2, PTL DEF Spec

NobodyHolds == \A w \in Actors : ~Holding(w)

\* What is owed: it is in the worktree or a backup while no rewind has a snapshot,
\* and else the only rewind that has one has it, or a backup.
Owed ==
    \/ owed = Unknown
    \/ NobodyHolds /\ owed \in backups \cup {work}
    \/ \E w \in Actors : /\ Holding(w) /\ rewinds[w].step # "cleaned" /\ ~OtherHolds(w)
                         /\ owed \in backups \cup {rewinds[w].safety}

\* Fields of a rewind that one of its steps sets, or leaves.
LEMMA FieldsLeft ==
    ASSUME NEW r, IsRewind(r)
    PROVE  /\ [r EXCEPT !.alone = FALSE].step = r.step /\ [r EXCEPT !.alone = FALSE].safety = r.safety
           /\ \A s : [r EXCEPT !.step = s].step = s /\ [r EXCEPT !.step = s].safety = r.safety
           /\ \A c : LET q == [r EXCEPT !.step = "rewound", !.cursor = c]
                     IN q.step = "rewound" /\ q.safety = r.safety
           /\ \A n, x : LET q == [r EXCEPT !.step = "secured", !.safety = n, !.ref = x]
                        IN q.step = "secured" /\ q.safety = n
BY DEF IsRewind

\* A rewind that has a snapshot, and has not deleted it, secures it.
LEMMA IsSecured ==
    ASSUME RewindInv, NEW w \in Actors, Holding(w), rewinds[w].step # "cleaned"
    PROVE  rewinds[w].safety \in Secured(w)
BY Ongoing DEF RewindInv, IsRewind, Secured, Holding

\* v holds its snapshot, or holds none, as before.
Holds(v) == /\ Holding(v)' <=> Holding(v)
            /\ Holding(v) => /\ rewinds'[v].safety = rewinds[v].safety
                             /\ rewinds'[v].step = "cleaned" => rewinds[v].step = "cleaned"

LEMMA Unheld == ASSUME NEW v \in Actors, rewinds'[v] = rewinds[v] PROVE Holds(v)
BY DEF Holds, Holding, Rewinding

\* Nobody takes or deletes a snapshot, and the worktree changes under one only.
LEMMA OwedStays ==
    ASSUME Owed, owed' = owed, backups \subseteq backups', \A v \in Actors : Holds(v),
           NobodyHolds => work' = work
    PROVE  Owed'
<1>1. CASE owed = Unknown  BY <1>1 DEF Owed
<1>2. CASE NobodyHolds /\ owed \in backups \cup {work}  BY <1>2 DEF Owed, NobodyHolds, Holds
<1>3. ASSUME NEW w \in Actors, Holding(w), rewinds[w].step # "cleaned", ~OtherHolds(w),
             owed \in backups \cup {rewinds[w].safety}
      PROVE  Owed'
  <2>1. /\ Holding(w)' /\ rewinds'[w].step # "cleaned"
        /\ owed' \in backups' \cup {rewinds'[w].safety}
    BY <1>3 DEF Holds
  <2>2. ~OtherHolds(w)'  BY <1>3 DEF OtherHolds, Holds
  <2> QED  BY <2>1, <2>2 DEF Owed
<1> QED  BY <1>1, <1>2, <1>3 DEF Owed

\* The only rewind that holds a snapshot ends, and leaves it.
LEMMA OwedLeft ==
    ASSUME Owed, NEW w \in Actors, owed' = owed, backups \subseteq backups', ~Holding(w)',
           \A v \in Actors \ {w} : Holds(v),
           IF Holding(w) /\ rewinds[w].step # "cleaned"
           THEN rewinds[w].safety \in backups' \cup {work'} ELSE work' = work
    PROVE  Owed'
<1>1. CASE owed = Unknown  BY <1>1 DEF Owed
<1>2. CASE NobodyHolds /\ owed \in backups \cup {work}
  <2>1. work' = work  BY <1>2 DEF NobodyHolds
  <2>2. NobodyHolds'  BY <1>2 DEF NobodyHolds, Holds
  <2> QED  BY <1>2, <2>1, <2>2 DEF Owed
<1>3. ASSUME NEW u \in Actors, Holding(u), rewinds[u].step # "cleaned", ~OtherHolds(u),
             owed \in backups \cup {rewinds[u].safety}
      PROVE  Owed'
  <2>1. CASE u = w
    <3>1. NobodyHolds'  BY <1>3, <2>1 DEF NobodyHolds, OtherHolds, Holds
    <3>2. owed' \in backups' \cup {work'}  BY <1>3, <2>1
    <3> QED  BY <3>1, <3>2 DEF Owed
  <2>2. CASE u # w
    <3>1. Holding(u)' /\ rewinds'[u].step # "cleaned" /\ owed' \in backups' \cup {rewinds'[u].safety}
      BY <1>3, <2>2 DEF Holds
    <3>2. ~OtherHolds(u)'  BY <1>3, <2>2 DEF OtherHolds, Holds
    <3> QED  BY <3>1, <3>2 DEF Owed
  <2> QED  BY <2>1, <2>2
<1> QED  BY <1>1, <1>2, <1>3 DEF Owed

LEMMA StepOwes == ASSUME RewindInv, Owed, NEW w \in Actors, Step(w) PROVE Owed'
<1>0. Rewinding(w) /\ Rewinds /\ \A u \in Actors : rewinds[u].step # "none" => IsRewind(rewinds[u])
  BY Ongoing DEF Step, Rewinding, TakeSafety, Restore, Fail, Undo, RewindProvider, CleanUp, RewindInv
<1>1. IsRewind(rewinds[w]) /\ rewinds = [u \in Actors |-> rewinds[u]]
  BY <1>0, Ongoing DEF Rewinds
<1>2. ASSUME NEW r, rewinds' = [rewinds EXCEPT ![w] = r]
      PROVE  rewinds'[w] = r /\ \A v \in Actors \ {w} : Holds(v)
  BY <1>1, <1>2, Unheld
<1>3. CASE TakeSafety(w)
  <2>1. ~Holding(w) /\ work' = work /\ backups' = backups  BY <1>3 DEF TakeSafety, Holding, refs
  <2>2. CASE Abort(w) /\ owed' = owed
    <3>1. rewinds' = [rewinds EXCEPT ![w] = None]  BY <2>2 DEF Abort
    <3>2. ~Holding(w)' /\ \A v \in Actors \ {w} : Holds(v)
      BY <3>1, <1>2 DEF Holding, Rewinding, None
    <3> QED  BY <2>1, <2>2, <3>2, OwedLeft
  <2>3. CASE ~(Abort(w) /\ owed' = owed)
    <3> DEFINE r == [rewinds[w] EXCEPT !.step = "secured", !.safety = work,
                                        !.ref = RestoreRef(rewinds[w].k)]
    <3>1. rewinds' = [rewinds EXCEPT ![w] = r] /\ owed' = IF OtherHolds(w) THEN Unknown ELSE owed
      BY <1>3, <2>3 DEF TakeSafety
    <3>2. r.step = "secured" /\ r.safety = work  BY <1>1, FieldsLeft
    <3> HIDE DEF r
    <3>3. rewinds'[w].step = "secured" /\ rewinds'[w].safety = work /\ \A v \in Actors \ {w} : Holds(v)
      BY <3>1, <3>2, <1>2
    <3>4. CASE OtherHolds(w)  BY <3>1, <3>4 DEF Owed
    <3>5. CASE ~OtherHolds(w)
      <4>1. NobodyHolds  BY <2>1, <3>5 DEF NobodyHolds, OtherHolds
      <4>2. owed = Unknown \/ owed \in backups \cup {work}  BY <4>1 DEF Owed, NobodyHolds
      <4>3. Holding(w)'  BY <3>3 DEF Holding, Rewinding
      <4>4. ~OtherHolds(w)'  BY <3>3, <3>5 DEF OtherHolds, Holds
      <4> QED  BY <2>1, <3>1, <3>3, <3>5, <4>2, <4>3, <4>4 DEF Owed
    <3> QED  BY <3>4, <3>5
  <2> QED  BY <2>2, <2>3
<1>4. CASE Undo(w)
  <2>1. /\ rewinds' = [rewinds EXCEPT ![w] = None] /\ owed' = owed /\ backups \subseteq backups'
        /\ rewinds[w].safety \in backups' \cup {work'} /\ rewinds[w].step = "undo"
    BY <1>4 DEF Undo, Abort
  <2>2. ~Holding(w)' /\ \A v \in Actors \ {w} : Holds(v)
    BY <2>1, <1>2 DEF Holding, Rewinding, None
  <2>3. Holding(w)  BY <2>1 DEF Holding, Rewinding
  <2> QED  BY <2>1, <2>2, <2>3, OwedLeft
<1>5. CASE Restore(w) \/ Fail(w)
  <2>1. PICK step \in {"restored", "undo"} : Advance(w, step)  BY <1>5 DEF Restore, Fail
  <2>2. owed' = owed /\ backups' = backups /\ rewinds[w].step \in {"secured", "restored"}
    BY <1>5 DEF Restore, Fail, refs
  <2> DEFINE r == [rewinds[w] EXCEPT !.step = step]
  <2>3. r.step = step /\ r.safety = rewinds[w].safety  BY <1>1, FieldsLeft
  <2>4. rewinds' = [rewinds EXCEPT ![w] = r]  BY <2>1 DEF Advance
  <2> HIDE DEF r
  <2>5. rewinds'[w] = r /\ \A v \in Actors \ {w} : Holds(v)  BY <2>4, <1>2
  <2>6. Holding(w) /\ Holds(w)  BY <2>2, <2>3, <2>5 DEF Holds, Holding, Rewinding
  <2> QED  BY <2>2, <2>5, <2>6, OwedStays DEF NobodyHolds
<1>6. CASE RewindProvider(w)
  <2> DEFINE r == [rewinds[w] EXCEPT !.step = "rewound", !.cursor = NextCursor(rewinds[w])]
  <2>1. rewinds' = [rewinds EXCEPT ![w] = r]  BY <1>6 DEF RewindProvider
  <2>2. r.step = "rewound" /\ r.safety = rewinds[w].safety  BY <1>1, FieldsLeft
  <2>3. /\ owed' = owed /\ backups' = backups /\ work' = work /\ rewinds[w].step = "restored"
    BY <1>6 DEF RewindProvider, refs
  <2> HIDE DEF r
  <2>4. rewinds'[w] = r /\ \A v \in Actors \ {w} : Holds(v)  BY <2>1, <1>2
  <2>5. Holds(w)  BY <2>2, <2>3, <2>4 DEF Holds, Holding, Rewinding
  <2> QED  BY <2>3, <2>4, <2>5, OwedStays
<1>7. CASE CleanUp(w)  BY <1>7 DEF CleanUp, Owed
<1> QED  BY <1>3, <1>4, <1>5, <1>6, <1>7 DEF Step

\* A rewind that hands the worktree over was the only one, or nothing is owed.
LEMMA HandsOverOwes ==
    ASSUME RewindInv, Owed, NEW w \in Actors, HandsOver(w), work' = work, backups' = backups
    PROVE  Owed'
<1>1. rewinds' = [rewinds EXCEPT ![w] = None] /\ rewinds[w].step = "cleaned"  BY DEF HandsOver
<1>2. rewinds = [u \in Actors |-> rewinds[u]]  BY DEF RewindInv, Rewinds
<1>3. ~Holding(w)' /\ \A v \in Actors \ {w} : Holds(v)
  BY <1>1, <1>2, Unheld DEF Holding, Rewinding, None
<1>4. Holding(w)  BY <1>1 DEF Holding, Rewinding
<1>5. CASE OtherHolds(w)  BY <1>3, <1>5, OwedLeft, <1>1 DEF HandsOver
<1>6. CASE ~OtherHolds(w)
  <2>1. owed' = work  BY <1>6 DEF HandsOver
  <2>2. NobodyHolds'  BY <1>3, <1>6 DEF NobodyHolds, OtherHolds, Holds
  <2> QED  BY <2>1, <2>2 DEF Owed
<1> QED  BY <1>5, <1>6

LEMMA NextOwes == RewindInv /\ Owed /\ [Next]_vars => Owed'
<1> SUFFICES ASSUME RewindInv, Owed, [Next]_vars PROVE Owed'  OBVIOUS
<1>0. Rewinds  BY DEF RewindInv
<1>1. CASE \E w \in Actors : Step(w)  BY <1>1, StepOwes
<1>2. ASSUME NEW v \in Actors,
             rewinds'[v] = IF Rewinding(v) THEN [rewinds[v] EXCEPT !.alone = FALSE] ELSE None
      PROVE  Holds(v)
  <2>1. CASE Rewinding(v)
    <3>1. IsRewind(rewinds[v])  BY <1>0, <2>1, Ongoing
    <3>2. rewinds'[v].step = rewinds[v].step /\ rewinds'[v].safety = rewinds[v].safety
      BY <1>2, <2>1, <3>1, FieldsLeft
    <3> QED  BY <3>2 DEF Holds, Holding, Rewinding
  <2>2. CASE ~Rewinding(v)  BY <1>2, <2>2 DEF Holds, Holding, Rewinding, None
  <2> QED  BY <2>1, <2>2
<1>3. CASE Edit
  <2>1. /\ \A v \in Actors : Holds(v)
        /\ work' = edits + 1 /\ backups' = backups /\ owed' = IF NobodyHolds THEN edits + 1 ELSE owed
    <3>1. \A v \in Actors : rewinds'[v] = IF Rewinding(v) THEN [rewinds[v] EXCEPT !.alone = FALSE] ELSE None
      BY <1>3 DEF Edit
    <3>2. work' = edits + 1 /\ backups' = backups /\ owed' = IF NobodyHolds THEN edits + 1 ELSE owed
      BY <1>3 DEF Edit, refs, NobodyHolds
    <3> QED  BY <1>2, <3>1, <3>2
  <2>2. CASE NobodyHolds  BY <2>1, <2>2 DEF Owed, NobodyHolds, Holds
  <2>3. CASE ~NobodyHolds  BY <2>1, <2>3, OwedStays
  <2> QED  BY <2>2, <2>3
<1>4. ASSUME NEW w \in Actors, NEW k \in 1..MaxCount, Start(w, k) PROVE Owed'
  <2>1. work' = work /\ backups' = backups /\ owed' = owed  BY <1>4 DEF Start, refs
  <2>2. \A v \in Actors \ {w} :
            rewinds'[v] = IF Rewinding(v) THEN [rewinds[v] EXCEPT !.alone = FALSE] ELSE None
    BY <1>4 DEF Start
  <2>3. rewinds'[w].step = "started" /\ rewinds[w].step = "none"  BY <1>4 DEF Start, Rewinding
  <2>4. Holds(w)  BY <2>3 DEF Holds, Holding, Rewinding
  <2> QED  BY <1>2, <2>1, <2>2, <2>4, OwedStays
<1>5. CASE FinishDesktop
  BY <1>5, HandsOverOwes DEF FinishDesktop, refs, Actors
<1>6. CASE FinishDaemon
  BY <1>6, HandsOverOwes DEF FinishDaemon, refs, Actors
<1>7. CASE Quit
  <2>1. /\ rewinds' = [rewinds EXCEPT !["desktop"] = None] /\ owed' = owed /\ work' = work
        /\ backups' = backups \cup Secured("desktop") /\ "desktop" \in Actors
    BY <1>7 DEF Quit, Actors
  <2>2. ~Holding("desktop")' /\ \A v \in Actors \ {"desktop"} : Holds(v)
    BY <1>0, <2>1, Unheld DEF Holding, Rewinding, None, Rewinds
  <2>3. Holding("desktop") /\ rewinds["desktop"].step # "cleaned" =>
            rewinds["desktop"].safety \in Secured("desktop")
    BY <2>1, IsSecured
  <2> QED  BY <2>1, <2>2, <2>3, OwedLeft
<1>8. CASE Die
  <2>1. /\ owed' = owed /\ work' = work /\ backups' = backups \cup UNION {Secured(w) : w \in Actors}
        /\ \A w \in Actors : ~Holding(w)'
    BY <1>8 DEF Die, Holding, Rewinding, None
  <2>2. \A w \in Actors : Holding(w) /\ rewinds[w].step # "cleaned" => rewinds[w].safety \in backups'
    BY <2>1, IsSecured
  <2> QED  BY <2>1, <2>2 DEF Owed, NobodyHolds
<1>9. CASE UNCHANGED <<work, backups, rewinds, owed>>
  BY <1>9, Unheld, OwedStays
<1>10. CASE Submit \/ CaptureTurnStart \/ Prompt \/ EndTurn \/ Save \/ SaveStale \/ Trim
            \/ \E c \in captures : Capture(c)
  BY <1>9, <1>10
  DEF Submit, CaptureTurnStart, Prompt, EndTurn, Save, SaveStale, Trim, Capture, FindCheckpoint,
      CaptureTurn, StoreCheckpoint, FailCapture, AttachCheckpoint, refs
<1>11. CASE UNCHANGED vars  BY <1>9, <1>11 DEF vars, refs
<1> QED  BY <1>1, <1>3, <1>4, <1>5, <1>6, <1>7, <1>8, <1>10, <1>11 DEF Next, Desktop

\* What the user had in the worktree when no rewind ran is still there, or a
\* snapshot of it, through any number of rewinds that fail or are cut short
\* (restore_rewind_safety in src/app/runtime.rs, perform_message_rewind in
\* daemon.rs, a quit, a death of the daemon), with edits, captures and saves
\* between their steps; unless two rewinds overlapped, or one was cut short
\* after it deleted its snapshot.
THEOREM NothingIsDestroyed == Spec => []NothingDestroyed
<1>1. Init => Owed
  BY DEF Init, Owed, NobodyHolds, Holding, Rewinding, None
<1>2. RewindInv /\ Owed => NothingDestroyed
  <2> SUFFICES ASSUME RewindInv, Owed PROVE NothingDestroyed  OBVIOUS
  <2>1. CASE owed \in {Unknown, work} \cup backups  BY <2>1 DEF NothingDestroyed
  <2>2. ASSUME NEW w \in Actors, Holding(w), rewinds[w].step # "cleaned", owed = rewinds[w].safety
        PROVE  NothingDestroyed
    <3>1. owed \in Secured(w)  BY <2>2, IsSecured
    <3> QED  BY <3>1 DEF NothingDestroyed
  <2> QED  BY <2>1, <2>2 DEF Owed
<1> QED  BY <1>1, <1>2, NextOwes, RewindInvariant, PTL DEF Spec

\* What one step keeps of the checkpoints in the daemon's copy.
Keeps == resident /\ ~Finishes("daemon") =>
             \A i \in DOMAIN stored.turns \cap DOMAIN stored'.turns :
                 stored.turns[i].check # {} /\ stored'.turns[i].id = stored.turns[i].id =>
                     stored'.turns[i].check # {}

LEMMA PreservedSaves ==
    ASSUME RewindInv, NEW c, IsCopy(c), stored' = Preserved(c) PROVE Keeps
<1>1. /\ IsCopy(stored) /\ IsCopy(stored') /\ Len(stored'.turns) = Len(c.turns)
      /\ \A i \in DOMAIN c.turns \cap DOMAIN stored.turns :
            resident /\ stored.turns[i].check # {} =>
                stored'.turns[i].check = stored.turns[i].check
  BY PreservedKeeps DEF RewindInv, Copies, IsCopy
<1>2. DOMAIN stored'.turns = DOMAIN c.turns  BY <1>1, TurnsOf DEF IsCopy
<1> QED  BY <1>1, <1>2 DEF Keeps

LEMMA NextSaves == ASSUME RewindInv, [Next]_vars PROVE Keeps
<1>1. IsCopy(desk) /\ IsCopy(stored)  BY DEF RewindInv, Copies
<1>2. CASE Save  BY <1>1, <1>2, PreservedSaves DEF Save
<1>3. CASE SaveStale
  <2>1. PICK i \in DOMAIN stored.turns : stored' = Preserved([stored EXCEPT !.turns[i].check = {}])
    BY <1>3 DEF SaveStale
  <2>2. IsCopy([stored EXCEPT !.turns[i].check = {}])  BY <1>1, CheckSet
  <2> QED  BY <2>1, <2>2, PreservedSaves
<1>4. ASSUME NEW c \in captures, StoreCheckpoint(c) PROVE Keeps
  <2>1. c.found \in SUBSET Snapshot /\ c.found # {}
    BY <1>4 DEF StoreCheckpoint, RewindInv, Captures, IsCapture
  <2>2. CASE c.count \in DOMAIN stored.turns
    <3>1. LET e == [stored EXCEPT !.turns[c.count].check = c.found]
          IN /\ IsCopy(e) /\ e.status = stored.status /\ Len(e.turns) = Len(stored.turns)
             /\ e.turns[c.count].check = c.found
             /\ \A j \in DOMAIN stored.turns : j # c.count => e.turns[j] = stored.turns[j]
      <4> DEFINE i == c.count
                 d == c.found
      <4> HIDE DEF i, d
      <4>1. i \in DOMAIN stored.turns /\ d \in SUBSET Snapshot  BY <2>1, <2>2 DEF i, d
      <4>2. LET e == [stored EXCEPT !.turns[i].check = d]
            IN /\ IsCopy(e) /\ e.status = stored.status /\ Len(e.turns) = Len(stored.turns)
               /\ e.turns[i].check = d
               /\ \A j \in DOMAIN stored.turns : /\ e.turns[j].running = stored.turns[j].running
                                                 /\ j # i => e.turns[j] = stored.turns[j]
        BY <1>1, <4>1, CheckSet
      <4> QED  BY <4>2 DEF i, d
    <3>2. stored' = [stored EXCEPT !.turns[c.count].check = c.found]
      BY <1>4, <2>2 DEF StoreCheckpoint
    <3> QED  BY <2>1, <3>1, <3>2 DEF Keeps
  <2>3. CASE c.count \notin DOMAIN stored.turns  BY <1>4, <2>3 DEF StoreCheckpoint, Keeps
  <2> QED  BY <2>2, <2>3
<1>5. CASE FinishDaemon
  <2>1. Finishes("daemon")
    <3>1. "daemon" \in Actors  BY DEF Actors
    <3>2. rewinds'["daemon"] = None  BY <1>5, <3>1, RewindSet DEF FinishDaemon, HandsOver, RewindInv
    <3> QED  BY <1>5, <3>2 DEF FinishDaemon, HandsOver, Finishes, Ends, Rewinding
  <2> QED  BY <2>1 DEF Keeps
<1>6. CASE stored' = stored  BY <1>6 DEF Keeps
<1>7. CASE Edit \/ Submit \/ CaptureTurnStart \/ Prompt \/ EndTurn \/ FinishDesktop \/ Trim \/ Quit \/ Die
  BY <1>6, <1>7
  DEF Edit, Submit, CaptureTurnStart, Prompt, EndTurn, FinishDesktop, Trim, Quit, Die, copies
<1>8. ASSUME NEW c \in captures, Capture(c), ~StoreCheckpoint(c) PROVE Keeps
  BY <1>6, <1>8 DEF Capture, FindCheckpoint, CaptureTurn, FailCapture, AttachCheckpoint, copies
<1>9. ASSUME NEW w \in Actors, Step(w) \/ \E k \in 1..MaxCount : Start(w, k) PROVE Keeps
  BY <1>6, <1>9
  DEF Step, TakeSafety, Restore, Fail, Undo, RewindProvider, CleanUp, Start, copies
<1>10. CASE UNCHANGED vars  BY <1>6, <1>10 DEF vars, copies
<1> QED  BY <1>2, <1>3, <1>4, <1>5, <1>7, <1>8, <1>9, <1>10 DEF Next, Desktop

\* A stale projection of another client, or of the desktop, never erases a
\* checkpoint while the daemon has the transcript in memory
\* (preserve_daemon_checkpoints in daemon.rs).
THEOREM CheckpointsAreKept == Spec => CheckpointsKept
<1>1. RewindInv /\ [Next]_vars =>
          [resident /\ ~Finishes("daemon") =>
              \A i \in DOMAIN stored.turns \cap DOMAIN stored'.turns :
                  stored.turns[i].check # {} /\ stored'.turns[i].id = stored.turns[i].id =>
                      stored'.turns[i].check # {}]_vars
  BY NextSaves DEF Keeps
<1> QED  BY <1>1, RewindInvariant, PTL DEF Spec, CheckpointsKept
=============================================================================
