-------------------------- MODULE TaskCatalogProofs --------------------------
(***************************************************************************)
(* Proofs about TaskCatalog, for any clients, titles and bounds: the type  *)
(* invariant, that a removed task stays removed, and that watchers agree.  *)
(***************************************************************************)
EXTENDS TaskCatalog, TLAPS

Steps == {"save", "saved", "session", "project", "window", "removed"}
Requests == [step : Steps, from : Editors, row : Rows, no : 0..MaxSaves]

Types ==
    /\ stored \in Rows /\ entry \in Rows /\ rows \in [Clients -> Rows]
    /\ loading \in [Clients -> SUBSET Rows] /\ result \in [Clients -> SUBSET Rows]
    /\ tombstone \in BOOLEAN /\ woken \in [Clients -> BOOLEAN]
    /\ handling \subseteq Requests
    /\ sent \in 0..MaxSaves /\ clock \in 0..MaxClock /\ slipped \in BOOLEAN

\* A removal that is stored is in force before its tombstone is recorded, until
\* a save slips in.
InForce ==
    ~slipped => /\ tombstone => stored.title = Absent
                /\ \A h \in handling : h.step = "window" => stored.title = Absent

CatalogInv == Types /\ InForce

----------------------------------------------------------------------------
LEMMA BoundTypes ==
    /\ Editors \subseteq Clients /\ Absent \notin Titles
    /\ MaxSaves \in Nat /\ MaxClock \in Nat
BY ConstantsAssumption

LEMMA InitCatalog == Init => CatalogInv
<1> SUFFICES ASSUME Init PROVE CatalogInv  OBVIOUS
<1>1. PICK t \in Titles : stored = [title |-> t, at |-> 0]  BY DEF Init
<1>2. stored \in Rows  BY <1>1, BoundTypes DEF Rows
<1>3. Types
  <2>1. /\ entry = stored /\ tombstone = FALSE /\ handling = {} /\ sent = 0 /\ clock = 0
        /\ slipped = FALSE /\ rows = [c \in Clients |-> stored]
        /\ woken = [c \in Clients |-> FALSE]
        /\ loading = [c \in Clients |-> {}] /\ result = [c \in Clients |-> {}]
    BY DEF Init
  <2>2. 0 \in 0..MaxSaves /\ 0 \in 0..MaxClock  BY BoundTypes
  <2> QED  BY <1>2, <2>1, <2>2 DEF Types
<1> QED  BY <1>3 DEF Init, CatalogInv, InForce

LEMMA EditKeeps ==
    ASSUME CatalogInv, NEW c \in Clients, NEW t \in Titles, Edit(c, t) PROVE CatalogInv'
<1> DEFINE row == [rows[c] EXCEPT !.title = t, !.at = clock]
           h == [step |-> "save", from |-> c, row |-> row, no |-> sent]
<1>1. Types /\ InForce  BY DEF CatalogInv
<1>2. row \in Rows  BY <1>1 DEF Types, Rows
<1>3. /\ sent' = sent + 1 /\ sent < MaxSaves /\ rows' = [rows EXCEPT ![c] = row]
      /\ handling' = handling \cup {h} /\ c \in Editors
      /\ UNCHANGED <<stored, tombstone, entry, woken, loading, result, clock, slipped>>
  BY DEF Edit, daemonVars, hubVars
<1> HIDE DEF row
<1>4. h \in Requests /\ h.step # "window"  BY <1>1, <1>2, <1>3 DEF Types, Requests, Steps
<1>5. sent' \in 0..MaxSaves  BY <1>1, <1>3, BoundTypes DEF Types
<1> HIDE DEF h
<1>6. Types'  BY <1>1, <1>2, <1>3, <1>4, <1>5 DEF Types
<1>7. InForce'  BY <1>1, <1>3, <1>4 DEF InForce
<1> QED  BY <1>6, <1>7 DEF CatalogInv

LEMMA RemoveKeeps ==
    ASSUME CatalogInv, NEW c \in Clients, NEW command \in {"session", "project"}, Remove(c, command)
    PROVE  CatalogInv'
<1> DEFINE row == [rows[c] EXCEPT !.title = Absent]
           h == [step |-> command, from |-> c, row |-> rows[c], no |-> MaxSaves]
<1>1. Types /\ InForce  BY DEF CatalogInv
<1>2. row \in Rows /\ rows[c] \in Rows  BY <1>1 DEF Types, Rows
<1>3. /\ rows' = [rows EXCEPT ![c] = row]
      /\ handling' = handling \cup {h} /\ c \in Editors
      /\ UNCHANGED <<stored, tombstone, entry, woken, loading, result, sent, clock, slipped>>
  BY <1>1 DEF Remove, daemonVars, hubVars, Types, Rows
<1> HIDE DEF row
<1>4. h \in Requests /\ h.step # "window"  BY <1>2, <1>3, BoundTypes DEF Requests, Steps
<1> HIDE DEF h
<1>5. Types'  BY <1>1, <1>2, <1>3, <1>4 DEF Types
<1>6. InForce'  BY <1>1, <1>3, <1>4 DEF InForce
<1> QED  BY <1>5, <1>6 DEF CatalogInv

\* A request that reaches its next step stays well formed, as do the others.
LEMMA BecomesKeeps ==
    ASSUME Types, NEW h \in handling, NEW step \in Steps, Becomes(h, step)
    PROVE  /\ handling' \subseteq Requests
           /\ \A g \in handling' : g \in handling \/ g.step = step
<1> DEFINE next == [h EXCEPT !.step = step]
<1>1. h \in Requests  BY DEF Types
<1>2. next \in Requests /\ next.step = step  BY <1>1 DEF Requests
<1>3. handling' = (handling \ {h}) \cup {next}  BY DEF Becomes
<1> HIDE DEF next
<1> QED  BY <1>2, <1>3 DEF Types

LEMMA MergeKeeps == ASSUME CatalogInv, NEW h \in handling, MergeSave(h) PROVE CatalogInv'
<1>1. Types /\ InForce /\ h \in Requests  BY DEF CatalogInv, Types
<1>2. UNCHANGED <<tombstone, entry, woken, rewritten, rows, loading, result, sent, clock>>
  BY DEF MergeSave, hubVars, listVars
<1>3. CASE tombstone
  <2>1. handling' = handling \ {h} /\ UNCHANGED <<stored, slipped>>  BY <1>3 DEF MergeSave
  <2> QED  BY <1>1, <1>2, <2>1 DEF CatalogInv, Types, InForce
<1>4. CASE ~tombstone
  <2> DEFINE next == [h EXCEPT !.step = "saved", !.row = stored']
             open == \E g \in handling : g.step = "window"
  <2>1. /\ stored' = IF stored.title = Absent \/ h.row.at >= stored.at
                     THEN h.row ELSE stored
        /\ handling' = (handling \ {h}) \cup {next} /\ slipped' = (slipped \/ open)
    BY <1>4 DEF MergeSave
  <2>2. h.row \in Rows /\ stored \in Rows  BY <1>1 DEF Types, Requests
  <2>4. stored' \in Rows  BY <2>1, <2>2
  <2>5. next \in Requests /\ next.step = "saved"  BY <1>1, <2>4 DEF Requests, Steps
  <2> HIDE DEF next
  <2>6. handling' \subseteq Requests /\ \A g \in handling' : g \in handling \/ g.step # "window"
    BY <1>1, <2>1, <2>5 DEF Types
  <2>7. slipped' \in BOOLEAN /\ (open => slipped')  BY <1>1, <2>1 DEF Types
  <2>8. Types'  BY <1>1, <1>2, <2>4, <2>6, <2>7 DEF Types
  <2>9. InForce'  BY <1>2, <1>4, <2>6, <2>7 DEF InForce
  <2> QED  BY <2>8, <2>9 DEF CatalogInv
<1> QED  BY <1>3, <1>4

LEMMA RemovedRow ==
    ASSUME stored \in Rows, RemoveStored PROVE stored' \in Rows /\ stored'.title = Absent
BY DEF RemoveStored, Rows

LEMMA HandleKeeps == ASSUME CatalogInv, NEW h \in handling, Handle(h) PROVE CatalogInv'
<1>1. Types /\ InForce /\ stored \in Rows  BY DEF CatalogInv, Types
<1>2. CASE MergeSave(h)  BY <1>2, MergeKeeps
<1>3. CASE AnnounceSave(h)
  <2>1. /\ handling' = handling \ {h} /\ entry' = h.row
        /\ UNCHANGED <<stored, tombstone, rewritten, rows, loading, result, sent, clock, slipped>>
    BY <1>3 DEF AnnounceSave, daemonVars, listVars
  <2>2. woken' \in [Clients -> BOOLEAN]  BY <1>1, <1>3 DEF AnnounceSave, WakeOthers, Types
  <2>3. h.row \in Rows  BY <1>1 DEF Types, Requests
  <2> QED  BY <1>1, <2>1, <2>2, <2>3 DEF CatalogInv, Types, InForce
<1>4. CASE RemoveSession(h)
  <2>1. /\ RemoveStored /\ tombstone' = TRUE /\ Becomes(h, "removed")
        /\ UNCHANGED <<entry, woken, rewritten, rows, loading, result, sent, clock, slipped>>
    BY <1>4 DEF RemoveSession, hubVars, listVars
  <2>2. stored' \in Rows /\ stored'.title = Absent  BY <1>1, <2>1, RemovedRow
  <2>3. handling' \subseteq Requests  BY <1>1, <2>1, BecomesKeeps DEF Steps
  <2> QED  BY <1>1, <2>1, <2>2, <2>3 DEF CatalogInv, Types, InForce
<1>5. CASE RemoveProject(h)
  <2>1. /\ RemoveStored /\ Becomes(h, "window")
        /\ UNCHANGED <<tombstone, entry, woken, rewritten, rows, loading, result, sent, clock, slipped>>
    BY <1>5 DEF RemoveProject, hubVars, listVars
  <2>2. stored' \in Rows /\ stored'.title = Absent  BY <1>1, <2>1, RemovedRow
  <2>3. handling' \subseteq Requests  BY <1>1, <2>1, BecomesKeeps DEF Steps
  <2> QED  BY <1>1, <2>1, <2>2, <2>3 DEF CatalogInv, Types, InForce
<1>6. CASE RecordTombstones(h)
  <2>1. /\ h.step = "window" /\ tombstone' = TRUE /\ Becomes(h, "removed")
        /\ UNCHANGED <<stored, entry, woken, rewritten, rows, loading, result, sent, clock, slipped>>
    BY <1>6 DEF RecordTombstones, hubVars, listVars
  <2>2. handling' \subseteq Requests /\ \A g \in handling' : g \in handling \/ g.step = "removed"
    BY <1>1, <2>1, BecomesKeeps DEF Steps
  <2> QED  BY <1>1, <2>1, <2>2 DEF CatalogInv, Types, InForce
<1>7. CASE AnnounceRemoval(h)
  <2>1. /\ handling' = handling \ {h}
        /\ UNCHANGED <<stored, tombstone, entry, rewritten, rows, loading, result, sent, clock, slipped>>
    BY <1>7 DEF AnnounceRemoval, daemonVars, listVars
  <2>2. woken' \in [Clients -> BOOLEAN]  BY <1>1, <1>7 DEF AnnounceRemoval, WakeOthers, Types
  <2> QED  BY <1>1, <2>1, <2>2 DEF CatalogInv, Types, InForce
<1> QED  BY <1>2, <1>3, <1>4, <1>5, <1>6, <1>7 DEF Handle

LEMMA SyncKeeps == ASSUME CatalogInv, NEW c \in Clients, Sync(c) PROVE CatalogInv'
<1>1. Types /\ InForce  BY DEF CatalogInv
<1>2. UNCHANGED <<stored, tombstone, handling, sent, clock, slipped>>
  BY DEF Sync, Load, AnswerLoad, Apply, daemonVars
<1>3. /\ entry' \in Rows /\ rows' \in [Clients -> Rows] /\ woken' \in [Clients -> BOOLEAN]
      /\ loading' \in [Clients -> SUBSET Rows] /\ result' \in [Clients -> SUBSET Rows]
  <2>1. CASE Load(c)  BY <1>1, <2>1 DEF Load, Types
  <2>2. CASE AnswerLoad(c)  BY <1>1, <2>2 DEF AnswerLoad, Types
  <2>3. CASE Apply(c)  BY <1>1, <2>3 DEF Apply, hubVars, Types
  <2> QED  BY <2>1, <2>2, <2>3 DEF Sync
<1> QED  BY <1>1, <1>2, <1>3 DEF CatalogInv, Types, InForce

LEMMA NextCatalog == CatalogInv /\ [Next]_vars => CatalogInv'
<1> SUFFICES ASSUME CatalogInv, [Next]_vars PROVE CatalogInv'  OBVIOUS
<1>1. CASE Tick
  <2>1. clock' \in 0..MaxClock  BY <1>1, BoundTypes DEF Tick, CatalogInv, Types
  <2> QED  BY <1>1, <2>1 DEF Tick, daemonVars, hubVars, listVars, CatalogInv, Types, InForce
<1>2. CASE UNCHANGED vars
  BY <1>2 DEF vars, daemonVars, hubVars, listVars, CatalogInv, Types, InForce
<1> QED  BY <1>1, <1>2, SyncKeeps, EditKeeps, RemoveKeeps, HandleKeeps DEF Next

LEMMA CatalogSafety == Spec => []CatalogInv
BY InitCatalog, NextCatalog, PTL DEF Spec

\* Rows, requests and channels are well formed.
THEOREM TypeCorrect == Spec => []TypeOK
<1>1. CatalogInv => TypeOK  BY DEF CatalogInv, Types, TypeOK, Requests, Steps
<1> QED  BY <1>1, CatalogSafety, PTL

\* No save brings back a task whose removal is recorded, but for the window of
\* RemoveProject.
THEOREM StaysRemoved == Spec => []RemovedStaysRemoved
<1>1. CatalogInv => RemovedStaysRemoved  BY DEF CatalogInv, InForce, RemovedStaysRemoved
<1> QED  BY <1>1, CatalogSafety, PTL

----------------------------------------------------------------------------
(* What a watcher shows                                                    *)

\* The newest row a client has of the task, in its list or on its way there.
Latest(c) == IF loading[c] # {} THEN loading[c]
             ELSE IF result[c] # {} THEN result[c] ELSE {rows[c]}

\* A save of what is stored will be announced; a removal will be.
Announcing == \E h \in handling : h.step = "saved" /\ h.row.title = stored.title
Removing == \E h \in handling : h.step \in {"window", "removed"}

\* A row that a client goes by is stored, or it will be told, or the answer to
\* its load will be the one that rewrites the entry.
Seen(c, row) ==
    \/ row.title = stored.title
    \/ Announcing /\ row.title # Absent
    \/ Removing
    \/ loading[c] # {} /\ row.title \notin {entry.title, Absent}

\* A watcher nobody has told anything, and that loads nothing, goes by what the
\* entry says, unless the entry says that the task is gone.
Watches(c) ==
    ~woken[c] => \A row \in Latest(c) :
        /\ Seen(c, row)
        /\ loading[c] = {} => row.title = entry.title \/ entry.title = Absent

\* Only a window of RemoveProject, or a tombstone, goes with a task that is gone.
Gone == stored.title = Absent => tombstone \/ \E h \in handling : h.step = "window"
Saves == \A h \in handling : h.step \in {"save", "saved"} => h.row.title # Absent
OneLoad == \A c \in Clients : \A r, s \in loading[c] : r = s

Watching == ~rewritten => \A c \in Clients \ Editors : Watches(c)

WatchInv == Types /\ Gone /\ Saves /\ OneLoad /\ Watching

LEMMA InitWatch == Init => WatchInv
<1> SUFFICES ASSUME Init PROVE WatchInv  OBVIOUS
<1>1. Types  BY InitCatalog DEF CatalogInv
<1>2. PICK t \in Titles : stored = [title |-> t, at |-> 0]  BY DEF Init
<1>3. stored.title # Absent  BY <1>2, BoundTypes
<1>4. Gone /\ Saves /\ OneLoad  BY <1>3 DEF Init, Gone, Saves, OneLoad
<1>5. Watching
  <2> SUFFICES ASSUME NEW c \in Clients PROVE Watches(c)  BY DEF Watching
  <2>1. Latest(c) = {stored} /\ loading[c] = {} /\ entry = stored  BY DEF Init, Latest
  <2> QED  BY <2>1 DEF Watches, Seen
<1> QED  BY <1>1, <1>4, <1>5 DEF WatchInv

\* A watcher keeps watching if nothing it goes by, or waits for, changes.
LEMMA StillWatches ==
    ASSUME NEW c \in Clients, Watches(c),
           UNCHANGED <<stored, entry, woken[c], loading[c], result[c], rows[c]>>,
           Announcing => Announcing', Removing => Removing'
    PROVE  Watches(c)'
BY DEF Watches, Latest, Seen

\* A step that takes no request from handling but one that is neither a save
\* that was merged nor a removal.
LEMMA Goes ==
    ASSUME NEW h, handling \ {h} \subseteq handling', UNCHANGED stored
    PROVE  /\ h.step # "saved" => (Announcing => Announcing')
           /\ h.step \notin {"window", "removed"} => (Removing => Removing')
           /\ h.step # "window" /\ Gone /\ UNCHANGED tombstone => Gone'
BY DEF Announcing, Removing, Gone

LEMMA EditWatches ==
    ASSUME WatchInv, NEW c \in Clients, NEW t \in Titles, Edit(c, t)
    PROVE  Gone' /\ Saves' /\ OneLoad' /\ Watching'
<1> DEFINE row == [rows[c] EXCEPT !.title = t, !.at = clock]
           h == [step |-> "save", from |-> c, row |-> row, no |-> sent]
<1>1. /\ rows' = [rows EXCEPT ![c] = row] /\ handling' = handling \cup {h} /\ c \in Editors
      /\ UNCHANGED <<stored, tombstone, entry, woken, rewritten, loading, result>>
  BY DEF Edit, daemonVars, hubVars
<1>2. row.title = t  BY DEF WatchInv, Types, Rows
<1> HIDE DEF row
<1>3. h.step = "save" /\ h.row.title # Absent  BY <1>2, BoundTypes
<1> HIDE DEF h
<1>4. Gone' /\ Saves' /\ OneLoad'  BY <1>1, <1>3 DEF WatchInv, Gone, Saves, OneLoad
<1>5. ASSUME NEW d \in Clients \ Editors, Watches(d) PROVE Watches(d)'
  <2>1. rows'[d] = rows[d]  BY <1>1
  <2>2. (Announcing => Announcing') /\ (Removing => Removing')  BY <1>1 DEF Announcing, Removing
  <2> QED  BY <1>1, <1>5, <2>1, <2>2, StillWatches
<1> QED  BY <1>1, <1>4, <1>5 DEF WatchInv, Watching

LEMMA RemoveWatches ==
    ASSUME WatchInv, NEW c \in Clients, NEW command \in {"session", "project"}, Remove(c, command)
    PROVE  Gone' /\ Saves' /\ OneLoad' /\ Watching'
<1> DEFINE h == [step |-> command, from |-> c, row |-> rows[c], no |-> MaxSaves]
<1>1. /\ rows' = [rows EXCEPT ![c].title = Absent] /\ handling' = handling \cup {h}
      /\ c \in Editors
      /\ UNCHANGED <<stored, tombstone, entry, woken, rewritten, loading, result>>
  BY DEF Remove, daemonVars, hubVars
<1>2. h.step \notin {"save", "saved"}  OBVIOUS
<1> HIDE DEF h
<1>3. Gone' /\ Saves' /\ OneLoad'  BY <1>1, <1>2 DEF WatchInv, Gone, Saves, OneLoad
<1>4. ASSUME NEW d \in Clients \ Editors, Watches(d) PROVE Watches(d)'
  <2>1. rows'[d] = rows[d]  BY <1>1
  <2>2. (Announcing => Announcing') /\ (Removing => Removing')  BY <1>1 DEF Announcing, Removing
  <2> QED  BY <1>1, <1>4, <2>1, <2>2, StillWatches
<1> QED  BY <1>1, <1>3, <1>4 DEF WatchInv, Watching

\* A merge that changes the row will be announced; a row that comes back was
\* removed in a window that is still open.
LEMMA MergeWatches ==
    ASSUME WatchInv, NEW h \in handling, MergeSave(h)
    PROVE  Gone' /\ Saves' /\ OneLoad' /\ Watching'
<1>1. /\ h.step = "save" /\ h.row.title # Absent
      /\ UNCHANGED <<tombstone, entry, woken, rewritten, rows, loading, result>>
  BY DEF MergeSave, hubVars, listVars, WatchInv, Saves
<1>2. CASE tombstone
  <2>1. handling' = handling \ {h} /\ UNCHANGED stored  BY <1>2 DEF MergeSave
  <2>2. (Announcing => Announcing') /\ (Removing => Removing') /\ Gone'
    BY <1>1, <2>1, Goes DEF WatchInv
  <2>3. Saves' /\ OneLoad'  BY <1>1, <2>1 DEF WatchInv, Saves, OneLoad
  <2> QED  BY <1>1, <2>1, <2>2, <2>3, StillWatches DEF WatchInv, Watching
<1>3. CASE ~tombstone
  <2> DEFINE next == [h EXCEPT !.step = "saved", !.row = stored']
  <2>1. /\ handling' = (handling \ {h}) \cup {next}
        /\ stored' = IF stored.title = Absent \/ h.row.at >= stored.at THEN h.row ELSE stored
    BY <1>3 DEF MergeSave
  <2>2. next.step = "saved" /\ next.row = stored'
    <3>1. h \in Requests  BY DEF WatchInv, Types
    <3> QED  BY <3>1 DEF Requests
  <2> HIDE DEF next
  <2>3. stored'.title # Absent  BY <1>1, <2>1
  <2>4. Announcing'  BY <2>1, <2>2 DEF Announcing
  <2>5. Removing => Removing'  BY <1>1, <2>1 DEF Removing
  <2>6. stored.title = Absent => Removing  BY <1>3 DEF WatchInv, Gone, Removing
  <2>7. Gone' /\ Saves' /\ OneLoad'
    BY <1>1, <2>1, <2>2, <2>3 DEF WatchInv, Gone, Saves, OneLoad
  <2>8. ASSUME NEW c \in Clients, Watches(c) PROVE Watches(c)'
    BY <1>1, <2>4, <2>5, <2>6, <2>8 DEF Watches, Latest, Seen
  <2> QED  BY <1>1, <2>7, <2>8 DEF WatchInv, Watching
<1> QED  BY <1>2, <1>3

\* If an announcement wakes nobody, the entry said it already.
LEMMA AnnounceWatches ==
    ASSUME WatchInv, NEW h \in handling, AnnounceSave(h)
    PROVE  Gone' /\ Saves' /\ OneLoad' /\ Watching'
<1>1. /\ h.step = "saved" /\ handling' = handling \ {h} /\ entry' = h.row
      /\ h.row.title # Absent /\ h \in Requests
      /\ UNCHANGED <<stored, tombstone, rewritten, rows, loading, result>>
  BY DEF AnnounceSave, daemonVars, listVars, WatchInv, Saves, Types
<1>2. Gone' /\ Saves' /\ OneLoad'
  BY <1>1, Goes DEF WatchInv, Saves, OneLoad
<1>3. Removing => Removing'  BY <1>1, Goes
<1>4. h.row.title # stored.title => (Announcing => Announcing')  BY <1>1 DEF Announcing
<1>5. CASE entry.title = h.row.title
  <2>1. UNCHANGED woken  BY <1>5 DEF AnnounceSave
  <2>2. ASSUME NEW c \in Clients, Watches(c) PROVE Watches(c)'
    BY <1>1, <1>3, <1>4, <1>5, <2>1, <2>2 DEF Watches, Latest, Seen
  <2> QED  BY <1>1, <1>2, <2>2 DEF WatchInv, Watching
<1>6. CASE entry.title # h.row.title
  <2>1. woken' = [d \in Clients |-> woken[d] \/ d # h.from]
    BY <1>6 DEF AnnounceSave, WakeOthers
  <2>2. h.from \in Editors  BY <1>1 DEF Requests
  <2>3. \A c \in Clients \ Editors : woken'[c]  BY <2>1, <2>2
  <2> QED  BY <1>2, <2>3 DEF Watching, Watches
<1> QED  BY <1>5, <1>6

LEMMA RemovalWatches ==
    ASSUME WatchInv, NEW h \in handling,
           RemoveSession(h) \/ RemoveProject(h) \/ RecordTombstones(h) \/ AnnounceRemoval(h)
    PROVE  Gone' /\ Saves' /\ OneLoad' /\ Watching'
<1>1. UNCHANGED <<entry, rewritten, rows, loading, result>> /\ h \in Requests
  BY DEF RemoveSession, RemoveProject, RecordTombstones, AnnounceRemoval, hubVars, listVars,
         WatchInv, Types
<1>2. CASE AnnounceRemoval(h)
  <2>1. /\ handling' = handling \ {h} /\ h.step = "removed" /\ UNCHANGED <<stored, tombstone>>
        /\ woken' = [d \in Clients |-> woken[d] \/ d # h.from]
    BY <1>2 DEF AnnounceRemoval, WakeOthers, daemonVars
  <2>2. \A c \in Clients \ Editors : woken'[c]  BY <1>1, <2>1 DEF Requests
  <2>3. Gone' /\ Saves' /\ OneLoad'  BY <1>1, <2>1, Goes DEF WatchInv, Saves, OneLoad
  <2> QED  BY <2>2, <2>3 DEF Watching, Watches
<1>3. ASSUME NEW step \in {"window", "removed"}, Becomes(h, step), UNCHANGED woken,
             step = "removed" => tombstone'
      PROVE  Gone' /\ Saves' /\ OneLoad' /\ Watching'
  <2>1. /\ handling' \subseteq Requests
        /\ \A g \in handling' : g \in handling \/ g.step = step
    BY <1>3, BecomesKeeps DEF WatchInv, Steps
  <2>2. \E g \in handling' : g.step = step
    <3> DEFINE next == [h EXCEPT !.step = step]
    <3>1. next.step = step  BY <1>1 DEF Requests
    <3>2. next \in handling'  BY <1>3 DEF Becomes
    <3> QED  BY <3>1, <3>2
  <2>3. Removing'  BY <2>2 DEF Removing
  <2>4. Gone' /\ Saves' /\ OneLoad'
    BY <1>1, <1>3, <2>1, <2>2 DEF WatchInv, Gone, Saves, OneLoad
  <2>5. UNCHANGED woken  BY <1>3
  <2>6. ASSUME NEW c \in Clients, Watches(c) PROVE Watches(c)'
    BY <1>1, <2>3, <2>5, <2>6 DEF Watches, Latest, Seen
  <2> QED  BY <1>1, <2>4, <2>6 DEF WatchInv, Watching
<1>4. CASE ~AnnounceRemoval(h)
  <2>1. PICK step \in {"window", "removed"} :
            Becomes(h, step) /\ UNCHANGED woken /\ (step = "removed" => tombstone')
    BY <1>4 DEF RemoveSession, RemoveProject, RecordTombstones, hubVars
  <2> QED  BY <1>3, <2>1
<1> QED  BY <1>2, <1>4

LEMMA SyncWatches ==
    ASSUME WatchInv, NEW c \in Clients, Sync(c)
    PROVE  Gone' /\ Saves' /\ OneLoad' /\ Watching'
<1>1. UNCHANGED <<stored, tombstone, handling>>
  BY DEF Sync, Load, AnswerLoad, Apply, daemonVars
<1>2. Gone' /\ Saves' /\ (Announcing' <=> Announcing) /\ (Removing' <=> Removing)
  BY <1>1 DEF WatchInv, Gone, Saves, Announcing, Removing
<1>3. CASE Load(c)
  <2>1. /\ woken[c] /\ woken' = [woken EXCEPT ![c] = FALSE]
        /\ loading' = [loading EXCEPT ![c] = {stored}]
        /\ UNCHANGED <<entry, rewritten, rows, result>>
    BY <1>3 DEF Load
  <2>2. loading'[c] = {stored} /\ \A d \in Clients \ {c} : UNCHANGED <<loading[d], woken[d]>>
    BY <2>1 DEF WatchInv, Types
  <2>3. OneLoad'  BY <2>2 DEF WatchInv, OneLoad
  <2>4. Watches(c)'  BY <1>1, <2>2 DEF Watches, Latest, Seen
  <2>5. ASSUME NEW d \in Clients \ {c}, Watches(d) PROVE Watches(d)'
    BY <1>1, <1>2, <2>1, <2>2, <2>5, StillWatches
  <2> QED  BY <1>2, <2>1, <2>3, <2>4, <2>5 DEF WatchInv, Watching
<1>4. CASE AnswerLoad(c)
  <2>1. PICK row \in loading[c] :
            entry' = row /\ rewritten' = (rewritten \/ row.title \notin {entry.title, Absent})
    BY <1>4 DEF AnswerLoad
  <2>2. /\ result' = [result EXCEPT ![c] = loading[c]] /\ loading' = [loading EXCEPT ![c] = {}]
        /\ UNCHANGED <<rows, woken>>
    BY <1>4 DEF AnswerLoad
  <2>3. /\ loading'[c] = {} /\ result'[c] = loading[c] /\ loading[c] # {}
        /\ \A d \in Clients \ {c} : UNCHANGED <<loading[d], result[d]>>
    BY <2>1, <2>2 DEF WatchInv, Types
  <2>4. OneLoad'  BY <2>3 DEF WatchInv, OneLoad
  <2>5. \A r \in loading[c] : r = row  BY <2>1 DEF WatchInv, OneLoad
  <2>6. CASE row.title \in {entry.title, Absent}
    <3>1. ~rewritten' => ~rewritten  BY <2>1
    <3>2. entry'.title \in {entry.title, Absent}  BY <2>1, <2>6
    <3>3. Latest(c) = {row} /\ Latest(c)' = {row}  BY <2>3, <2>5 DEF Latest
    <3>4. Watches(c) => Watches(c)'
      BY <1>1, <1>2, <2>1, <2>2, <2>3, <2>6, <3>3 DEF Watches, Seen
    <3>5. ASSUME NEW d \in Clients \ {c}, Watches(d) PROVE Watches(d)'
      BY <1>1, <1>2, <2>2, <2>3, <3>2, <3>5 DEF Watches, Latest, Seen
    <3> QED  BY <1>2, <2>4, <3>1, <3>4, <3>5 DEF WatchInv, Watching
  <2>7. CASE row.title \notin {entry.title, Absent}
    <3>1. rewritten'  BY <2>1, <2>7
    <3> QED  BY <1>2, <2>4, <3>1 DEF Watching
  <2> QED  BY <2>6, <2>7
<1>5. CASE Apply(c)
  <2>1. PICK row \in result[c] : rows' = [rows EXCEPT ![c] = row]  BY <1>5 DEF Apply
  <2>2. result' = [result EXCEPT ![c] = {}] /\ UNCHANGED <<entry, woken, rewritten, loading>>
    BY <1>5 DEF Apply, hubVars
  <2>3. /\ rows'[c] = row /\ result'[c] = {} /\ OneLoad'
        /\ \A d \in Clients \ {c} : UNCHANGED <<rows[d], result[d]>>
    BY <2>1, <2>2 DEF WatchInv, Types, OneLoad
  <2>4. \A r \in Latest(c)' : r \in Latest(c)  BY <2>1, <2>2, <2>3 DEF Latest
  <2>5. Watches(c) => Watches(c)'
    BY <1>1, <1>2, <2>2, <2>4 DEF Watches, Seen
  <2>6. ASSUME NEW d \in Clients \ {c}, Watches(d) PROVE Watches(d)'
    BY <1>1, <1>2, <2>2, <2>3, <2>6, StillWatches
  <2> QED  BY <1>2, <2>2, <2>3, <2>5, <2>6 DEF WatchInv, Watching
<1> QED  BY <1>3, <1>4, <1>5 DEF Sync

LEMMA NextWatch == WatchInv /\ CatalogInv' /\ [Next]_vars => WatchInv'
<1> SUFFICES ASSUME WatchInv, CatalogInv', [Next]_vars PROVE WatchInv'  OBVIOUS
<1>1. Types'  BY DEF CatalogInv
<1>2. CASE Tick \/ UNCHANGED vars
  <2>1. UNCHANGED <<stored, tombstone, handling, entry, woken, rewritten, rows, loading, result>>
    BY <1>2 DEF Tick, vars, daemonVars, hubVars, listVars
  <2>2. Gone' /\ Saves' /\ OneLoad'  BY <2>1 DEF WatchInv, Gone, Saves, OneLoad
  <2>3. Watching'
    BY <2>1 DEF WatchInv, Watching, Watches, Latest, Seen, Announcing, Removing
  <2> QED  BY <1>1, <2>2, <2>3 DEF WatchInv
<1>3. CASE \E c \in Clients : Sync(c)  BY <1>1, <1>3, SyncWatches DEF WatchInv
<1>4. CASE \E c \in Clients, t \in Titles : Edit(c, t)  BY <1>1, <1>4, EditWatches DEF WatchInv
<1>5. CASE \E c \in Clients, command \in {"session", "project"} : Remove(c, command)
  BY <1>1, <1>5, RemoveWatches DEF WatchInv
<1>6. CASE \E h \in handling : Handle(h)
  BY <1>1, <1>6, MergeWatches, AnnounceWatches, RemovalWatches DEF WatchInv, Handle
<1> QED  BY <1>2, <1>3, <1>4, <1>5, <1>6 DEF Next

\* A watcher to which nothing is on its way lists what the daemon stores, for
\* any number of clients, edits and removals, unless a load changed what the
\* hub's entry says.
THEOREM WatchersAgreeAtRest == Spec => []WatchersAgree
<1>1. Init => WatchInv  BY InitWatch
<1>2. WatchInv /\ CatalogInv' /\ [Next]_vars => WatchInv'  BY NextWatch
<1>3. WatchInv => WatchersAgree
  <2> SUFFICES ASSUME WatchInv, NEW c \in Clients \ Editors, UpToDate(c), ~rewritten
               PROVE  rows[c].title = stored.title
    BY DEF WatchersAgree
  <2>1. rows[c] \in Latest(c) /\ loading[c] = {} /\ ~Announcing /\ ~Removing /\ ~woken[c]
    BY DEF UpToDate, Latest, Announcing, Removing
  <2> QED  BY <2>1 DEF WatchInv, Watching, Watches, Seen
<1> QED  BY <1>1, <1>2, <1>3, CatalogSafety, PTL DEF Spec
=============================================================================
