------------------------------ MODULE TaskStore ------------------------------
(***************************************************************************)
(* What the daemon's task database promises: the tasks a client sees are   *)
(* on disk when the command that changed them is answered, a daemon that   *)
(* starts shows exactly what is on disk, and nothing else changes what is  *)
(* seen - loading a transcript, releasing it, and saving something else    *)
(* are invisible.  A task whose save failed is excused until it is saved.  *)
(***************************************************************************)
CONSTANTS Nothing,      \* no such task
          Draft(_)      \* a task that owns no row yet

VARIABLES view,     \* the tasks as the daemon's clients see them
          durable,  \* the tasks on disk
          excused   \* the tasks that are not on disk as they are seen

OnDiskAsSeen ==
    \A s \in DOMAIN view \ excused :
        durable[s] = IF Draft(view[s]) THEN Nothing ELSE view[s]

Init == OnDiskAsSeen

\* A command changes the tasks and saves them.
Command == OnDiskAsSeen'

\* The daemon starts again: only drafts, and what was excused, are lost.
Restart == view' = durable /\ UNCHANGED durable

Spec == Init /\ [][Command \/ Restart]_<<view, durable>>
=============================================================================
