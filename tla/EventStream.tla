----------------------------- MODULE EventStream -----------------------------
(***************************************************************************)
(* What the event path promises a client, without queues, journals, locks, *)
(* connections or cursors: a provider event is published once, and each    *)
(* client sees a selection of what was published, in the order of          *)
(* publication within a session, nothing twice.  EventHub implements it.   *)
(***************************************************************************)
EXTENDS Integers, Sequences

CONSTANT Clients

VARIABLES published,   \* every event ever published
          log          \* what each client has seen, in the order it saw it

streamVars == <<published, log>>

\* Runtime ids grow with each start, so the order of two events of a session is
\* the order of their runtimes, then of their sequence numbers.
Before(a, b) ==
    \/ a.session # b.session
    \/ a.epoch < b.epoch
    \/ a.epoch = b.epoch /\ a.runtime < b.runtime
    \/ a.epoch = b.epoch /\ a.runtime = b.runtime /\ a.seq < b.seq

Seen(c) == {log[c][i] : i \in DOMAIN log[c]}

Init ==
    /\ published = {}
    /\ log = [c \in Clients |-> <<>>]

Publish(e) ==
    /\ \A p \in published : Before(p, e)
    /\ published' = published \cup {e}
    /\ UNCHANGED log

See(c, e) ==
    /\ \A p \in Seen(c) : Before(p, e)
    /\ log' = [log EXCEPT ![c] = Append(@, e)]
    /\ UNCHANGED published

Next ==
    \/ \E e \in published' : Publish(e)
    \/ \E c \in Clients, e \in published : See(c, e)

Spec == Init /\ [][Next]_streamVars
=============================================================================
