---------------------------- MODULE SharedServer ----------------------------
(***************************************************************************)
(* What a server pool promises its users: there is never a second server   *)
(* process beside one that runs, a server is stopped only when nobody      *)
(* leases it, and a stopped one is never leased again.  A process may exit *)
(* by itself at any moment.                                                *)
(***************************************************************************)
CONSTANTS Users, Servers,
          Nothing   \* no server

VARIABLES live,     \* the server processes that run
          lease,    \* the server each user holds
          stopped   \* the servers the pool has stopped

poolVars == <<live, lease, stopped>>

Init == live = {} /\ lease = [u \in Users |-> Nothing] /\ stopped = {}

Launch == live = {} /\ (\E s \in Servers : live' = {s}) /\ UNCHANGED <<lease, stopped>>

Lease(u) ==
    /\ lease[u] = Nothing
    /\ \E s \in Servers \ stopped : lease' = [lease EXCEPT ![u] = s]
    /\ UNCHANGED <<live, stopped>>

Release(u) ==
    /\ lease' = [lease EXCEPT ![u] = Nothing]
    /\ UNCHANGED <<live, stopped>>

Stop(s) ==
    /\ \A u \in Users : lease[u] # s
    /\ live' = live \ {s} /\ stopped' = stopped \cup {s}
    /\ UNCHANGED lease

Exit(s) == s \in live /\ live' = live \ {s} /\ UNCHANGED <<lease, stopped>>

Next ==
    \/ Launch
    \/ \E u \in Users : Lease(u) \/ Release(u)
    \/ \E s \in Servers : Stop(s) \/ Exit(s)

Spec == Init /\ [][Next]_poolVars
=============================================================================
