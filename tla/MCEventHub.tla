---- MODULE MCEventHub ----
(* Instances of EventHub for TLC. *)
EXTENDS EventHub, TLC

CONSTANTS s1, s2, c1, c2
TwoSessions == {s1, s2}
OneClient == {c1}
====
