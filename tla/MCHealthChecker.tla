-------------------------- MODULE MCHealthChecker --------------------------
(* Small instances of HealthChecker for TLC. *)
EXTENDS HealthChecker

Entry(n, u, d) == [name |-> n, url |-> u, expectedDown |-> d]

A  == Entry("a", "u1", FALSE)
A2 == Entry("a", "u2", TRUE)    \* the same backend moved, and now allowed to be down

(* Drop a backend, add it again, move it to another server, and list two   *)
(* servers under one name.                                                 *)
MCEntries == {A, A2}
MCConfigs == {{A}, {A2}, {A, A2}, {}}

MCConditions == [u \in Urls |-> {"garbled", "failing"}]
=============================================================================
