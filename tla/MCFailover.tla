---------------------------- MODULE MCFailover ----------------------------
(* Small instances of Failover for TLC. *)
EXTENDS Failover

Entry(n, u, prio, pos) ==
  [name |-> n, url |-> u, expectedDown |-> FALSE, model |-> "m", prio |-> prio, pos |-> pos]

(* The file lists the backends in an order that is not the chain's: the    *)
(* one without a priority comes first and must be tried last.              *)
Last  == Entry("last", "u2", 0, 1)
First == Entry("first", "u1", 1, 2)

(* A reload takes the fallback away and back. *)
MCEntries == {Last, First}
MCConfigs == {{Last, First}, {First}}

(* Of the primary's error pages one is JSON, which is validated and        *)
(* refused, the other is not and is passed on.                             *)
MCConditions ==
  [u \in Urls |-> IF u = First.url THEN {"up", "failing", "broken", "down"} ELSE {"up"}]

(* sort.SliceStable over the file's order: of two entries the one with the *)
(* lower priority comes first, 0 counting as none, else the earlier one.   *)
Better(e, f) ==
  \/ e.prio # 0 /\ (f.prio = 0 \/ e.prio < f.prio)
  \/ e.prio = f.prio /\ e.pos < f.pos
ASSUME ChainOrder ==
  LET Es == {Entry("a", "u", prio, pos) : prio \in 0..3, pos \in 1..3} IN
  \A e, f \in Es : Precedes(e, f) <=> Better(e, f)

MCModels == {"m", "unknown"}
=============================================================================
