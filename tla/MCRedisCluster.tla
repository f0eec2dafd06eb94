---------------------------- MODULE MCRedisCluster ----------------------------
(* RedisCluster with two masters of a slot each and a replica of the first.   *)
EXTENDS RedisCluster
CONSTANTS m1, m2, r1, s1, s2
MCMaster == [s \in Slot |-> IF s = s1 THEN m1 ELSE m2]
MCReplicaOf == [n \in Node |-> IF n = r1 THEN m1 ELSE None]
\* A write is sent as under "none" in all of them.
MCOptions == {<<"error", TRUE, 1>>, <<"distribute", TRUE, 1>>, <<"slaves", FALSE, 2>>}
\* A timeout, no fallback to replicas, two events.
MCOneOption == {<<"none", TRUE, 2>>}
=============================================================================
