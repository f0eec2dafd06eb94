-------------------------- MODULE MCRedisSession --------------------------
(* A session on the second member of a pool of two.                         *)
EXTENDS RedisSession

MCWeights == <<1, 2>>
MCHash == [s \in Sid |-> 4]

\* An empty prefix: session_key starts with the id, and new ids are on either
\* member.
MCBareKeys == [s \in Sid |-> [m \in 1..2 |-> MCHash[s]]]
MCNewBareKeys == {3, 4}

\* The default prefix, whose first four bytes name the first member.
MCPrefixedKeys == [s \in Sid |-> [m \in 1..2 |-> 3]]
MCNewPrefixedKeys == {3}
===========================================================================
