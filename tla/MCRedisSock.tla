---------------------------- MODULE MCRedisSock ----------------------------
(* Two objects of one PHP process and the two streams they may hold. *)
EXTENDS RedisSock

MCIni == {[echo |-> FALSE, detect_dirty |-> 2], [echo |-> TRUE, detect_dirty |-> 0]}
===========================================================================
