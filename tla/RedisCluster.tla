----------------------------- MODULE RedisCluster -----------------------------
(***************************************************************************)
(* RedisCluster (cluster_library.c, redis_cluster.c): one object of one    *)
(* PHP process and the nodes it talks to.  The object has a map of slots   *)
(* to nodes which the cluster is free to change under it; it learns of a   *)
(* change from the MOVED or ASK a node answers with, and sends the command *)
(* again.  MULTI, EXEC, DISCARD and WATCH are made of those of the nodes.  *)
(*                                                                         *)
(* The first half is the send path as operators: a world W goes in, a set  *)
(* of results comes out, one for each thing the network may do.  The       *)
(* second half are the methods; a command is one step to send and one to   *)
(* read, so that slots move and connections break in between.  Connections *)
(* are not persistent (RedisSock models those that are).                   *)
(***************************************************************************)
EXTENDS Integers, Sequences, SequencesExt

CONSTANTS
    Node, Slot, None,
    Master,      \* the node each slot is served by at first
    ReplicaOf,   \* the master of each replica; None for a master
    Options,     \* OPT_SLAVE_FAILOVER, whether there is a timeout, and a bound on what happens
                 \* under them: slots moved, nodes and connections lost
    Cached,      \* redis.clusters.cache_slots
    MaxCommands  \* bound: commands sent

VARIABLES
    cluster,  \* who serves each slot, who imports it, which nodes are up
    conn,     \* the node's side of each connection, and the replies unread
    sock,     \* the RedisSock of each node
    obj,      \* the rest of the redisCluster
    call,     \* the method that is running
    cache,    \* the slot map kept for the next object, or None
    note      \* executions, events still to come; connections on which a reply was
              \* given up (late) or a block was cut short (torn)

vars == <<cluster, conn, sock, obj, call, cache, note>>

Closed == [open |-> FALSE, wire |-> << >>, multi |-> FALSE, aborted |-> FALSE, queue |-> << >>,
           watch |-> "no", asking |-> FALSE, readonly |-> FALSE]
Accepted == [Closed EXCEPT !.open = TRUE]
redis_sock_create == [status |-> "disconnected", mode |-> FALSE, watching |-> FALSE,
                      readonly |-> FALSE]
Idle == [op |-> "none", todo |-> << >>, phase |-> "none", at |-> None, cmd_slot |-> None, id |-> 0,
         read |-> FALSE, redirected |-> FALSE, sent |-> {}]
NoRedir == [type |-> "none", slot |-> None, node |-> None]

\* What CLUSTER SLOTS says: the masters, in the order of their first slots, and
\* their replicas.
Owners(c) == {c.owner[s] : s \in Slot}
Slaves(c, m) == {r \in Node : ReplicaOf[r] = m /\ r \notin Owners(c)}
Mapped(o, c) ==
    [o EXCEPT !.master = c.owner, !.nodes = Owners(c),
              !.slaves = [m \in Node |-> IF m \in Owners(c) THEN Slaves(c, m) ELSE {}],
              !.slot = [m \in Node |-> CHOOSE s \in Slot : m \in Owners(c) => c.owner[s] = m]]

World == [cluster |-> cluster, conn |-> conn, sock |-> sock, obj |-> obj, call |-> call,
          cache |-> cache, note |-> note]
Become(W) ==
    /\ cluster' = W.cluster /\ conn' = W.conn /\ sock' = W.sock /\ obj' = W.obj
    /\ call' = W.call /\ cache' = W.cache /\ note' = W.note

Ok(W) == [ok |-> TRUE, w |-> W]
No(W) == [ok |-> FALSE, w |-> W]
MayFail(W) == W.note.events > 0
Fault(W) == [W EXCEPT !.note.events = @ - 1]
\* The results of A, each that is ok continued by B.
Chain(A, B(_)) == UNION {IF a.ok THEN B(a.w) ELSE {a} : a \in A}
\* A, or else B.
Else(A, B(_)) == UNION {IF a.ok THEN {a} ELSE B(a.w) : a \in A}

----------------------------------------------------------------------------
(* The nodes.                                                              *)

Tok(t, v) == [t |-> t, v |-> v]
Cmd(op, id, slot, read) == [op |-> op, id |-> id, slot |-> slot, read |-> read]
Plain(op) == Cmd(op, 0, None, FALSE)

\* Where a command on a slot is served when node n receives it.
Route(W, n, cmd) ==
    LET owner == W.cluster.owner[cmd.slot]
        to == W.cluster.importing[cmd.slot]
    IN  IF n = owner THEN {Tok("here", n)} \cup (IF to # None THEN {Tok("ask", to)} ELSE {})
        ELSE IF \/ n = to /\ W.conn[n].asking
                \/ W.conn[n].readonly /\ cmd.read /\ ReplicaOf[n] = owner
             THEN {Tok("here", n)}
        ELSE {Tok("moved", owner)} \cup (IF W.cluster.up[owner] THEN {} ELSE {Tok("down", None)})

Reply(W, n, tok) == [W EXCEPT !.conn[n].wire = Append(@, tok), !.conn[n].asking = FALSE]
Run(W, n, ids) ==
    [W EXCEPT !.note.executed = [i \in DOMAIN @ |-> @[i] + Len(SelectSeq(ids, LAMBDA x : x = i))]]
Out(W, n) ==
    [W EXCEPT !.conn[n] = [@ EXCEPT !.multi = FALSE, !.aborted = FALSE, !.queue = << >>, !.watch = "no"]]

Keyed(W, n, cmd) ==
    {IF r.t # "here" THEN Reply([W EXCEPT !.conn[n].aborted = @ \/ W.conn[n].multi], n, r)
     ELSE IF cmd.op = "bad" \/ (cmd.op = "WATCH" /\ W.conn[n].multi)
          THEN Reply([W EXCEPT !.conn[n].aborted = @ \/ W.conn[n].multi], n, Tok("err", None))
     ELSE IF W.conn[n].multi
          THEN Reply([W EXCEPT !.conn[n].queue = Append(@, [id |-> cmd.id, slot |-> cmd.slot])],
                     n, Tok("queued", None))
     ELSE IF cmd.op = "WATCH"
          THEN Reply([W EXCEPT !.conn[n].watch = IF @ = "no" THEN "clean" ELSE @], n, Tok("ok", None))
     ELSE Reply(IF cmd.read THEN W ELSE Run(W, n, <<cmd.id>>), n, Tok("val", cmd.id))
     : r \in Route(W, n, cmd)}

\* A queued command whose slot has gone answers for the whole block.
Exec(W, n) ==
    LET c == W.conn[n]
        gone == {i \in DOMAIN c.queue :
                    c.queue[i].slot # None /\ W.cluster.owner[c.queue[i].slot] # n}
        ids == [i \in DOMAIN c.queue |-> c.queue[i].id]
    IN  IF ~c.multi \/ c.aborted THEN Reply(Out(W, n), n, Tok("err", None))
        ELSE IF gone # {}
             THEN Reply(Out(W, n), n, Tok("moved", W.cluster.owner[c.queue[CHOOSE i \in gone : TRUE].slot]))
        ELSE IF c.watch = "dirty" THEN Reply(Out(W, n), n, Tok("nil", None))
        ELSE FoldLeft(LAMBDA V, id : Reply(V, n, Tok("val", id)),
                      Reply(Run(Out(W, n), n, ids), n, Tok("exec", None)), ids)

\* A command that names no key, outside a block.
Alone(W, n, cmd) ==
    CASE cmd.op = "ASKING" -> [Reply(W, n, Tok("ok", None)) EXCEPT !.conn[n].asking = TRUE]
      [] cmd.op = "READONLY" -> [Reply(W, n, Tok("ok", None)) EXCEPT !.conn[n].readonly = TRUE]
      [] cmd.op = "UNWATCH" -> [Reply(W, n, Tok("ok", None)) EXCEPT !.conn[n].watch = "no"]
      [] cmd.op = "FLUSHDB" -> Reply(W, n, Tok(IF n \in Owners(W.cluster) THEN "ok" ELSE "err", None))
      [] OTHER -> Reply(Run(W, n, <<cmd.id>>), n, Tok("val", cmd.id))

Serve(W, n, cmd) ==
    LET c == W.conn[n]
        queued == [W EXCEPT !.conn[n].queue = Append(@, [id |-> cmd.id, slot |-> None])]
    IN  IF ~c.open THEN {W}
        ELSE CASE cmd.op \in {"cmd", "bad", "WATCH"} -> Keyed(W, n, cmd)
               [] cmd.op = "EXEC" -> {Exec(W, n)}
               [] cmd.op = "DISCARD" ->
                     {Reply(Out(W, n), n, Tok(IF c.multi THEN "ok" ELSE "err", None))}
               [] cmd.op = "MULTI" -> {Reply([W EXCEPT !.conn[n].multi = TRUE], n,
                                             Tok(IF c.multi THEN "err" ELSE "ok", None))}
               [] OTHER -> {IF c.multi THEN Reply(queued, n, Tok("queued", None))
                            ELSE Alone(W, n, cmd)}

----------------------------------------------------------------------------
(* One connection.                                                         *)

\* The items of the block kept for node n.
Items(W, n) == SelectSeq(W.obj.queue, LAMBDA i : W.obj.master[i.slot] = n)
Tear(W, ns) == [W EXCEPT !.note.torn = @ \cup ns]
\* A reply is given up while the connection stays.
GiveUp(W, n) == IF W.sock[n].status = "ready" THEN [W EXCEPT !.note.late = @ \cup {n}] ELSE W
Odd(W) == W.note.torn \cup W.note.late

redis_sock_disconnect(W, n) ==
    LET V == [W EXCEPT !.conn[n] = Closed,
                       !.sock[n] = [@ EXCEPT !.status = "disconnected", !.mode = FALSE, !.watching = FALSE]]
    IN  IF W.obj.mode /\ Items(W, n) # << >> THEN Tear(V, {n})
        ELSE [V EXCEPT !.note.torn = @ \ {n}, !.note.late = @ \ {n}]
Failed(W, n) == [redis_sock_disconnect(W, n) EXCEPT !.sock[n].status = "failed"]

redis_sock_server_open(W, n) ==
    CASE W.sock[n].status = "ready" -> Ok(W)
      [] W.sock[n].status = "disconnected" /\ W.cluster.up[n] ->
            Ok([W EXCEPT !.sock[n].status = "ready", !.conn[n] = Accepted])
      [] OTHER -> No(W)

\* A lost connection is replaced before a command is sent, but not in a block or
\* under WATCH, and not when a reply is due.  A socket that failed stays failed.
redis_check_eof(W, n, no_retry) ==
    IF W.sock[n].status # "ready" THEN No(W)
    ELSE IF W.conn[n].open \/ W.conn[n].wire # << >> THEN Ok(W)
    ELSE IF no_retry \/ W.sock[n].mode \/ W.sock[n].watching \/ ~W.cluster.up[n] THEN No(Failed(W, n))
    ELSE Ok([W EXCEPT !.conn[n] = Accepted])

\* What is written may still be lost with the connection.
CLUSTER_SEND_PAYLOAD(W, n, cmd) ==
    Chain({redis_sock_server_open(W, n)}, LAMBDA V :
    Chain({redis_check_eof(V, n, FALSE)}, LAMBDA U :
        {Ok(X) : X \in Serve(U, n, cmd)} \cup
        (IF MayFail(U) THEN {Ok(Fault([U EXCEPT !.conn[n].open = FALSE]))} ELSE {})))

\* The first line of a reply, or none: the connection is gone, or the timeout
\* has passed; the reply may then come later.
cluster_check_response(W, n) ==
    LET e == redis_check_eof(W, n, TRUE)
        none == [ok |-> FALSE, tok |-> Tok("none", None)]
    IN  IF ~e.ok THEN {[ok |-> FALSE, tok |-> none.tok, w |-> e.w]}
        ELSE (IF W.conn[n].wire = << >> THEN {[ok |-> FALSE, tok |-> none.tok, w |-> W]}
              ELSE {[ok |-> TRUE, tok |-> Head(W.conn[n].wire),
                     w |-> [W EXCEPT !.conn[n].wire = Tail(@)]]}) \cup
             (IF MayFail(W) THEN {[ok |-> FALSE, tok |-> none.tok, w |-> Fault(W)]} ELSE {})

\* A status line is wanted; of anything else the type byte is taken.  Either way
\* the connection is kept.
cluster_send_direct(W, n, op) ==
    Chain(CLUSTER_SEND_PAYLOAD(W, n, Plain(op)), LAMBDA V :
        {IF ~h.ok THEN No(GiveUp(h.w, n))
         ELSE IF h.tok.t \in {"ok", "queued"} THEN Ok(h.w)
         ELSE No(GiveUp([h.w EXCEPT !.conn[n].wire = <<Tok("text", None)>> \o @], n)) :
            h \in cluster_check_response(V, n)})

\* ASKING inside a block is queued like any other command.
cluster_send_asking(W, n) ==
    cluster_send_direct(IF W.conn[n].multi THEN Tear(W, {n}) ELSE W, n, "ASKING")
cluster_send_readonly(W, n) ==
    IF W.sock[n].readonly THEN {Ok(W)}
    ELSE Chain(cluster_send_direct(W, n, "READONLY"), LAMBDA V : {Ok([V EXCEPT !.sock[n].readonly = TRUE])})
cluster_send_multi(W, n) ==
    Chain(cluster_send_direct(W, n, "MULTI"), LAMBDA V : {Ok([V EXCEPT !.sock[V.call.at].mode = TRUE])})

----------------------------------------------------------------------------
(* Sending a command.                                                      *)

SendTo(W, n, cmd) ==
    Chain(CLUSTER_SEND_PAYLOAD(W, n, cmd), LAMBDA V : {Ok([V EXCEPT !.call.at = n])})

\* Each of ns in turn, in some order, until one has taken the command.
AnyOf(W, ns, To(_, _)) ==
    UNION {FoldLeft(LAMBDA A, n : Else(A, LAMBDA V : To(V, n)), {No(W)}, order) : order \in SetToSeqs(ns)}

\* A read-only command goes to the slot's master or its replicas.  The slot is
\* cmd_slot, and not the one the command was redirected to.
cluster_dist_write(W, cmd, nomaster) ==
    LET m == W.obj.master[W.call.cmd_slot]
        To(V, n) == IF n = m THEN SendTo(V, n, cmd)
                    ELSE Chain(cluster_send_readonly(V, n), LAMBDA U : SendTo(U, n, cmd))
    IN  AnyOf(W, W.obj.slaves[m] \cup (IF nomaster THEN {} ELSE {m}), To)

\* When the node does not take it, any other master may: it knows where to go.
cluster_sock_write(W, cmd, direct) ==
    LET n == W.call.at
        failover == IF W.obj.readonly THEN W.obj.failover ELSE "none"
        Write(V) ==
            CASE failover = "none" -> SendTo(V, n, cmd)
              [] failover = "error" ->
                    Else(SendTo(V, n, cmd), LAMBDA U : cluster_dist_write(U, cmd, TRUE))
              [] OTHER -> cluster_dist_write(V, cmd, failover = "slaves")
        Seed(V, s) ==
            Chain(SendTo(V, s, cmd), LAMBDA U : {Ok([U EXCEPT !.call.cmd_slot = U.obj.slot[s]])})
    IN  Chain(IF W.obj.redir.type = "ask" THEN cluster_send_asking(W, n) ELSE {Ok(W)},
              LAMBDA V : IF direct THEN Write(V)
                         ELSE Else(Write(V), LAMBDA U : AnyOf(U, U.obj.nodes \ {n}, Seed)))

\* The node is put into MULTI when the object is and it is not yet.
EnterMulti(W, n) == IF W.obj.mode /\ ~W.sock[n].mode THEN cluster_send_multi(W, n) ELSE {Ok(W)}

cluster_set_redirection(W, tok, slot) ==
    [W EXCEPT !.obj.redir = [type |-> tok.t, slot |-> slot, node |-> tok.v],
              !.obj.redirected = @ \/ tok.t = "moved"]

NewNode(W, n) == [W EXCEPT !.conn[n] = Closed, !.sock[n] = redis_sock_create, !.obj.slaves[n] = {}]

\* The process is gone, its connections with it.
Die(W) == [W EXCEPT !.call = [Idle EXCEPT !.phase = "dead"], !.conn = [n \in Node |-> Closed]]

\* Any seed that answers will do; all nodes are forgotten and mapped again.
cluster_map_keyspace(W) ==
    IF \A n \in Node : ~W.cluster.up[n] THEN W
    ELSE [W EXCEPT !.conn = [n \in Node |-> Closed], !.sock = [n \in Node |-> redis_sock_create],
                   !.obj = Mapped(@, W.cluster), !.note.torn = {}, !.note.late = {}]

\* A mistake to catch: the map of the slots is kept.
cluster_update_slot_never(W) == W
\* What MOVED teaches.  A node not known yet is looked for among the replicas of
\* the slot's master: one of them has been promoted, and the whole map is read
\* again.  Of a master without replicas the table is NULL, and reading it ends
\* the process (cluster_library.c:1407).
cluster_update_slot(W) ==
    LET s == W.obj.redir.slot
        n == W.obj.redir.node
        Moved(V) == [V EXCEPT !.obj.master[s] = n, !.obj.slot[n] = s, !.obj.nodes = @ \cup {n}]
    IN  IF n = W.obj.master[s] THEN W
        ELSE IF n \in W.obj.nodes THEN Moved(W)
        ELSE IF W.obj.slaves[W.obj.master[s]] = {} THEN Die(W)
        ELSE IF n \in W.obj.slaves[W.obj.master[s]] THEN cluster_map_keyspace(W)
        ELSE Moved(NewNode(W, n))

cluster_get_asking_node(W, n) == IF n \in W.obj.nodes THEN W ELSE NewNode(W, n)

----------------------------------------------------------------------------
(* cluster_send_command(): sent, answered, redirected and sent again.      *)

Misaligned(W, n) == W.conn[n].wire # << >> \/ W.conn[n].multi
End(W) ==
    [W EXCEPT !.call = Idle,
              !.note.torn = IF W.obj.mode THEN @ ELSE {n \in @ : Misaligned(W, n)},
              !.note.late = IF W.obj.mode THEN @ ELSE {n \in @ : Misaligned(W, n)}]

\* A method that fails inside MULTI keeps nothing for the node it has put there.
Throw(W) ==
    End(IF W.obj.mode /\ W.call.at # None /\ W.conn[W.call.at].multi THEN Tear(W, {W.call.at}) ELSE W)

Start(W, slots) ==
    [W EXCEPT !.call = [@ EXCEPT !.todo = slots, !.phase = "send", !.redirected = FALSE,
                                 !.cmd_slot = Head(slots), !.at = W.obj.master[Head(slots)],
                                 !.id = W.note.next],
              !.note.next = @ + 1]

\* One command, or one for each slot of MGET, MSET, DEL and WATCH.
Process(op, slots, read) ==
    /\ call = Idle /\ (obj.mode \/ Odd(World) = {})
    /\ note.next + Len(slots) - 1 <= MaxCommands
    /\ op = "WATCH" => ~obj.mode
    /\ Become(Start([World EXCEPT !.call.op = op, !.call.read = read,
                        !.obj.readonly = IF op = "WATCH" THEN @ ELSE read /\ ~obj.mode], slots))

Send ==
    /\ call.phase = "send"
    /\ \E a \in Chain(EnterMulti(World, call.at), LAMBDA V :
                     cluster_sock_write(V, Cmd(call.op, call.id, Head(call.todo),
                                               call.read \/ call.op = "WATCH"), FALSE)) :
          Become(IF a.ok THEN [a.w EXCEPT !.call.phase = "reply"] ELSE Throw(a.w))

TimesOut ==
    /\ call.phase = "send" /\ call.redirected /\ obj.waits
    /\ Become(Throw(redis_sock_disconnect(World, call.at)))

\* A mistake to catch: a reply that is lost is asked for again.
Redirected_lost(h) == ~h.ok \/ h.tok.t \in {"moved", "ask"}
Redirected(h) == h.ok /\ h.tok.t \in {"moved", "ask"}

\* Inside MULTI a redirection is an error.
Redirect(W, tok) ==
    LET V == IF tok.t \in {"moved", "ask"} THEN cluster_set_redirection(W, tok, Head(W.call.todo)) ELSE W
        Again(U, n) == [U EXCEPT !.call.at = n, !.call.phase = "send", !.call.redirected = TRUE]
        Followed == cluster_update_slot(V)
    IN  CASE W.obj.mode -> Throw(V)
          [] ~W.obj.mode /\ tok.t = "moved" ->
                IF Followed.call.phase = "dead" THEN Followed
                ELSE Again(Followed, Followed.obj.master[Head(Followed.call.todo)])
          [] ~W.obj.mode /\ tok.t = "ask" -> Again(cluster_get_asking_node(V, tok.v), tok.v)
          [] OTHER -> Again(V, V.call.at)

\* A mistake to catch: the connection whose reply did not come is kept.
Cleaned_kept(W) == W
Cleaned(W) == redis_sock_disconnect(W, W.call.at)

\* The reply is kept for EXEC, or it is the method's own.
Completed(W0, tok) ==
    LET W == [W0 EXCEPT !.obj.redir = NoRedir]
        slot == Head(W.call.todo)
        V == CASE W.call.op = "WATCH" -> [W EXCEPT !.sock[W.obj.master[slot]].watching = TRUE]
               [] W.call.op # "WATCH" /\ W.obj.mode ->
                    [W EXCEPT !.obj.queue = Append(@, [slot |-> slot, id |-> W.call.id])]
               [] OTHER -> IF tok = Tok("val", W.call.id) THEN W
                           ELSE [W EXCEPT !.note.swapped = @ \cup ({W.call.at} \ Odd(W))]
    IN  IF tok.t = "down" \/ (tok.t = "err" /\ W.call.op # "WATCH")
        THEN Throw(IF tok.t = "down" THEN W0 ELSE W)
        ELSE IF Len(W.call.todo) > 1 THEN Start(V, Tail(W.call.todo))
        ELSE End(V)

Receive ==
    /\ call.phase = "reply"
    /\ \E h \in cluster_check_response(World, call.at) :
          Become(IF Redirected(h) THEN Redirect(h.w, h.tok)
                 ELSE IF h.ok THEN Completed(h.w, h.tok)
                 ELSE Throw(Cleaned(h.w)))

----------------------------------------------------------------------------
(* Methods that name the node.                                             *)

\* What does not answer, or with another type, fails.
cluster_send_slot(W0, slot, cmd, types) ==
    LET n == W0.obj.master[slot]
        W == [W0 EXCEPT !.call.at = n, !.call.cmd_slot = slot]
    IN  UNION {IF ~a.ok THEN {[ok |-> FALSE, tok |-> Tok("none", None), w |-> a.w]}
               ELSE {[h EXCEPT !.ok = @ /\ h.tok.t \in types,
                               !.w = IF Redirected(h) THEN cluster_set_redirection(h.w, h.tok, slot)
                                     ELSE IF h.ok THEN h.w ELSE GiveUp(h.w, h.w.call.at)] : h \in cluster_check_response(a.w, a.w.call.at)}
               : a \in Chain(EnterMulti(W, n), LAMBDA V : cluster_sock_write(V, cmd, TRUE))}

\* FLUSHDB and the like keep nothing for EXEC; INFO, CLIENT and ACL do.
Directed(op, slot) ==
    LET line == {"ok", "queued", "down"}
        types == CASE op = "FLUSHDB" -> {"ok", "queued"}
                   [] op = "INFO" -> IF obj.mode THEN {"queued"} ELSE {"val"}
                   [] op = "DBSIZE" -> {"val"}
        id == note.next
        W == [World EXCEPT !.note.next = @ + 1, !.obj.readonly = @ /\ op # "INFO"]
    IN  /\ call = Idle /\ (obj.mode \/ Odd(World) = {}) /\ id <= MaxCommands
        /\ \E h \in cluster_send_slot(W, slot, Cmd(op, id, None, FALSE), types) :
              LET torn == IF obj.mode THEN {h.w.call.at, h.w.obj.master[slot]} ELSE {} IN
              Become(End(IF ~h.ok THEN Tear(h.w, torn)
                         ELSE IF obj.mode /\ op = "INFO"
                         THEN [h.w EXCEPT !.obj.queue = Append(@, [slot |-> slot, id |-> id])]
                         ELSE IF obj.mode THEN Tear(h.w, torn)
                         ELSE IF op = "FLUSHDB" \/ h.tok = Tok("val", id) THEN h.w
                         ELSE [h.w EXCEPT !.note.swapped = @ \cup {h.w.call.at}]))

----------------------------------------------------------------------------
(* Blocks.                                                                 *)

multi ==
    /\ call = Idle /\ ~obj.mode /\ Odd(World) = {}
    /\ Become([World EXCEPT !.obj.mode = TRUE])

\* Slots whose node is marked as watching, until one does not answer.
unwatch ==
    /\ call = Idle /\ ~obj.mode /\ Odd(World) = {}
    /\ \E order \in SetToSeqs({s \in Slot : sock[obj.master[s]].watching}) :
       \E a \in FoldLeft(LAMBDA A, s : Chain(A, LAMBDA V :
                    IF ~V.sock[V.obj.master[s]].watching THEN {Ok(V)}
                    ELSE {IF h.ok THEN Ok([h.w EXCEPT !.sock[h.w.obj.master[s]].watching = FALSE])
                          ELSE No(h.w) :
                             h \in cluster_send_slot(V, s, Plain("UNWATCH"), {"ok", "queued"})}),
                  {Ok(World)}, order) :
          order # << >> /\ Become(End(a.w))

CLUSTER_FREE_QUEUE(W) == [W EXCEPT !.obj.queue = << >>]
CLUSTER_RESET_MULTI(W) ==
    [W EXCEPT !.sock = [n \in Node |-> IF n \in W.obj.nodes
                                       THEN [W.sock[n] EXCEPT !.watching = FALSE, !.mode = FALSE]
                                       ELSE W.sock[n]],
              !.obj.mode = FALSE]

cluster_disconnect(W) ==
    FoldLeft(redis_sock_disconnect, W,
             SetToSeq(W.obj.nodes \cup UNION {W.obj.slaves[m] : m \in W.obj.nodes}))

\* cluster_send_discard() returns 0 when it fails and -1 when it succeeds, so
\* that the first node that discards ends the loop and all are disconnected.
cluster_abort_exec(W0) ==
    LET Discarded(V, i) ==
            LET n == V.obj.master[i.slot] IN
            IF ~V.sock[n].mode THEN {Ok(V)}
            ELSE {IF a.ok THEN No(cluster_disconnect(a.w))
                  ELSE Ok([a.w EXCEPT !.sock[n].mode = FALSE, !.sock[n].watching = FALSE,
                                      !.note.torn = @ \cup {n}])
                  : a \in cluster_send_direct(V, n, "DISCARD")}
    IN  {IF a.ok THEN [a.w EXCEPT !.obj.mode = FALSE] ELSE a.w :
            a \in FoldLeft(LAMBDA A, i : Chain(A, LAMBDA V : Discarded(V, i)), {Ok(W0)}, W0.obj.queue)}

Left(W) == End(CLUSTER_RESET_MULTI(CLUSTER_FREE_QUEUE(W)))

discard ==
    /\ call = Idle /\ obj.mode
    /\ \E W \in cluster_abort_exec(World) :
          Become(End(CLUSTER_FREE_QUEUE(IF W.obj.mode THEN CLUSTER_RESET_MULTI(W) ELSE W)))

close ==
    /\ call = Idle
    /\ Become(End(cluster_disconnect(World)))

exec ==
    /\ call = Idle /\ obj.mode
    /\ Become([World EXCEPT !.call = [Idle EXCEPT !.op = "exec", !.phase = "exec"]])

\* What each slot remembers of the last EXEC sent for it.
cluster_send_exec(W, slot) ==
    {[h EXCEPT !.w.obj.multi_len[slot] = IF h.tok.t \in {"exec", "val"} THEN 1 ELSE -1,
               !.w.call.sent = @ \cup {slot}] :
        h \in cluster_send_slot(W, slot, Plain("EXEC"), {"exec", "nil"})}

\* The nodes still in MULTI, each when the first of its items is met.  When one
\* fails the others have committed, or are told to discard.
NextExec ==
    LET left == SelectSeq(obj.queue, LAMBDA i : sock[obj.master[i.slot]].mode) IN
    /\ call.phase = "exec" /\ left # << >>
    /\ \E h \in cluster_send_exec(World, Head(left).slot) :
          LET n == obj.master[Head(left).slot] IN
          IF h.ok THEN Become([h.w EXCEPT !.sock[n].mode = FALSE, !.sock[n].watching = FALSE])
          ELSE \E W \in cluster_abort_exec(
                          Tear(h.w, {obj.master[i.slot] : i \in ToSet(obj.queue)})) :
                 Become(Left(W))

\* Items whose slot remembers another EXEC than the one sent for their node.
Stale(W) ==
    {i \in ToSet(W.obj.queue) :
        \E s \in W.call.sent : /\ W.obj.master[s] = W.obj.master[i.slot]
                               /\ (W.obj.multi_len[s] = -1) # (W.obj.multi_len[i.slot] = -1)}

\* The replies in the order of the commands; one that cannot be read ends it.
cluster_multi_mbulk_resp(W0) ==
    LET W == Tear(W0, {W0.obj.master[i.slot] : i \in Stale(W0)})
        Item(V, i) ==
            LET n == V.obj.master[i.slot] IN
            IF V.obj.multi_len[i.slot] = -1 THEN {Ok(V)}
            ELSE {IF ~h.ok THEN No(Tear(h.w, {V.obj.master[j.slot] : j \in ToSet(V.obj.queue)}))
                  ELSE Ok(IF h.tok = Tok("val", i.id) \/ n \in Odd(V) THEN h.w
                          ELSE [h.w EXCEPT !.note.swapped = @ \cup {n}])
                  : h \in cluster_check_response(V, n)}
    IN  FoldLeft(LAMBDA A, i : Chain(A, LAMBDA V : Item(V, i)), {Ok(W)}, W.obj.queue)

Collect ==
    /\ call.phase = "exec" /\ \A i \in ToSet(obj.queue) : ~sock[obj.master[i.slot]].mode
    /\ \E a \in cluster_multi_mbulk_resp(World) : Become(Left(a.w))

----------------------------------------------------------------------------
(* The object and the next one, and the cluster.                           *)

redisCluster ==
    [master |-> Master, nodes |-> {}, slaves |-> [m \in Node |-> {}], slot |-> [m \in Node |-> None],
     mode |-> FALSE, queue |-> << >>, multi_len |-> [s \in Slot |-> 0], redir |-> NoRedir,
     readonly |-> FALSE, redirected |-> FALSE, failover |-> "none", waits |-> FALSE]

\* cluster_free() drops the cached map if a slot was found to have moved.
free_and_construct ==
    LET kept == IF obj.redirected THEN None ELSE cache
        map == IF kept # None THEN kept ELSE cluster
        W == cluster_disconnect(World)
    IN  /\ call = Idle /\ (kept # None \/ \E n \in Node : cluster.up[n])
        /\ Become([W EXCEPT !.obj = Mapped([redisCluster EXCEPT !.failover = obj.failover,
                                                                !.waits = obj.waits], map),
                            !.sock = [n \in Node |-> redis_sock_create],
                            !.conn = [n \in Node |-> Closed],
                            !.cache = IF Cached THEN map ELSE None,
                            !.note.torn = {}, !.note.late = {}])

Event(W) == MayFail(World) /\ Become(Fault(W))
\* Nodes that serve slots, or could.
Masters == {n \in Node : cluster.up[n] /\ (ReplicaOf[n] = None \/ n \in Owners(cluster))}
Migrate(s, n) ==
    /\ cluster.importing[s] = None /\ n \in Masters \ {cluster.owner[s]}
    /\ Event([World EXCEPT !.cluster.importing[s] = n])
Settle(s) ==
    /\ cluster.importing[s] # None
    /\ Become([World EXCEPT !.cluster.owner[s] = cluster.importing[s], !.cluster.importing[s] = None])
Crash(n) ==
    /\ cluster.up[n]
    /\ \E wire \in {conn[n].wire, << >>} :
          Event([World EXCEPT !.cluster.up[n] = FALSE,
                              !.conn[n] = [Closed EXCEPT !.wire = wire]])
Restart(n) == ~cluster.up[n] /\ Become([World EXCEPT !.cluster.up[n] = TRUE])
Promote(r) ==
    LET m == ReplicaOf[r] IN
    /\ m # None /\ cluster.up[r] /\ m \in Owners(cluster) /\ ~cluster.up[m]
    /\ Event([World EXCEPT !.cluster.owner = [s \in Slot |-> IF @[s] = m THEN r ELSE @[s]],
                           !.cluster.importing =
                               [s \in Slot |-> IF cluster.owner[s] = m THEN None ELSE @[s]]])
Drop(n) ==
    /\ conn[n].open
    /\ Event([World EXCEPT !.conn[n] = [Closed EXCEPT !.wire = conn[n].wire]])
Touch(n) ==
    /\ conn[n].watch = "clean"
    /\ Event([World EXCEPT !.conn[n].watch = "dirty"])

Init ==
    /\ cluster = [owner |-> Master, importing |-> [s \in Slot |-> None], up |-> [n \in Node |-> TRUE]]
    /\ conn = [n \in Node |-> Closed] /\ sock = [n \in Node |-> redis_sock_create]
    /\ call = Idle /\ cache = IF Cached THEN cluster ELSE None
    /\ \E o \in Options :
          /\ obj = Mapped([redisCluster EXCEPT !.failover = o[1], !.waits = o[2]], cluster)
          /\ note = [executed |-> [i \in 1..MaxCommands |-> 0], next |-> 1, events |-> o[3],
                     late |-> {}, torn |-> {}, swapped |-> {}]

Step == Send \/ Receive \/ NextExec \/ Collect

Next ==
    \/ \E s \in Slot, read \in BOOLEAN : Process("cmd", <<s>>, read)
    \/ \E s, t \in Slot, read \in BOOLEAN : s # t /\ Process("cmd", <<s, t>>, read)
    \/ \E s \in Slot : Process("bad", <<s>>, FALSE) \/ Process("WATCH", <<s>>, FALSE)
    \/ \E s \in Slot, op \in {"FLUSHDB", "INFO", "DBSIZE"} : Directed(op, s)
    \/ Step \/ TimesOut
    \/ multi \/ unwatch \/ exec \/ discard \/ close \/ free_and_construct
    \/ \E s \in Slot : Settle(s) \/ \E n \in Node : Migrate(s, n)
    \/ \E n \in Node : Crash(n) \/ Restart(n) \/ Promote(n) \/ Drop(n) \/ Touch(n)

\* The process runs; a node that is down comes back, a migration comes to an
\* end; and when the object has a timeout it passes.
Fairness ==
    /\ WF_vars(Step) /\ SF_vars(TimesOut)
    /\ WF_vars(\E n \in Node : Restart(n))
    /\ WF_vars(\E s \in Slot : Settle(s))

Spec == Init /\ [][Next]_vars /\ Fairness

----------------------------------------------------------------------------
(* What the object promises.                                               *)

\* Whatever moves, breaks or is late, a command sent by cluster_send_command is
\* given the reply to itself, and between two commands no connection in use holds
\* a reply or is left in MULTI.  The connections the code is known to leave so are
\* named.  note.late: a reply was late, or not the status line wanted, and the
\* connection was kept; cluster_send_direct (cluster_library.c:261: READONLY,
\* ASKING, MULTI, DISCARD) and cluster_send_slot (:1521: UNWATCH, EXEC and every
\* method that names its node, inside a block or not) do that.  note.torn: a block
\* in which a command, an EXEC or a connection failed.  What the next command
\* would read there is not followed.
RepliesMatch ==
    /\ note.swapped = {}
    /\ call = Idle /\ ~obj.mode =>
          \A n \in Node : sock[n].status = "ready" /\ Misaligned(World, n) => n \in Odd(World)

\* However often it is redirected, refused or sent by way of another node
\* (cluster_send_command, cluster_sock_write), no write is executed twice.
AtMostOnce == \A i \in DOMAIN note.executed : note.executed[i] <= 1

\* The reads that are never taken where MOVED says: cmd_slot is that of the node
\* they were sent to instead, no replica can be asked, or one is no longer
\* READONLY since its connection was replaced.
Astray ==
    LET slot == Head(call.todo) IN
    /\ obj.readonly /\ obj.failover \in {"distribute", "slaves"}
    /\ \/ call.cmd_slot # slot
       \/ obj.failover = "slaves" /\ \A r \in obj.slaves[obj.master[slot]] : sock[r].status = "failed"
       \/ \E r \in Node : sock[r].readonly /\ ~conn[r].readonly

\* Without a timeout the loop of cluster_send_command() may not end: also when
\* the socket of the slot's node has failed, for it is never opened again.
Stuck ==
    /\ ~obj.waits /\ call.redirected
    /\ sock[obj.master[Head(call.todo)]].status = "failed" \/ Astray

\* A command that the cluster redirects comes to an end when slots stop moving:
\* with an answer, an exception or, where a master had no replicas, the death of
\* the process; the exceptions are those of Stuck.
EveryCallEnds == call # Idle ~> (call = Idle \/ call.phase = "dead" \/ Stuck)

\* The loop of cluster_send_command(), says its comment (cluster_library.c:1551),
\* "runs until we're able to get a valid reply from a node, hit our "request"
\* timeout, or encounter a CLUSTERDOWN state": the call returns.
EveryCallReturns == call # Idle ~> call = Idle

=============================================================================
