--------------------------- MODULE RedisSock_proofs ---------------------------
(***************************************************************************)
(* What RedisSock promises for any number of Redis objects, streams and    *)
(* network failures, any limit of the pool and any length of a block.      *)
(*                                                                         *)
(* The inductive invariant is SockInv, of the world as a whole.  For every *)
(* client it relates the object's notes (mode, callbacks, pipeline_cmd,    *)
(* database, watching) to the server's end of its stream: StreamOK; and it *)
(* says who owns each stream: Owned, Counted, PoolClean.  A method changes *)
(* the world many times before it returns, and in between its own client   *)
(* may have lost one stream and not have another yet.  So every operator   *)
(* the methods are built from is shown to keep Good(W, c), the invariant   *)
(* but that c itself need not be Idle; only at the end of a method is it   *)
(* the invariant again.                                                    *)
(*                                                                         *)
(* An operator returns a set of worlds.  Its lemma ...Is says what they    *)
(* may be, ...Good that they keep the invariant, and the last lemmas, one  *)
(* for each action, put them together.                                     *)
(***************************************************************************)
EXTENDS RedisSock, FiniteSetTheorems, SequenceTheorems, WellFoundedInduction, TLAPS

---------------------------------------------------------------------------
(* The types, field by field, and the server, command by command.          *)

Sent == Command \cup {"MULTI", "EXEC", "DISCARD", "RESET"}

ConnFields == {"open", "up", "db", "multi", "queue", "watch", "unread"}
ConnShape(r) == r = [f \in ConnFields |-> r[f]]
ConnFlags(r) ==
  /\ r.open \in BOOLEAN /\ r.up \in BOOLEAN /\ r.unread \in BOOLEAN
  /\ r.db \in {0, 1} /\ r.multi \in {"no", "queue", "aborted"} /\ r.watch \in {"no", "clean", "dirty"}
  /\ r.up => r.open
ConnQueue(r) ==
  /\ r.queue \in Seq(Command \ {"watch"})
  /\ r.multi = "no" => r.queue = << >>

ConnType(r) == ConnShape(r) /\ ConnFlags(r) /\ ConnQueue(r)

LEMMA NothingQueued == << >> \in Seq(Command \ {"watch"})
  OBVIOUS

\* A stream just closed, accepted, or closed by the server.
LEMMA ClosedIs ==
  /\ ConnType(Closed) /\ Closed.open = FALSE /\ Closed.up = FALSE /\ Closed.db = 0 /\ Closed.multi = "no"
  /\ Closed.watch = "no" /\ Closed.unread = FALSE
<1>1. ConnShape(Closed)
  BY DEF Closed, ConnShape, ConnFields
<1>2. /\ Closed.open = FALSE /\ Closed.up = FALSE /\ Closed.db = 0 /\ Closed.multi = "no"
      /\ Closed.watch = "no" /\ Closed.unread = FALSE /\ Closed.queue = << >>
  BY DEF Closed
<1> QED
  BY <1>1, <1>2, NothingQueued DEF ConnType, ConnFlags, ConnQueue

LEMMA AcceptedIs ==
  /\ ConnType(Accepted) /\ Accepted.open = TRUE /\ Accepted.up = TRUE /\ Accepted.db = 0
  /\ Accepted.multi = "no" /\ Accepted.watch = "no" /\ Accepted.unread = FALSE
<1>1. ConnShape(Accepted)
  BY DEF Closed, Accepted, ConnShape, ConnFields
<1>2. /\ Accepted.open = TRUE /\ Accepted.up = TRUE /\ Accepted.db = 0
      /\ Accepted.multi = "no" /\ Accepted.watch = "no" /\ Accepted.unread = FALSE
      /\ Accepted.queue = << >>
  BY DEF Closed, Accepted
<1> QED
  BY <1>1, <1>2, NothingQueued DEF ConnType, ConnFlags, ConnQueue

LEMMA DroppedIs ==
  ASSUME NEW q, q = [Closed EXCEPT !.open = TRUE]
  PROVE  /\ ConnType(q) /\ q.open = TRUE /\ q.up = FALSE /\ q.db = 0 /\ q.multi = "no"
         /\ q.watch = "no" /\ q.unread = FALSE
<1>1. ConnShape(q)
  BY DEF Closed, ConnShape, ConnFields
<1>2. /\ q.open = TRUE /\ q.up = FALSE /\ q.db = 0 /\ q.multi = "no"
      /\ q.watch = "no" /\ q.unread = FALSE /\ q.queue = << >>
  BY DEF Closed
<1> QED
  BY <1>1, <1>2, NothingQueued DEF ConnType, ConnFlags, ConnQueue

\* The server, command by command.
Served1(r, cmd, q, reply) == Serve(r, cmd).r = q /\ Serve(r, cmd).reply = reply

LEMMA UnfoldMulti ==
  ASSUME NEW r
  PROVE  /\ r.multi = "no" => Serve(r, "MULTI").r = [r EXCEPT !.multi = "queue"]
         /\ r.multi = "no" => Serve(r, "MULTI").reply = "ok"
         /\ r.multi # "no" => Serve(r, "MULTI").r = r
         /\ r.multi # "no" => Serve(r, "MULTI").reply = "err"
  BY DEF Serve, Command

LEMMA UnfoldDiscard ==
  ASSUME NEW r
  PROVE  /\ Serve(r, "DISCARD").r = [r EXCEPT !.multi = "no", !.queue = << >>, !.watch = "no"]
         /\ Serve(r, "DISCARD").reply = "ok"
  BY DEF Serve, Command

LEMMA UnfoldReset ==
  ASSUME NEW r
  PROVE  /\ Serve(r, "RESET").r = [Accepted EXCEPT !.unread = r.unread]
         /\ Serve(r, "RESET").reply = "ok"
  BY DEF Serve, Command

LEMMA UnfoldExec ==
  ASSUME NEW r, NEW d
  PROVE  /\ /\ r.multi = "queue" /\ r.watch # "dirty"
            /\ d = (IF Contains(r.queue, "select") THEN 1 ELSE r.db)
            =>
           /\ Serve(r, "EXEC").r = [r EXCEPT !.multi = "no", !.queue = << >>, !.watch = "no", !.db = d]
           /\ Serve(r, "EXEC").reply = "array"
         /\ ~(r.multi = "queue" /\ r.watch # "dirty") /\ d = r.db =>
           /\ Serve(r, "EXEC").r = [r EXCEPT !.multi = "no", !.queue = << >>, !.watch = "no", !.db = d]
           /\ Serve(r, "EXEC").reply = IF r.multi = "queue" THEN "nil" ELSE "err"
  BY DEF Serve, Command

LEMMA UnfoldQueued ==
  ASSUME NEW r, NEW cmd \in Command, r.multi # "no"
  PROVE  /\ cmd \in {"bad", "watch"} =>
              Serve(r, cmd).r = [r EXCEPT !.multi = "aborted"] /\ Serve(r, cmd).reply = "err"
         /\ cmd \notin {"bad", "watch"} =>
              Serve(r, cmd).r = [r EXCEPT !.queue = Append(@, cmd)] /\ Serve(r, cmd).reply = "queued"
  BY DEF Serve, Command

LEMMA UnfoldPlain ==
  ASSUME NEW r, NEW cmd \in Command, r.multi = "no"
  PROVE  /\ cmd = "select" => Serve(r, cmd).r = [r EXCEPT !.db = 1]
         /\ cmd = "watch" => Serve(r, cmd).r = [r EXCEPT !.watch = IF @ = "no" THEN "clean" ELSE @]
         /\ cmd = "unwatch" => Serve(r, cmd).r = [r EXCEPT !.watch = "no"]
  BY DEF Serve, Command

LEMMA UnfoldPlainReply ==
  ASSUME NEW r, NEW cmd \in Command, r.multi = "no"
  PROVE  /\ cmd = "bad" => Serve(r, cmd).reply = "err"
         /\ cmd # "bad" => Serve(r, cmd).reply = "ok"
         /\ cmd \in {"cmd", "bad"} => Serve(r, cmd).r = r
  BY DEF Serve, Command

LEMMA ServeMulti ==
  ASSUME NEW r, ConnType(r), NEW q, NEW reply, Served1(r, "MULTI", q, reply)
  PROVE  /\ ConnType(q) /\ q.unread = r.unread /\ q.open = r.open /\ q.up = r.up
         /\ q.db = r.db /\ q.watch = r.watch
         /\ r.multi = "no" => reply = "ok" /\ q.multi = "queue" /\ q.queue = << >>
         /\ r.multi # "no" => reply = "err" /\ q = r
<1>1. CASE r.multi = "no"
  <2>1. q = [r EXCEPT !.multi = "queue"] /\ reply = "ok"
    BY <1>1, UnfoldMulti DEF Served1
  <2>2. ConnShape(q)
    BY <2>1 DEF ConnType, ConnShape, ConnFields
  <2>3. /\ q.unread = r.unread /\ q.open = r.open /\ q.up = r.up
        /\ q.db = r.db /\ q.watch = r.watch /\ q.multi = "queue" /\ q.queue = r.queue
    BY <2>1 DEF ConnType, ConnShape, ConnFields
  <2> QED
    BY <1>1, <2>1, <2>2, <2>3 DEF ConnType, ConnFlags, ConnQueue
<1>2. CASE r.multi # "no"
  <2>2. q = r /\ reply = "err"
    BY <1>2, UnfoldMulti DEF Served1
  <2> QED
    BY <1>2, <2>2
<1> QED
  BY <1>1, <1>2

LEMMA ServeDiscard ==
  ASSUME NEW r, ConnType(r), NEW q, NEW reply, Served1(r, "DISCARD", q, reply)
  PROVE  /\ ConnType(q) /\ q.unread = r.unread /\ q.open = r.open /\ q.up = r.up
         /\ q.db = r.db /\ q.watch = "no" /\ q.multi = "no" /\ q.queue = << >> /\ reply = "ok"
<1>1. q = [r EXCEPT !.multi = "no", !.queue = << >>, !.watch = "no"] /\ reply = "ok"
  BY UnfoldDiscard DEF Served1
<1>2. ConnShape(q)
  BY <1>1 DEF ConnType, ConnShape, ConnFields
<1>3. /\ q.unread = r.unread /\ q.open = r.open /\ q.up = r.up
      /\ q.db = r.db /\ q.watch = "no" /\ q.multi = "no" /\ q.queue = << >>
  BY <1>1 DEF ConnType, ConnShape, ConnFields
<1> QED
  BY <1>1, <1>2, <1>3, NothingQueued DEF ConnType, ConnFlags, ConnQueue

LEMMA ServeReset ==
  ASSUME NEW r, ConnType(r), NEW q, NEW reply, Served1(r, "RESET", q, reply)
  PROVE  /\ ConnType(q) /\ q.unread = r.unread /\ q.open = TRUE /\ q.up = TRUE
         /\ q.db = 0 /\ q.watch = "no" /\ q.multi = "no" /\ q.queue = << >> /\ reply = "ok"
<1>1. q = [Accepted EXCEPT !.unread = r.unread] /\ reply = "ok"
  BY UnfoldReset DEF Served1
<1>2. ConnShape(q)
  BY <1>1 DEF Accepted, Closed, ConnShape, ConnFields
<1>3. /\ q.unread = r.unread /\ q.open = TRUE /\ q.up = TRUE
      /\ q.db = 0 /\ q.watch = "no" /\ q.multi = "no" /\ q.queue = << >>
  BY <1>1 DEF Accepted, Closed
<1> QED
  BY <1>1, <1>2, <1>3, NothingQueued DEF ConnType, ConnFlags, ConnQueue

LEMMA ServeExec ==
  ASSUME NEW r, ConnType(r), NEW q, NEW reply, Served1(r, "EXEC", q, reply)
  PROVE  /\ ConnType(q) /\ q.unread = r.unread /\ q.open = r.open /\ q.up = r.up
         /\ q.watch = "no" /\ q.multi = "no" /\ q.queue = << >>
         /\ reply \in {"array", "nil", "err"}
         /\ (reply = "array") <=> (r.multi = "queue" /\ r.watch # "dirty")
         /\ reply = "nil" => r.watch = "dirty"
         /\ q.db = IF reply = "array" /\ Contains(r.queue, "select") THEN 1 ELSE r.db
<1>1. ASSUME NEW d \in {0, 1},
             q = [r EXCEPT !.multi = "no", !.queue = << >>, !.watch = "no", !.db = d]
      PROVE  /\ ConnType(q) /\ q.unread = r.unread /\ q.open = r.open /\ q.up = r.up
             /\ q.db = d /\ q.watch = "no" /\ q.multi = "no" /\ q.queue = << >>
  <2>1. ConnShape(q)
    BY <1>1 DEF ConnType, ConnShape, ConnFields
  <2>2. /\ q.unread = r.unread /\ q.open = r.open /\ q.up = r.up
        /\ q.db = d /\ q.watch = "no" /\ q.multi = "no" /\ q.queue = << >>
    BY <1>1 DEF ConnType, ConnShape, ConnFields
  <2> QED
    BY <2>1, <2>2, NothingQueued DEF ConnType, ConnFlags, ConnQueue
<1>2. r.db \in {0, 1}
  BY DEF ConnType, ConnFlags
<1>3. CASE r.multi = "queue" /\ r.watch # "dirty"
  <2>1. PICK d \in {0, 1} : d = IF Contains(r.queue, "select") THEN 1 ELSE r.db
    BY <1>2
  <2>2. q = [r EXCEPT !.multi = "no", !.queue = << >>, !.watch = "no", !.db = d] /\ reply = "array"
    <3>1. /\ Serve(r, "EXEC").r = [r EXCEPT !.multi = "no", !.queue = << >>, !.watch = "no", !.db = d]
          /\ Serve(r, "EXEC").reply = "array"
      BY <1>3, <2>1, UnfoldExec, Zenon
    <3> QED
      BY <3>1 DEF Served1
  <2> QED
    BY <1>1, <1>3, <2>1, <2>2
<1>4. CASE ~(r.multi = "queue" /\ r.watch # "dirty")
  <2>1. /\ q = [r EXCEPT !.multi = "no", !.queue = << >>, !.watch = "no", !.db = r.db]
        /\ reply = IF r.multi = "queue" THEN "nil" ELSE "err"
    <3>1. /\ Serve(r, "EXEC").r = [r EXCEPT !.multi = "no", !.queue = << >>, !.watch = "no", !.db = r.db]
          /\ Serve(r, "EXEC").reply = IF r.multi = "queue" THEN "nil" ELSE "err"
      BY <1>4, UnfoldExec, Zenon
    <3> QED
      BY <3>1 DEF Served1
  <2> QED
    BY <1>1, <1>2, <1>4, <2>1
<1> QED
  BY <1>3, <1>4

LEMMA ServeQueued ==
  ASSUME NEW r, ConnType(r), NEW cmd \in Command, r.multi # "no",
         NEW q, NEW reply, Served1(r, cmd, q, reply)
  PROVE  /\ ConnType(q) /\ q.unread = r.unread /\ q.open = r.open /\ q.up = r.up
         /\ q.db = r.db /\ q.watch = r.watch /\ q.multi # "no"
         /\ \/ cmd \in {"bad", "watch"} /\ reply = "err" /\ q.multi = "aborted"
            \/ cmd \notin {"bad", "watch"} /\ reply = "queued" /\ q.multi = r.multi /\ q.queue = Append(r.queue, cmd)
<1>1. CASE cmd \in {"bad", "watch"}
  <2>1. q = [r EXCEPT !.multi = "aborted"] /\ reply = "err"
    BY <1>1, UnfoldQueued DEF Served1
  <2>2. ConnShape(q)
    BY <2>1 DEF ConnType, ConnShape, ConnFields
  <2>3. /\ q.unread = r.unread /\ q.open = r.open /\ q.up = r.up
        /\ q.db = r.db /\ q.watch = r.watch /\ q.multi = "aborted" /\ q.queue = r.queue
    BY <2>1 DEF ConnType, ConnShape, ConnFields
  <2> QED
    BY <1>1, <2>1, <2>2, <2>3 DEF ConnType, ConnFlags, ConnQueue
<1>2. CASE cmd \notin {"bad", "watch"}
  <2>1. q = [r EXCEPT !.queue = Append(@, cmd)] /\ reply = "queued"
    BY <1>2, UnfoldQueued DEF Served1
  <2>2. ConnShape(q)
    BY <2>1 DEF ConnType, ConnShape, ConnFields
  <2>3. /\ q.unread = r.unread /\ q.open = r.open /\ q.up = r.up
        /\ q.db = r.db /\ q.watch = r.watch /\ q.multi = r.multi /\ q.queue = Append(r.queue, cmd)
    BY <2>1 DEF ConnType, ConnShape, ConnFields
  <2>4. q.queue \in Seq(Command \ {"watch"})
    BY <1>2, <2>3 DEF ConnType, ConnQueue
  <2> QED
    BY <1>2, <2>1, <2>2, <2>3, <2>4 DEF ConnType, ConnFlags, ConnQueue
<1> QED
  BY <1>1, <1>2

LEMMA ServePlain ==
  ASSUME NEW r, ConnType(r), NEW cmd \in Command, r.multi = "no",
         NEW q, NEW reply, Served1(r, cmd, q, reply)
  PROVE  /\ ConnType(q) /\ q.unread = r.unread /\ q.open = r.open /\ q.up = r.up
         /\ q.multi = "no" /\ reply = IF cmd = "bad" THEN "err" ELSE "ok"
         /\ q.db = IF cmd = "select" THEN 1 ELSE r.db
         /\ cmd = "watch" => q.watch = IF r.watch = "no" THEN "clean" ELSE r.watch
         /\ cmd = "unwatch" => q.watch = "no"
         /\ cmd \notin {"watch", "unwatch"} => q.watch = r.watch
<1>a. /\ cmd = "bad" => Serve(r, cmd).reply = "err"
      /\ cmd # "bad" => Serve(r, cmd).reply = "ok"
      /\ cmd \in {"cmd", "bad"} => Serve(r, cmd).r = r
  BY UnfoldPlainReply
<1>0. reply = IF cmd = "bad" THEN "err" ELSE "ok"
  BY <1>a DEF Served1
<1>1. CASE cmd = "select"
  <2>1. q = [r EXCEPT !.db = 1]
    BY <1>1, UnfoldPlain DEF Served1
  <2>2. ConnShape(q)
    BY <2>1 DEF ConnType, ConnShape, ConnFields
  <2>3. /\ q.unread = r.unread /\ q.open = r.open /\ q.up = r.up
        /\ q.db = 1 /\ q.watch = r.watch /\ q.multi = r.multi /\ q.queue = r.queue
    BY <2>1 DEF ConnType, ConnShape, ConnFields
  <2> QED
    BY <1>0, <1>1, <2>2, <2>3 DEF ConnType, ConnFlags, ConnQueue
<1>2. CASE cmd \in {"watch", "unwatch"}
  <2>1. PICK x : x = IF cmd = "unwatch" THEN "no" ELSE IF r.watch = "no" THEN "clean" ELSE r.watch
    OBVIOUS
  <2>2. q = [r EXCEPT !.watch = x]
    BY <1>2, <2>1, UnfoldPlain DEF Served1
  <2>3. ConnShape(q)
    BY <2>2 DEF ConnType, ConnShape, ConnFields
  <2>4. /\ q.unread = r.unread /\ q.open = r.open /\ q.up = r.up
        /\ q.db = r.db /\ q.watch = x /\ q.multi = r.multi /\ q.queue = r.queue
    BY <2>2 DEF ConnType, ConnShape, ConnFields
  <2> QED
    BY <1>0, <1>2, <2>1, <2>3, <2>4 DEF ConnType, ConnFlags, ConnQueue
<1>3. CASE cmd \notin {"select", "watch", "unwatch"}
  <2>1. q = r
    BY <1>3, <1>a DEF Served1, Command
  <2> QED
    BY <1>0, <1>3, <2>1
<1> QED
  BY <1>1, <1>2, <1>3

---------------------------------------------------------------------------
(* The inductive invariant, and the ways one client's step can keep it: on its*)
(* own stream, giving one up, getting one.                                 *)

WorldFields == {"client", "conn", "pool", "nb_active", "faults", "ghost"}
GhostFields == {"torn", "unread", "mixed", "blind", "unguarded", "spurious", "drift"}
SockFields == {"status", "stream", "persistent", "db", "mode", "watching", "callbacks",
               "pipeline_cmd", "watched", "touched"}

Shape(W) ==
  /\ W = [f \in WorldFields |-> W[f]]
  /\ W.client = [c \in Client |-> W.client[c]]
  /\ W.conn = [s \in Streams |-> W.conn[s]]
  /\ W.ghost = [f \in GhostFields |-> W.ghost[f]]

SockShape(k) == k = [f \in SockFields |-> k[f]]
SockFlags(k) ==
  /\ k.status \in {"none", "failed", "disconnected", "connected", "ready"}
  /\ k.stream \in Streams \cup {NoStream} /\ k.persistent \in BOOLEAN /\ k.db \in {0, 1}
  /\ k.mode \in SUBSET {"MULTI", "PIPELINE"} /\ k.watching \in BOOLEAN
  /\ k.watched \in BOOLEAN /\ k.touched \in BOOLEAN
  /\ k.touched => k.watched
  /\ (k.status \in {"connected", "ready"}) <=> (k.stream # NoStream)
  /\ k.status = "connected" => k.mode # {"MULTI"}
SockNotes(k) == /\ k.callbacks \in Seq(Command \cup {"null"})
                /\ k.pipeline_cmd \in Seq(Command \cup {"MULTI", "EXEC"})
SockType(k) == SockShape(k) /\ SockFlags(k) /\ SockNotes(k)

GhostType(g) ==
  /\ g.torn \subseteq Client /\ g.unread \subseteq Client /\ g.mixed \subseteq Client
  /\ g.blind \subseteq Client /\ g.unguarded = {} /\ g.spurious \subseteq Client
  /\ g.drift \in Nat

NumbersType(W) ==
  /\ W.nb_active \in Int /\ (Limit > 0 => W.nb_active <= Limit)
  /\ W.faults \in 0..MaxFaults /\ W.ghost.drift <= W.faults

Held(W, c) == W.client[c].stream # NoStream
Keepers(W) == {c \in Client : Held(W, c) /\ W.client[c].persistent}

Owned(W) ==
  /\ W.pool \in Seq(Streams)
  /\ \A i, j \in 1..Len(W.pool) : W.pool[i] = W.pool[j] => i = j
  /\ \A i \in 1..Len(W.pool) : /\ W.conn[W.pool[i]].open
                               /\ \A c \in Client : W.client[c].stream # W.pool[i]
  /\ \A c, d \in Client : c # d /\ Held(W, c) => W.client[c].stream # W.client[d].stream
  /\ \A c \in Client : Held(W, c) => W.conn[W.client[c].stream].open

Counted(W) == W.nb_active + W.ghost.drift = Len(W.pool) + Cardinality(Keepers(W))

PoolClean(W) ==
  W.ghost.unread = {} =>
    \A i \in 1..Len(W.pool) : W.conn[W.pool[i]].multi = "no" /\ ~W.conn[W.pool[i]].unread

\* Of what a client reads nothing is left of somebody else's pipeline.
Quiet(g, c) == g.unread = {} \/ (ini.echo /\ c \notin g.unread)

OpenEnd(cmds) ==
  \E j \in 1..Len(cmds) : cmds[j] = "MULTI" /\ \A l \in j..Len(cmds) : cmds[l] # "EXEC"

NotesOK(g, c, k) ==
  c \in g.torn \/ /\ ~Torn(k)
                  /\ "PIPELINE" \in k.mode /\ OpenEnd(k.pipeline_cmd) => "MULTI" \in k.mode

DatabaseOK(g, c, k, r) ==
  c \in g.mixed \/ c \in g.unread \/ c \in g.blind
  \/ /\ k.status = "ready" /\ k.db = 1 => r.db = 1 \/ ~r.up
     /\ k.db = 0 /\ ~k.persistent => r.db = 0
CleanOK(g, c, k, r) ==
  c \in g.mixed \/ ~Quiet(g, c) \/ (~r.unread /\ (k.mode # {"MULTI"} => r.multi = "no"))
QueueOK(g, c, k, r) ==
  c \in g.torn \/ (k.mode = {"MULTI"} /\ r.up /\ r.multi = "queue" => k.callbacks = r.queue)
WatchOK(g, c, k, r) ==
  c \in g.mixed
  \/ /\ k.watched => k.watching
     /\ r.up /\ ~r.unread =>
          /\ k.watched => r.watch # "no"
          /\ k.touched => r.watch = "dirty"
          /\ ~k.watched /\ ~k.persistent => r.watch = "no"

StreamOK(g, c, k, r) ==
  DatabaseOK(g, c, k, r) /\ CleanOK(g, c, k, r) /\ QueueOK(g, c, k, r) /\ WatchOK(g, c, k, r)

Explained(g, c, k) ==
  /\ c \in g.spurious => k.persistent
  /\ c \in g.mixed => c \in g.torn \/ ~Quiet(g, c)

Idle(k) == k.stream = NoStream => k.mode = {} /\ ~k.watched

ClientsOK(W) ==
  \A c \in Client :
    /\ SockType(W.client[c])
    /\ NotesOK(W.ghost, c, W.client[c])
    /\ Explained(W.ghost, c, W.client[c])
    /\ Held(W, c) => StreamOK(W.ghost, c, W.client[c], W.conn[W.client[c].stream])

\* Everything, but that client c may be on its way from a stream to another.
Good(W, c) ==
  /\ Shape(W) /\ GhostType(W.ghost) /\ NumbersType(W)
  /\ \A s \in Streams : ConnType(W.conn[s])
  /\ Owned(W) /\ Counted(W) /\ PoolClean(W)
  /\ ClientsOK(W)
  /\ \A d \in Client \ {c} : Idle(W.client[d])

\* The invariant: every client's own notes and its stream agree, streams are
\* owned once and counted, and a client without a stream is outside any block.
AllGood(W) ==
  /\ Shape(W) /\ GhostType(W.ghost) /\ NumbersType(W)
  /\ \A s \in Streams : ConnType(W.conn[s])
  /\ Owned(W) /\ Counted(W) /\ PoolClean(W)
  /\ ClientsOK(W)
  /\ \A d \in Client : Idle(W.client[d])

SockInv == AllGood(World) /\ ini \in Ini

\* What was noted of the others stays.
OthersNoted(g, h, c) ==
  /\ \A d \in Client \ {c} : /\ d \in h.torn <=> d \in g.torn
                             /\ d \in h.mixed <=> d \in g.mixed
                             /\ d \in h.unread <=> d \in g.unread
                             /\ d \in h.blind <=> d \in g.blind
                             /\ d \in h.spurious <=> d \in g.spurious
  /\ g.unread \subseteq h.unread

LEMMA OthersOK ==
  ASSUME NEW g, NEW h, NEW c \in Client, OthersNoted(g, h, c), NEW d \in Client, d # c,
         NEW k, NEW r
  PROVE  /\ NotesOK(g, d, k) => NotesOK(h, d, k)
         /\ Explained(g, d, k) => Explained(h, d, k)
         /\ StreamOK(g, d, k, r) => StreamOK(h, d, k, r)
<1>1. Quiet(h, d) => Quiet(g, d)
  BY DEF OthersNoted, Quiet
<1>2. NotesOK(g, d, k) => NotesOK(h, d, k)
  BY DEF OthersNoted, NotesOK
<1>3. Explained(g, d, k) => Explained(h, d, k)
  BY <1>1 DEF OthersNoted, Explained
<1>4. DatabaseOK(g, d, k, r) => DatabaseOK(h, d, k, r)
  BY DEF OthersNoted, DatabaseOK
<1>5. CleanOK(g, d, k, r) => CleanOK(h, d, k, r)
  BY <1>1 DEF OthersNoted, CleanOK
<1>6. QueueOK(g, d, k, r) => QueueOK(h, d, k, r)
  BY DEF OthersNoted, QueueOK
<1>7. WatchOK(g, d, k, r) => WatchOK(h, d, k, r)
  BY DEF OthersNoted, WatchOK
<1> QED
  BY <1>2, <1>3, <1>4, <1>5, <1>6, <1>7 DEF StreamOK

\* A client does something on its own stream.
LEMMA Stays ==
  ASSUME NEW W, NEW c \in Client, Good(W, c), NEW V, Shape(V), NEW s \in Streams,
         W.client[c].stream = s,
         NEW k, SockType(k), k.stream = s, k.persistent = W.client[c].persistent,
         NEW r, ConnType(r), r.open,
         V.client = [W.client EXCEPT ![c] = k], V.conn = [W.conn EXCEPT ![s] = r],
         V.pool = W.pool, V.nb_active = W.nb_active, NumbersType(V),
         V.ghost.drift = W.ghost.drift, GhostType(V.ghost), OthersNoted(W.ghost, V.ghost, c),
         NotesOK(V.ghost, c, k), Explained(V.ghost, c, k), StreamOK(V.ghost, c, k, r)
  PROVE  Good(V, c) /\ Idle(V.client[c])
<1>1. /\ V.client[c] = k /\ \A d \in Client \ {c} : V.client[d] = W.client[d]
      /\ V.conn[s] = r /\ \A x \in Streams \ {s} : V.conn[x] = W.conn[x]
  BY DEF Good, Shape
<1>2. \A d \in Client : Held(V, d) = Held(W, d) /\ V.client[d].stream = W.client[d].stream
                        /\ V.client[d].persistent = W.client[d].persistent
  BY <1>1 DEF Held
<1>3. \A d \in Client \ {c} : Held(W, d) => W.client[d].stream \in Streams \ {s}
  BY DEF Good, Owned, Held, ClientsOK, SockType, SockFlags
<1>4. \A i \in 1..Len(W.pool) : W.pool[i] \in Streams \ {s}
  BY DEF Good, Owned
<1>5. \A x \in Streams : ConnType(V.conn[x])
  BY <1>1 DEF Good
<1>6. Owned(V)
  BY <1>1, <1>2, <1>3, <1>4 DEF Good, Owned
<1>7. Counted(V)
  <2>1. Keepers(V) = Keepers(W)
    BY <1>2 DEF Keepers
  <2> QED
    BY <2>1 DEF Good, Counted
<1>8. PoolClean(V)
  <2>1. V.ghost.unread = {} => W.ghost.unread = {}
    BY DEF OthersNoted
  <2> QED
    BY <1>1, <1>4, <2>1 DEF Good, PoolClean
<1>9. ClientsOK(V)
  <2>1. ASSUME NEW d \in Client, d # c
        PROVE  /\ SockType(V.client[d]) /\ NotesOK(V.ghost, d, V.client[d])
               /\ Explained(V.ghost, d, V.client[d])
               /\ Held(V, d) => StreamOK(V.ghost, d, V.client[d], V.conn[V.client[d].stream])
    <3>1. V.client[d] = W.client[d]
      BY <1>1, <2>1
    <3>2. Held(V, d) => Held(W, d) /\ V.conn[V.client[d].stream] = W.conn[W.client[d].stream]
      BY <1>1, <1>2, <1>3, <2>1
    <3> QED
      BY <2>1, <3>1, <3>2, OthersOK DEF Good, ClientsOK
  <2>2. NoStream \notin Streams
    BY DEF NoStream, Streams
  <2> QED
    BY <1>1, <2>1, <2>2 DEF ClientsOK
<1>10. /\ \A d \in Client \ {c} : Idle(V.client[d])
       /\ Idle(V.client[c])
  BY <1>1 DEF Good, Idle, NoStream, Streams
<1> QED
  BY <1>5, <1>6, <1>7, <1>8, <1>9, <1>10 DEF Good

\* Holders of persistent streams, one fewer and one more.
LEMMA KeepersLess ==
  ASSUME NEW W, NEW V, NEW c \in Client,
         \A d \in Client \ {c} : V.client[d] = W.client[d], ~Held(V, c)
  PROVE  /\ c \in Keepers(W) => Cardinality(Keepers(V)) = Cardinality(Keepers(W)) - 1
         /\ c \notin Keepers(W) => Keepers(V) = Keepers(W)
         /\ Cardinality(Keepers(V)) \in Nat /\ Cardinality(Keepers(W)) \in Nat
<1>1. Keepers(V) = Keepers(W) \ {c}
  BY DEF Keepers, Held
<1>2. IsFiniteSet(Keepers(W))
  <2>1. IsFiniteSet(Client) /\ Keepers(W) \subseteq Client
    BY SockAssumption DEF Keepers
  <2> QED
    BY <2>1, FS_Subset
<1>3. /\ IsFiniteSet(Keepers(W) \ {c})
      /\ Cardinality(Keepers(W) \ {c}) = IF c \in Keepers(W) THEN Cardinality(Keepers(W)) - 1 ELSE Cardinality(Keepers(W))
  BY <1>2, FS_RemoveElement
<1>4. Cardinality(Keepers(V)) \in Nat /\ Cardinality(Keepers(W)) \in Nat
  BY <1>1, <1>2, <1>3, FS_CardinalityType
<1> QED
  BY <1>1, <1>3, <1>4

\* What becomes of the stream a client gives up.
GivesUp(W, V, c) ==
  LET s == W.client[c].stream
      p == W.client[c].persistent
  IN  \/ s = NoStream /\ V.conn = W.conn /\ V.pool = W.pool /\ V.nb_active = W.nb_active
      \/ /\ s # NoStream /\ V.conn = [W.conn EXCEPT ![s] = Closed] /\ V.pool = W.pool
         /\ V.nb_active = IF p THEN W.nb_active - 1 ELSE W.nb_active
      \/ /\ s # NoStream /\ p /\ V.conn = W.conn /\ V.pool = << s >> \o W.pool
         /\ V.nb_active = W.nb_active
         /\ V.ghost.unread = {} => W.conn[s].multi = "no" /\ ~W.conn[s].unread

LEMMA Leaves ==
  ASSUME NEW W, NEW c \in Client, Good(W, c), NEW V, Shape(V),
         NEW k, SockType(k), k.stream = NoStream,
         V.client = [W.client EXCEPT ![c] = k], GivesUp(W, V, c), NumbersType(V),
         V.ghost.drift = W.ghost.drift, GhostType(V.ghost), OthersNoted(W.ghost, V.ghost, c),
         NotesOK(V.ghost, c, k), Explained(V.ghost, c, k)
  PROVE  Good(V, c)
<1> DEFINE s == W.client[c].stream
<1>1. /\ V.client[c] = k /\ \A d \in Client \ {c} : V.client[d] = W.client[d]
      /\ ~Held(V, c)
  BY DEF Good, Shape, Held
<1>2. s \in Streams \cup {NoStream} /\ NoStream \notin Streams
  BY DEF Good, ClientsOK, SockType, SockFlags, NoStream, Streams
<1>3. \A x \in Streams \ {s} : V.conn[x] = W.conn[x]
  BY DEF GivesUp, Good, Shape
<1>4. \A x \in Streams : V.conn[x] = W.conn[x] \/ (x = s /\ V.conn[x] = Closed /\ V.pool = W.pool)
  BY DEF GivesUp, Good, Shape
<1>5. \A x \in Streams : ConnType(V.conn[x])
  BY <1>4, ClosedIs DEF Good
<1>6. \A d \in Client \ {c} : Held(W, d) => W.client[d].stream \in Streams \ {s}
  BY DEF Good, Owned, Held, ClientsOK, SockType, SockFlags
<1>7. /\ \A i \in 1..Len(W.pool) : W.pool[i] \in Streams \ {s}
      /\ W.pool \in Seq(Streams)
      /\ \A i, j \in 1..Len(W.pool) : W.pool[i] = W.pool[j] => i = j
  BY DEF Good, Owned
<1>8. /\ V.pool \in Seq(Streams)
      /\ \A i, j \in 1..Len(V.pool) : V.pool[i] = V.pool[j] => i = j
      /\ \A i \in 1..Len(V.pool) : (V.pool[i] = s /\ s # NoStream /\ V.conn = W.conn)
                                    \/ \E j \in 1..Len(W.pool) : V.pool[i] = W.pool[j]
      /\ V.pool = W.pool \/ Len(V.pool) = Len(W.pool) + 1
  <2>1. CASE V.pool = W.pool
    BY <1>7, <2>1
  <2>2. CASE s # NoStream /\ V.conn = W.conn /\ V.pool = << s >> \o W.pool
    <3>1. Len(V.pool) = Len(W.pool) + 1 /\ V.pool \in Seq(Streams)
      BY <1>2, <1>7, <2>2
    <3>2. \A i \in 1..Len(V.pool) : V.pool[i] = IF i = 1 THEN s ELSE W.pool[i - 1]
      BY <1>2, <1>7, <2>2
    <3>3. \A i \in 1..Len(V.pool) : i # 1 => i - 1 \in 1..Len(W.pool) /\ V.pool[i] = W.pool[i - 1]
      BY <1>7, <3>1, <3>2
    <3>4. \A i \in 1..Len(V.pool) : i # 1 => V.pool[i] # s
      BY <1>7, <3>3
    <3>5. ASSUME NEW i \in 1..Len(V.pool), NEW j \in 1..Len(V.pool), V.pool[i] = V.pool[j]
          PROVE  i = j
      <4>1. CASE i = 1 \/ j = 1
        BY <3>2, <3>4, <3>5, <4>1
      <4>2. CASE i # 1 /\ j # 1
        <5>1. i - 1 = j - 1
          BY <1>7, <3>3, <3>5, <4>2
        <5> QED
          BY <5>1
      <4> QED
        BY <4>1, <4>2
    <3>6. ASSUME NEW i \in 1..Len(V.pool)
          PROVE  (V.pool[i] = s /\ s # NoStream /\ V.conn = W.conn)
                  \/ \E j \in 1..Len(W.pool) : V.pool[i] = W.pool[j]
      BY <2>2, <3>2, <3>3
    <3> QED
      BY <3>1, <3>5, <3>6
  <2> QED
    BY <2>1, <2>2 DEF GivesUp
<1>9. Owned(V)
  <2>1. \A i \in 1..Len(V.pool) : /\ V.conn[V.pool[i]].open
                                  /\ \A d \in Client : V.client[d].stream # V.pool[i]
    <3>1. ASSUME NEW i \in 1..Len(V.pool), V.pool[i] = s, s # NoStream, V.conn = W.conn
          PROVE  /\ V.conn[V.pool[i]].open
                 /\ \A d \in Client : V.client[d].stream # V.pool[i]
      BY <1>1, <1>2, <1>6, <3>1 DEF Good, Owned, Held
    <3>2. ASSUME NEW i \in 1..Len(V.pool), NEW j \in 1..Len(W.pool), V.pool[i] = W.pool[j]
          PROVE  /\ V.conn[V.pool[i]].open
                 /\ \A d \in Client : V.client[d].stream # V.pool[i]
      BY <1>1, <1>2, <1>3, <1>7, <3>2 DEF Good, Owned, Held
    <3> QED
      BY <1>8, <3>1, <3>2
  <2>2. \A d, e \in Client : d # e /\ Held(V, d) => V.client[d].stream # V.client[e].stream
    BY <1>1 DEF Good, Owned, Held
  <2>3. \A d \in Client : Held(V, d) => V.conn[V.client[d].stream].open
    BY <1>1, <1>3, <1>6 DEF Good, Owned, Held
  <2> QED
    BY <1>8, <2>1, <2>2, <2>3 DEF Owned
<1>10. Counted(V)
  <2>1. /\ c \in Keepers(W) => Cardinality(Keepers(V)) = Cardinality(Keepers(W)) - 1
        /\ c \notin Keepers(W) => Keepers(V) = Keepers(W)
        /\ Cardinality(Keepers(V)) \in Nat /\ Cardinality(Keepers(W)) \in Nat
    BY <1>1, KeepersLess
  <2>2. c \in Keepers(W) <=> s # NoStream /\ W.client[c].persistent
    BY DEF Keepers, Held
  <2>3. /\ W.nb_active + W.ghost.drift = Len(W.pool) + Cardinality(Keepers(W))
        /\ W.nb_active \in Int /\ W.ghost.drift \in Nat /\ Len(W.pool) \in Nat
    BY <1>7 DEF Good, Counted, NumbersType, GhostType
  <2>4. CASE s = NoStream
    BY <2>1, <2>2, <2>3, <2>4 DEF GivesUp, Counted
  <2>5. CASE s # NoStream /\ V.pool = W.pool /\ W.client[c].persistent /\ V.nb_active = W.nb_active - 1
    BY <2>1, <2>2, <2>3, <2>5 DEF Counted
  <2>6. CASE s # NoStream /\ V.pool = W.pool /\ ~W.client[c].persistent /\ V.nb_active = W.nb_active
    BY <2>1, <2>2, <2>3, <2>6 DEF Counted
  <2>7. CASE s # NoStream /\ V.pool = << s >> \o W.pool /\ W.client[c].persistent /\ V.nb_active = W.nb_active
    <3>1. Len(V.pool) = Len(W.pool) + 1
      BY <1>2, <1>7, <2>7
    <3> QED
      BY <2>1, <2>2, <2>3, <2>7, <3>1 DEF Counted
  <2> QED
    BY <2>4, <2>5, <2>6, <2>7 DEF GivesUp
<1>11. PoolClean(V)
  <2> SUFFICES ASSUME V.ghost.unread = {}, NEW i \in 1..Len(V.pool)
               PROVE  V.conn[V.pool[i]].multi = "no" /\ ~V.conn[V.pool[i]].unread
    BY DEF PoolClean
  <2>1. W.ghost.unread = {}
    BY DEF OthersNoted
  <2>2. CASE \E j \in 1..Len(W.pool) : V.pool[i] = W.pool[j]
    BY <1>3, <1>7, <2>1, <2>2 DEF Good, PoolClean
  <2>3. CASE V.pool[i] = s /\ s # NoStream /\ V.conn = W.conn /\ ~\E j \in 1..Len(W.pool) : V.pool[i] = W.pool[j]
    <3>1. V.pool # W.pool
      BY <2>3
    <3> QED
      BY <2>3, <3>1 DEF GivesUp
  <2> QED
    BY <1>8, <2>2, <2>3
<1>12. ClientsOK(V)
  <2>1. ASSUME NEW d \in Client, d # c
        PROVE  /\ SockType(V.client[d]) /\ NotesOK(V.ghost, d, V.client[d])
               /\ Explained(V.ghost, d, V.client[d])
               /\ Held(V, d) => StreamOK(V.ghost, d, V.client[d], V.conn[V.client[d].stream])
    <3>1. V.client[d] = W.client[d]
      BY <1>1, <2>1
    <3>2. Held(V, d) => Held(W, d) /\ V.conn[V.client[d].stream] = W.conn[W.client[d].stream]
      BY <1>3, <1>6, <2>1, <3>1 DEF Held
    <3> QED
      BY <2>1, <3>1, <3>2, OthersOK DEF Good, ClientsOK
  <2> QED
    BY <1>1, <2>1 DEF ClientsOK
<1>13. \A d \in Client \ {c} : Idle(V.client[d])
  BY <1>1 DEF Good
<1> QED
  BY <1>5, <1>9, <1>10, <1>11, <1>12, <1>13 DEF Good

LEMMA FrontOfPool ==
  ASSUME NEW W, Owned(W), W.pool # << >>
  PROVE  /\ Front(W.pool) \in Seq(Streams) /\ Len(Front(W.pool)) = Len(W.pool) - 1
         /\ \A i \in 1..Len(Front(W.pool)) : Front(W.pool)[i] = W.pool[i] /\ i \in 1..Len(W.pool)
                                             /\ W.pool[i] # Last(W.pool)
         /\ Last(W.pool) = W.pool[Len(W.pool)] /\ Len(W.pool) \in 1..Len(W.pool)
         /\ Last(W.pool) \in Streams
<1>1. W.pool \in Seq(Streams) /\ Len(W.pool) \in Nat /\ Len(W.pool) > 0
  BY DEF Owned
<1>2. Front(W.pool) = SubSeq(W.pool, 1, Len(W.pool) - 1) /\ Last(W.pool) = W.pool[Len(W.pool)]
  BY DEF Front, Last
<1>3. Len(Front(W.pool)) = Len(W.pool) - 1 /\ Front(W.pool) \in Seq(Streams)
      /\ \A i \in 1..Len(Front(W.pool)) : Front(W.pool)[i] = W.pool[i]
  BY <1>1, <1>2
<1> QED
  BY <1>1, <1>2, <1>3 DEF Owned

\* Where a client gets a stream from.
Gets(W, V, c, s, r) ==
  \/ /\ ~W.conn[s].open /\ V.pool = W.pool
     /\ V.nb_active = IF W.client[c].persistent THEN W.nb_active + 1 ELSE W.nb_active
  \/ /\ W.client[c].persistent /\ W.pool # << >> /\ s = Last(W.pool)
     /\ V.pool = Front(W.pool) /\ V.nb_active = W.nb_active

\* One stream more is held, and the pool or nb_active accounts for it.
LEMMA GetsCounted ==
  ASSUME NEW W, NEW V, NEW c \in Client, NEW s, NEW r, Gets(W, V, c, s, r), ~Held(W, c), Held(V, c),
         V.client[c].persistent = W.client[c].persistent,
         \A d \in Client \ {c} : V.client[d] = W.client[d], V.ghost.drift = W.ghost.drift,
         W.nb_active \in Int, W.ghost.drift \in Nat, Owned(W), Counted(W)
  PROVE  Counted(V)
<1>1. /\ c \in Keepers(V) => Cardinality(Keepers(W)) = Cardinality(Keepers(V)) - 1
      /\ c \notin Keepers(V) => Keepers(W) = Keepers(V)
      /\ Cardinality(Keepers(V)) \in Nat /\ Cardinality(Keepers(W)) \in Nat
  <2>1. \A d \in Client \ {c} : W.client[d] = V.client[d]
    OBVIOUS
  <2> QED
    BY <2>1, KeepersLess
<1>2. c \in Keepers(V) <=> W.client[c].persistent
  BY DEF Keepers
<1>x. PICK x \in Nat, y \in Nat : x = Cardinality(Keepers(W)) /\ y = Cardinality(Keepers(V))
  BY <1>1
<1>n. PICK n \in Int, d \in Nat, l \in Nat : n = W.nb_active /\ d = W.ghost.drift /\ l = Len(W.pool)
  BY DEF Owned
<1>3. n + d = l + x
  BY <1>x, <1>n DEF Counted
<1>p. y = IF W.client[c].persistent THEN x + 1 ELSE x
  BY <1>1, <1>2, <1>x
<1>4. CASE V.pool = W.pool /\ W.client[c].persistent /\ V.nb_active = W.nb_active + 1
  <2>1. V.nb_active = n + 1 /\ V.ghost.drift = d /\ Len(V.pool) = l /\ y = x + 1
    BY <1>4, <1>n, <1>p
  <2>2. (n + 1) + d = l + (x + 1)
    BY <1>3
  <2> QED
    BY <2>1, <2>2, <1>x DEF Counted
<1>5. CASE V.pool = W.pool /\ ~W.client[c].persistent /\ V.nb_active = W.nb_active
  <2>1. V.nb_active = n /\ V.ghost.drift = d /\ Len(V.pool) = l /\ y = x
    BY <1>5, <1>n, <1>p
  <2> QED
    BY <2>1, <1>3, <1>x DEF Counted
<1>6. CASE W.client[c].persistent /\ W.pool # << >> /\ V.pool = Front(W.pool) /\ V.nb_active = W.nb_active
  <2>1. Len(V.pool) = Len(W.pool) - 1
    BY <1>6, FrontOfPool
  <2>2. V.nb_active = n /\ V.ghost.drift = d /\ Len(V.pool) = l - 1 /\ y = x + 1
    BY <2>1, <1>6, <1>n, <1>p
  <2>3. n + d = (l - 1) + (x + 1)
    BY <1>3
  <2> QED
    BY <2>2, <2>3, <1>x DEF Counted
<1> QED
  BY <1>4, <1>5, <1>6 DEF Gets

LEMMA Arrives ==
  ASSUME NEW W, NEW c \in Client, Good(W, c), ~Held(W, c), NEW V, Shape(V), NEW s \in Streams,
         NEW k, SockType(k), k.stream = s, k.persistent = W.client[c].persistent,
         NEW r, ConnType(r), r.open,
         V.client = [W.client EXCEPT ![c] = k], V.conn = [W.conn EXCEPT ![s] = r],
         Gets(W, V, c, s, r), NumbersType(V),
         V.ghost.drift = W.ghost.drift, GhostType(V.ghost), OthersNoted(W.ghost, V.ghost, c),
         NotesOK(V.ghost, c, k), Explained(V.ghost, c, k), StreamOK(V.ghost, c, k, r)
  PROVE  Good(V, c) /\ Idle(V.client[c])
<1>1. /\ V.client[c] = k /\ \A d \in Client \ {c} : V.client[d] = W.client[d]
      /\ V.conn[s] = r /\ \A x \in Streams \ {s} : V.conn[x] = W.conn[x]
      /\ Held(V, c) /\ NoStream \notin Streams
  <2>1. V.client[c] = k /\ \A d \in Client \ {c} : V.client[d] = W.client[d]
    BY DEF Good, Shape
  <2>2. V.conn[s] = r /\ \A x \in Streams \ {s} : V.conn[x] = W.conn[x]
    BY DEF Good, Shape
  <2>3. NoStream \notin Streams
    BY DEF NoStream, Streams
  <2> QED
    BY <2>1, <2>2, <2>3 DEF Held
<1>2. Owned(W) /\ W.pool \in Seq(Streams)
  BY DEF Good, Owned
<1>3. \A d \in Client \ {c} : Held(W, d) => W.client[d].stream \in Streams \ {s}
  <2>1. CASE ~W.conn[s].open
    BY <2>1 DEF Good, Owned, Held, ClientsOK, SockType, SockFlags
  <2>2. CASE W.pool # << >> /\ s = Last(W.pool)
    <3>1. \A d \in Client : W.client[d].stream # s
      BY <1>2, <2>2, FrontOfPool DEF Owned
    <3> QED
      BY <3>1 DEF Good, Held, ClientsOK, SockType, SockFlags
  <2> QED
    BY <2>1, <2>2 DEF Gets
<1>4. /\ V.pool \in Seq(Streams) /\ Len(V.pool) <= Len(W.pool)
      /\ \A i \in 1..Len(V.pool) : V.pool[i] = W.pool[i] /\ i \in 1..Len(W.pool)
                                   /\ W.pool[i] \in Streams \ {s}
  <2>1. CASE ~W.conn[s].open /\ V.pool = W.pool
    BY <1>2, <2>1 DEF Owned
  <2>2. CASE W.pool # << >> /\ s = Last(W.pool) /\ V.pool = Front(W.pool)
    BY <1>2, <2>2, FrontOfPool
  <2> QED
    BY <2>1, <2>2 DEF Gets
<1>5. \A x \in Streams : ConnType(V.conn[x])
  BY <1>1 DEF Good
<1>6. Owned(V)
  <2>1. \A i, j \in 1..Len(V.pool) : V.pool[i] = V.pool[j] => i = j
    BY <1>2, <1>4 DEF Owned
  <2>2. \A i \in 1..Len(V.pool) : V.conn[V.pool[i]].open
    BY <1>1, <1>2, <1>4 DEF Owned
  <2>3. ASSUME NEW i \in 1..Len(V.pool), NEW d \in Client
        PROVE  V.client[d].stream # V.pool[i]
    <3>1. W.client[d].stream # W.pool[i] /\ V.pool[i] = W.pool[i] /\ V.pool[i] # s
      BY <1>2, <1>4 DEF Owned
    <3> QED
      BY <1>1, <3>1
  <2>4. \A d, e \in Client : d # e /\ Held(V, d) => V.client[d].stream # V.client[e].stream
    <3> SUFFICES ASSUME NEW d \in Client, NEW e \in Client, d # e, Held(V, d),
                        V.client[d].stream = V.client[e].stream
                 PROVE  FALSE
      OBVIOUS
    <3>1. CASE d = c
      BY <1>1, <1>3, <3>1 DEF Held
    <3>2. CASE e = c
      BY <1>1, <1>3, <3>2 DEF Held
    <3>3. CASE d # c /\ e # c
      BY <1>1, <1>2, <3>3 DEF Held, Owned
    <3> QED
      BY <3>1, <3>2, <3>3
  <2>5. \A d \in Client : Held(V, d) => V.conn[V.client[d].stream].open
    BY <1>1, <1>2, <1>3 DEF Owned, Held
  <2> QED
    BY <1>4, <2>1, <2>2, <2>3, <2>4, <2>5 DEF Owned
<1>7. Counted(V)
  <2>1. W.nb_active \in Int /\ W.ghost.drift \in Nat /\ Counted(W)
    BY DEF Good, NumbersType, GhostType
  <2>2. /\ V.client[c].persistent = W.client[c].persistent
        /\ Held(V, c) /\ \A d \in Client \ {c} : V.client[d] = W.client[d]
    BY <1>1
  <2> QED
    BY <1>2, <2>1, <2>2, GetsCounted
<1>8. PoolClean(V)
  <2>1. V.ghost.unread = {} => W.ghost.unread = {}
    BY DEF OthersNoted
  <2> QED
    BY <1>1, <1>4, <2>1 DEF Good, PoolClean
<1>9. ClientsOK(V)
  <2>1. ASSUME NEW d \in Client, d # c
        PROVE  /\ SockType(V.client[d]) /\ NotesOK(V.ghost, d, V.client[d])
               /\ Explained(V.ghost, d, V.client[d])
               /\ Held(V, d) => StreamOK(V.ghost, d, V.client[d], V.conn[V.client[d].stream])
    <3>1. V.client[d] = W.client[d]
      BY <1>1, <2>1
    <3>2. Held(V, d) => Held(W, d) /\ V.conn[V.client[d].stream] = W.conn[W.client[d].stream]
      BY <1>1, <1>3, <2>1, <3>1 DEF Held
    <3> QED
      BY <2>1, <3>1, <3>2, OthersOK DEF Good, ClientsOK
  <2> QED
    BY <1>1, <2>1 DEF ClientsOK
<1>10. Idle(V.client[c]) /\ \A d \in Client \ {c} : Idle(V.client[d])
  BY <1>1 DEF Good, Idle
<1> QED
  BY <1>5, <1>6, <1>7, <1>8, <1>9, <1>10 DEF Good

\* A stream taken from the pool that is not good enough is closed and counted off.
LEMMA Discards ==
  ASSUME NEW W, NEW c \in Client, Good(W, c), ~Held(W, c), W.pool # << >>, NEW V, Shape(V),
         NEW k, SockType(k), k.stream = NoStream,
         V.client = [W.client EXCEPT ![c] = k], V.conn = [W.conn EXCEPT ![Last(W.pool)] = Closed],
         V.pool = Front(W.pool), NumbersType(V),
         V.nb_active + V.ghost.drift = (W.nb_active + W.ghost.drift) - 1,
         GhostType(V.ghost), OthersNoted(W.ghost, V.ghost, c),
         NotesOK(V.ghost, c, k), Explained(V.ghost, c, k)
  PROVE  Good(V, c)
<1>0. PICK s \in Streams : s = Last(W.pool)
  BY FrontOfPool DEF Good
<1>1. /\ V.client[c] = k /\ \A d \in Client \ {c} : V.client[d] = W.client[d]
      /\ V.conn[s] = Closed /\ \A x \in Streams \ {s} : V.conn[x] = W.conn[x]
      /\ ~Held(V, c) /\ NoStream \notin Streams
  <2>1. V.client[c] = k /\ \A d \in Client \ {c} : V.client[d] = W.client[d]
    BY DEF Good, Shape
  <2>2. V.conn[s] = Closed /\ \A x \in Streams \ {s} : V.conn[x] = W.conn[x]
    BY <1>0 DEF Good, Shape
  <2>3. NoStream \notin Streams
    BY DEF NoStream, Streams
  <2> QED
    BY <2>1, <2>2, <2>3 DEF Held
<1>2. Owned(W) /\ W.pool \in Seq(Streams)
  BY DEF Good, Owned
<1>3. \A d \in Client \ {c} : Held(W, d) => W.client[d].stream \in Streams \ {s}
  <2>1. \A d \in Client : W.client[d].stream # s
    BY <1>0, <1>2, FrontOfPool DEF Owned
  <2> QED
    BY <2>1 DEF Good, Held, ClientsOK, SockType, SockFlags
<1>4. /\ V.pool \in Seq(Streams) /\ Len(V.pool) = Len(W.pool) - 1
      /\ \A i \in 1..Len(V.pool) : V.pool[i] = W.pool[i] /\ i \in 1..Len(W.pool)
                                   /\ W.pool[i] \in Streams \ {s}
  BY <1>0, <1>2, FrontOfPool
<1>5. \A x \in Streams : ConnType(V.conn[x])
  BY <1>1, ClosedIs DEF Good
<1>6. Owned(V)
  <2>1. \A i, j \in 1..Len(V.pool) : V.pool[i] = V.pool[j] => i = j
    BY <1>2, <1>4 DEF Owned
  <2>2. \A i \in 1..Len(V.pool) : V.conn[V.pool[i]].open
    BY <1>1, <1>2, <1>4 DEF Owned
  <2>3. ASSUME NEW i \in 1..Len(V.pool), NEW d \in Client
        PROVE  V.client[d].stream # V.pool[i]
    <3>1. W.client[d].stream # W.pool[i] /\ V.pool[i] = W.pool[i] /\ V.pool[i] \in Streams
      BY <1>2, <1>4 DEF Owned
    <3> QED
      BY <1>1, <3>1
  <2>4. \A d, e \in Client : d # e /\ Held(V, d) => V.client[d].stream # V.client[e].stream
    BY <1>1, <1>2 DEF Owned, Held
  <2>5. \A d \in Client : Held(V, d) => V.conn[V.client[d].stream].open
    BY <1>1, <1>2, <1>3 DEF Owned, Held
  <2> QED
    BY <1>4, <2>1, <2>2, <2>3, <2>4, <2>5 DEF Owned
<1>7. Counted(V)
  <2>1. Keepers(V) = Keepers(W) /\ Cardinality(Keepers(W)) \in Nat
    <3>1. c \notin Keepers(W)
      BY DEF Keepers
    <3>2. ~Held(V, c) /\ \A d \in Client \ {c} : V.client[d] = W.client[d]
      BY <1>1
    <3> QED
      BY <3>1, <3>2, KeepersLess
  <2>2. /\ W.nb_active + W.ghost.drift = Len(W.pool) + Cardinality(Keepers(W))
        /\ W.nb_active \in Int /\ W.ghost.drift \in Nat /\ Len(W.pool) \in Nat
    BY <1>2 DEF Good, Counted, NumbersType, GhostType
  <2> QED
    BY <1>4, <2>1, <2>2 DEF Counted
<1>8. PoolClean(V)
  <2>1. V.ghost.unread = {} => W.ghost.unread = {}
    BY DEF OthersNoted
  <2> QED
    BY <1>1, <1>4, <2>1 DEF Good, PoolClean
<1>9. ClientsOK(V)
  <2>1. ASSUME NEW d \in Client, d # c
        PROVE  /\ SockType(V.client[d]) /\ NotesOK(V.ghost, d, V.client[d])
               /\ Explained(V.ghost, d, V.client[d])
               /\ Held(V, d) => StreamOK(V.ghost, d, V.client[d], V.conn[V.client[d].stream])
    <3>1. V.client[d] = W.client[d]
      BY <1>1, <2>1
    <3>2. Held(V, d) => Held(W, d) /\ V.conn[V.client[d].stream] = W.conn[W.client[d].stream]
      BY <1>1, <1>3, <2>1, <3>1 DEF Held
    <3> QED
      BY <2>1, <3>1, <3>2, OthersOK DEF Good, ClientsOK
  <2> QED
    BY <1>1, <2>1 DEF ClientsOK
<1>10. \A d \in Client \ {c} : Idle(V.client[d])
  BY <1>1 DEF Good
<1> QED
  BY <1>5, <1>6, <1>7, <1>8, <1>9, <1>10 DEF Good

---------------------------------------------------------------------------
(* redis_sock_disconnect, and what is left of a client that has lost its stream.*)

\* What the fields may hold, whatever the stream's state.
SockBits(k) ==
  /\ k.status \in {"none", "failed", "disconnected", "connected", "ready"}
  /\ k.stream \in Streams \cup {NoStream} /\ k.persistent \in BOOLEAN /\ k.db \in {0, 1}
  /\ k.mode \in SUBSET {"MULTI", "PIPELINE"} /\ k.watching \in BOOLEAN
  /\ k.watched \in BOOLEAN /\ k.touched \in BOOLEAN
  /\ k.touched => k.watched

\* What is left of a client when its stream is gone.
Parted(k, p) ==
  /\ SockType(p) /\ p.stream = NoStream /\ p.persistent = k.persistent /\ p.db = k.db
  /\ p.watching = FALSE /\ p.callbacks \in {<< >>, k.callbacks} /\ p.pipeline_cmd = k.pipeline_cmd
  /\ p.watched \in {FALSE, k.watched} /\ p.touched \in {FALSE, k.touched}

\* The client and its stream after redis_sock_disconnect.
Disconnected(W, D, c, k, p, force, rm) ==
  /\ Parted(k, p) /\ p.status = "disconnected" /\ p.mode = (IF rm THEN {} ELSE k.mode)
  /\ p.watched = k.watched /\ p.touched = k.touched
  /\ Shape(D) /\ D.client = [W.client EXCEPT ![c] = p] /\ D.faults = W.faults
  /\ D.ghost = [W.ghost EXCEPT !.torn = IF Torn(p) THEN @ \cup {c} ELSE @]
  /\ \/ k.stream = NoStream /\ D.conn = W.conn /\ D.pool = W.pool /\ D.nb_active = W.nb_active
     \/ /\ k.stream # NoStream /\ D.conn = [W.conn EXCEPT ![k.stream] = Closed]
        /\ D.pool = W.pool
        /\ D.nb_active = IF k.persistent THEN W.nb_active - 1 ELSE W.nb_active
     \/ /\ k.stream # NoStream /\ ~force /\ k.mode = {} /\ k.persistent /\ D.conn = W.conn
        /\ D.pool = << k.stream >> \o W.pool /\ D.nb_active = W.nb_active

LEMMA DisconnectIs ==
  ASSUME NEW W, Shape(W), NEW c \in Client, NEW k, k = W.client[c],
         SockShape(k), SockBits(k), SockNotes(k),
         GhostType(W.ghost), NEW force \in BOOLEAN, NEW rm \in BOOLEAN,
         NEW D, D = redis_sock_disconnect(W, c, force, rm)
  PROVE  \E p : Disconnected(W, D, c, k, p, force, rm)
<1>s. PICK s : s = k.stream
  OBVIOUS
<1>cb. PICK cb : cb = IF s # NoStream /\ k.persistent /\ ~Reusable(k, force) THEN << >> ELSE k.callbacks
  OBVIOUS
<1>k1. PICK k1 : k1 = [k EXCEPT !.callbacks = cb]
  OBVIOUS
<1>p. PICK p : p = [k1 EXCEPT !.stream = NoStream, !.status = "disconnected",
                              !.watching = FALSE, !.mode = IF rm THEN {} ELSE k.mode]
  OBVIOUS
<1>W1. PICK W1 : W1 = IF s = NoStream THEN W
                      ELSE IF ~k.persistent THEN [W EXCEPT !.conn[s] = Closed]
                      ELSE IF Reusable(k, force) THEN [W EXCEPT !.pool = << s >> \o @]
                      ELSE [W EXCEPT !.conn[s] = Closed, !.client[c].callbacks = << >>,
                                     !.nb_active = @ - 1]
  OBVIOUS
<1>W2. PICK W2 : W2 = [W1 EXCEPT !.client[c] = [@ EXCEPT !.stream = NoStream, !.status = "disconnected",
                                                         !.watching = FALSE,
                                                         !.mode = IF rm THEN {} ELSE k.mode]]
  OBVIOUS
<1>1. D = Noted(W2, c)
  BY <1>s, <1>W1, <1>W2 DEF redis_sock_disconnect
<1>2. SockShape(k1) /\ k1.callbacks = cb
      /\ \A f \in SockFields : f # "callbacks" => k1[f] = k[f]
  BY <1>k1 DEF SockShape, SockFields
<1>3. /\ Shape(W1) /\ W1.client = [W.client EXCEPT ![c] = k1] /\ W1.client[c] = k1
      /\ W1.faults = W.faults /\ W1.ghost = W.ghost
      /\ \/ k.stream = NoStream /\ W1.conn = W.conn /\ W1.pool = W.pool /\ W1.nb_active = W.nb_active
         \/ /\ k.stream # NoStream /\ W1.conn = [W.conn EXCEPT ![k.stream] = Closed]
            /\ W1.pool = W.pool
            /\ W1.nb_active = IF k.persistent THEN W.nb_active - 1 ELSE W.nb_active
         \/ /\ k.stream # NoStream /\ ~force /\ k.mode = {} /\ k.persistent /\ W1.conn = W.conn
            /\ W1.pool = << k.stream >> \o W.pool /\ W1.nb_active = W.nb_active
  <2>0. s \in Streams \cup {NoStream}
    BY <1>s DEF SockBits
  <2>1. CASE ~(s # NoStream /\ k.persistent /\ ~Reusable(k, force))
    <3>1. k1 = k
      BY <1>cb, <1>k1, <2>1 DEF SockShape, SockFields
    <3>2. W.client = [W.client EXCEPT ![c] = k1] /\ W.client[c] = k1
      BY <3>1 DEF Shape
    <3> QED
      BY <1>s, <1>W1, <2>0, <2>1, <3>2 DEF Shape, WorldFields, Reusable
  <2>2. CASE s # NoStream /\ k.persistent /\ ~Reusable(k, force)
    <3>1. W1 = [W EXCEPT !.conn[s] = Closed, !.client[c].callbacks = << >>, !.nb_active = @ - 1]
      BY <1>W1, <2>2
    <3> QED
      BY <1>s, <1>cb, <1>k1, <2>0, <2>2, <3>1 DEF Shape, WorldFields
  <2> QED
    BY <2>1, <2>2
<1>4. /\ Shape(W2) /\ W2.client = [W1.client EXCEPT ![c] = p] /\ W2.client[c] = p
      /\ W2.conn = W1.conn /\ W2.pool = W1.pool /\ W2.nb_active = W1.nb_active
      /\ W2.faults = W1.faults /\ W2.ghost = W1.ghost
  <2>1. W2 = [W1 EXCEPT !.client[c] = p]
    BY <1>3, <1>p, <1>W2
  <2>2. Shape(W1)
    BY <1>3
  <2>3. /\ Shape(W2) /\ W2.client = [W1.client EXCEPT ![c] = p] /\ W2.client[c] = p
        /\ W2.conn = W1.conn /\ W2.pool = W1.pool /\ W2.nb_active = W1.nb_active
        /\ W2.faults = W1.faults /\ W2.ghost = W1.ghost
    BY <2>1, <2>2 DEF Shape, WorldFields
  <2> QED
    BY <2>3
<1>5. /\ Shape(D) /\ D.client = W2.client
      /\ D.conn = W2.conn /\ D.pool = W2.pool /\ D.nb_active = W2.nb_active
      /\ D.faults = W2.faults /\ D.ghost = [W2.ghost EXCEPT !.torn = IF Torn(p) THEN @ \cup {c} ELSE @]
  <2>1. D = [W2 EXCEPT !.ghost.torn = IF Torn(p) THEN @ \cup {c} ELSE @]
    BY <1>1, <1>4 DEF Noted
  <2> QED
    BY <1>4, <2>1 DEF Shape, WorldFields, GhostFields
<1>6. /\ SockShape(p) /\ p.stream = NoStream /\ p.status = "disconnected" /\ p.watching = FALSE
      /\ p.mode = (IF rm THEN {} ELSE k.mode) /\ p.persistent = k.persistent /\ p.db = k.db
      /\ p.callbacks = cb /\ p.pipeline_cmd = k.pipeline_cmd
      /\ p.watched = k.watched /\ p.touched = k.touched
  BY <1>2, <1>p DEF SockShape, SockFields
<1>7. SockType(p)
  <2>1. SockFlags(p)
    BY <1>6 DEF SockBits, SockFlags, NoStream, Streams
  <2>2. SockNotes(p)
    <3>1. cb \in {<< >>, k.callbacks}
      BY <1>cb
    <3>2. k.callbacks \in Seq(Command \cup {"null"}) /\ k.pipeline_cmd \in Seq(Command \cup {"MULTI", "EXEC"})
      BY DEF SockNotes
    <3>3. << >> \in Seq(Command \cup {"null"})
      OBVIOUS
    <3> QED
      BY <1>6, <3>1, <3>2, <3>3 DEF SockNotes
  <2> QED
    BY <1>6, <2>1, <2>2 DEF SockType
<1>8. D.client = [W.client EXCEPT ![c] = p]
  <2>1. W1.client = [W.client EXCEPT ![c] = k1]
    BY <1>3
  <2>2. D.client = [W1.client EXCEPT ![c] = p]
    BY <1>4, <1>5
  <2>3. W.client = [x \in Client |-> W.client[x]]
    BY DEF Shape
  <2> QED
    BY <2>1, <2>2, <2>3
<1>9. Parted(k, p)
  BY <1>cb, <1>6, <1>7 DEF Parted
<1>10. \/ k.stream = NoStream /\ D.conn = W.conn /\ D.pool = W.pool /\ D.nb_active = W.nb_active
       \/ /\ k.stream # NoStream /\ D.conn = [W.conn EXCEPT ![k.stream] = Closed]
          /\ D.pool = W.pool
          /\ D.nb_active = IF k.persistent THEN W.nb_active - 1 ELSE W.nb_active
       \/ /\ k.stream # NoStream /\ ~force /\ k.mode = {} /\ k.persistent /\ D.conn = W.conn
          /\ D.pool = << k.stream >> \o W.pool /\ D.nb_active = W.nb_active
  BY <1>3, <1>4, <1>5, Zenon
<1>11. D.faults = W.faults /\ D.ghost = [W.ghost EXCEPT !.torn = IF Torn(p) THEN @ \cup {c} ELSE @]
  BY <1>3, <1>4, <1>5
<1> QED
  BY <1>5, <1>6, <1>8, <1>9, <1>10, <1>11, Zenon DEF Disconnected

\* Nothing new is noted but that a block was torn.
SameNoted(g, h) ==
  /\ h.mixed = g.mixed /\ h.unread = g.unread /\ h.blind = g.blind /\ h.spurious = g.spurious
  /\ g.torn \subseteq h.torn

LEMMA GhostTorn ==
  ASSUME NEW g, g = [f \in GhostFields |-> g[f]], GhostType(g), NEW c \in Client, NEW T, NEW h,
         h = [g EXCEPT !.torn = T], T \in {g.torn, g.torn \cup {c}}
  PROVE  /\ h = [f \in GhostFields |-> h[f]] /\ h.torn = T /\ h.drift = g.drift /\ GhostType(h)
         /\ SameNoted(g, h) /\ OthersNoted(g, h, c)
<1>1. h = [f \in GhostFields |-> h[f]] /\ h.torn = T /\ h.drift = g.drift /\ h.mixed = g.mixed
      /\ h.unread = g.unread /\ h.blind = g.blind /\ h.spurious = g.spurious /\ h.unguarded = g.unguarded
  BY DEF GhostFields
<1> QED
  BY <1>1 DEF GhostType, SameNoted, OthersNoted

\* A client after redis_sock_disconnect.
PartsWell(W, D, c, rm) ==
  /\ Good(D, c) /\ SameNoted(W.ghost, D.ghost) /\ D.faults = W.faults
  /\ Parted(W.client[c], D.client[c]) /\ D.client[c].status = "disconnected"
  /\ D.client[c].mode = (IF rm THEN {} ELSE W.client[c].mode)
  /\ D.client[c].watched = W.client[c].watched /\ D.client[c].touched = W.client[c].touched
  /\ NotesOK(D.ghost, c, D.client[c])

LEMMA DisconnectGood ==
  ASSUME NEW W, NEW c \in Client, Good(W, c), NEW force \in BOOLEAN, NEW rm \in BOOLEAN,
         force \/ W.client[c].mode # {} \/ c \notin W.ghost.mixed \/ ~Held(W, c),
         NEW D, D = redis_sock_disconnect(W, c, force, rm)
  PROVE  PartsWell(W, D, c, rm)
<1> PICK k : k = W.client[c]
  OBVIOUS
<1>1. Shape(W) /\ SockType(k) /\ GhostType(W.ghost) /\ NotesOK(W.ghost, c, k) /\ Explained(W.ghost, c, k)
  BY DEF Good, ClientsOK
<1>2a. PICK p : Disconnected(W, D, c, k, p, force, rm)
  <2>1. SockShape(k) /\ SockBits(k) /\ SockNotes(k)
    BY <1>1 DEF SockType, SockFlags, SockBits
  <2> QED
    BY <1>1, <2>1, DisconnectIs
<1>2. /\ Parted(k, p) /\ p.status = "disconnected" /\ p.mode = (IF rm THEN {} ELSE k.mode)
       /\ p.watched = k.watched /\ p.touched = k.touched
       /\ Shape(D) /\ D.client = [W.client EXCEPT ![c] = p] /\ D.faults = W.faults
       /\ D.ghost = [W.ghost EXCEPT !.torn = IF Torn(p) THEN @ \cup {c} ELSE @]
       /\ \/ k.stream = NoStream /\ D.conn = W.conn /\ D.pool = W.pool /\ D.nb_active = W.nb_active
          \/ /\ k.stream # NoStream /\ D.conn = [W.conn EXCEPT ![k.stream] = Closed]
             /\ D.pool = W.pool
             /\ D.nb_active = IF k.persistent THEN W.nb_active - 1 ELSE W.nb_active
          \/ /\ k.stream # NoStream /\ ~force /\ k.mode = {} /\ k.persistent /\ D.conn = W.conn
             /\ D.pool = << k.stream >> \o W.pool /\ D.nb_active = W.nb_active
  BY <1>2a DEF Disconnected
<1>3. PICK T : T = IF Torn(p) THEN W.ghost.torn \cup {c} ELSE W.ghost.torn
  OBVIOUS
<1>4. D.ghost = [W.ghost EXCEPT !.torn = T] /\ T \in {W.ghost.torn, W.ghost.torn \cup {c}}
  BY <1>2, <1>3
<1>5. /\ D.ghost.torn = T /\ D.ghost.drift = W.ghost.drift /\ GhostType(D.ghost)
      /\ SameNoted(W.ghost, D.ghost) /\ OthersNoted(W.ghost, D.ghost, c)
  <2>1. W.ghost = [f \in GhostFields |-> W.ghost[f]]
    BY <1>1 DEF Shape
  <2> QED
    BY <1>1, <1>4, <2>1, GhostTorn
<1>6. D.client[c] = p /\ SockType(p) /\ p.stream = NoStream
  BY <1>1, <1>2 DEF Shape, Parted
<1>7. NotesOK(D.ghost, c, p)
  BY <1>1, <1>2, <1>3, <1>5 DEF NotesOK, Parted, GhostType
<1>8. Explained(D.ghost, c, p)
  BY <1>1, <1>2, <1>5 DEF Explained, Parted, SameNoted, Quiet
<1>9. NumbersType(D)
  <2>1. W.nb_active \in Int /\ (Limit > 0 => W.nb_active <= Limit) /\ W.faults \in 0..MaxFaults /\ W.ghost.drift <= W.faults
    BY DEF Good, NumbersType
  <2>2. D.nb_active \in {W.nb_active, W.nb_active - 1} /\ D.faults = W.faults /\ D.ghost.drift = W.ghost.drift
    BY <1>2, <1>5
  <2>3. Limit \in Nat
    BY SockAssumption
  <2> QED
    BY <2>1, <2>2, <2>3 DEF NumbersType
<1>10. GivesUp(W, D, c)
  <2>1. CASE k.stream # NoStream /\ ~force /\ k.mode = {} /\ k.persistent /\ D.conn = W.conn
             /\ D.pool = << k.stream >> \o W.pool /\ D.nb_active = W.nb_active
    <3>1. Held(W, c)
      BY <2>1 DEF Held
    <3>2. CleanOK(W.ghost, c, k, W.conn[k.stream])
      BY <3>1 DEF Good, ClientsOK, StreamOK
    <3>3. D.ghost.unread = {} => W.conn[k.stream].multi = "no" /\ ~W.conn[k.stream].unread
      BY <1>5, <2>1, <3>1, <3>2 DEF CleanOK, Quiet, SameNoted
    <3> QED
      BY <2>1, <3>3 DEF GivesUp
  <2> QED
    BY <1>2, <2>1 DEF GivesUp
<1>11. Good(D, c)
  <2>1. Shape(D) /\ D.client = [W.client EXCEPT ![c] = p]
    BY <1>2
  <2> QED
    BY <1>5, <1>6, <1>7, <1>8, <1>9, <1>10, <2>1, Leaves
<1> QED
  BY <1>2, <1>5, <1>6, <1>7, <1>11 DEF PartsWell

\* A client changes alone.
Alone(W, V, c, k) == V = [W EXCEPT !.client[c] = k]

LEMMA Apart ==
  ASSUME NEW W, NEW c \in Client, Good(W, c), ~Held(W, c), NEW k, SockType(k), k.stream = NoStream,
         NotesOK(W.ghost, c, k), Explained(W.ghost, c, k),
         NEW V, Alone(W, V, c, k)
  PROVE  Good(V, c) /\ V.client[c] = k /\ V.ghost = W.ghost /\ V.faults = W.faults
<1>1. Shape(W)
  BY DEF Good
<1>2. /\ Shape(V) /\ V.client = [W.client EXCEPT ![c] = k] /\ V.client[c] = k
      /\ V.conn = W.conn /\ V.pool = W.pool /\ V.nb_active = W.nb_active
      /\ V.faults = W.faults /\ V.ghost = W.ghost
  BY <1>1 DEF Shape, WorldFields, Alone
<1>3. GivesUp(W, V, c)
  BY <1>2 DEF GivesUp, Held
<1>4. NumbersType(V) /\ GhostType(V.ghost)
  BY <1>2 DEF Good, NumbersType
<1>5. OthersNoted(W.ghost, V.ghost, c)
  BY <1>2 DEF OthersNoted
<1> QED
  BY <1>2, <1>3, <1>4, <1>5, Leaves

\* A failure of the network is counted.
LEMMA Faulted ==
  ASSUME NEW W, NEW c \in Client, Good(W, c), W.faults < MaxFaults, NEW V, V = Fault(W)
  PROVE  /\ Good(V, c) /\ V.client = W.client /\ V.conn = W.conn /\ V.pool = W.pool
         /\ V.nb_active = W.nb_active /\ V.ghost = W.ghost /\ V.faults = W.faults + 1
<1>1. Shape(W)
  BY DEF Good
<1>2. /\ Shape(V) /\ V.client = W.client
      /\ V.conn = W.conn /\ V.pool = W.pool /\ V.nb_active = W.nb_active
      /\ V.faults = W.faults + 1 /\ V.ghost = W.ghost
  BY <1>1 DEF Shape, WorldFields, Fault
<1>3. NumbersType(V)
  <2>1. W.faults \in 0..MaxFaults /\ W.ghost.drift <= W.faults /\ W.ghost.drift \in Nat /\ MaxFaults \in Nat
    BY SockAssumption DEF Good, NumbersType, GhostType
  <2>2. V.faults \in 0..MaxFaults /\ V.ghost.drift <= V.faults
    BY <1>2, <2>1
  <2> QED
    BY <1>2, <2>2 DEF Good, NumbersType
<1>4. Owned(V) /\ Counted(V) /\ PoolClean(V)
  BY <1>2 DEF Good, Owned, Counted, PoolClean, Keepers, Held
<1>5. ClientsOK(V) /\ \A d \in Client \ {c} : Idle(V.client[d])
  BY <1>2 DEF Good, ClientsOK, Held
<1> QED
  BY <1>2, <1>3, <1>4, <1>5 DEF Good

\* The client has no stream and its program knows.
Gone(W, V, c) ==
  /\ Good(V, c) /\ Idle(V.client[c]) /\ V.client[c].stream = NoStream /\ V.client[c].mode = {}
  /\ ~V.client[c].watched /\ SameNoted(W.ghost, V.ghost)

LEMMA ToldGood ==
  ASSUME NEW W, NEW c \in Client, Good(W, c), ~Held(W, c), NEW V, V = Told(W, c)
  PROVE  /\ Good(V, c) /\ V.ghost = W.ghost /\ V.faults = W.faults /\ V.client[c].stream = NoStream
         /\ V.client[c].status = W.client[c].status /\ V.client[c].mode = W.client[c].mode
         /\ ~V.client[c].watched
<1>k. PICK k : k = [W.client[c] EXCEPT !.watched = FALSE, !.touched = FALSE]
  OBVIOUS
<1>1. Shape(W) /\ SockType(W.client[c]) /\ NotesOK(W.ghost, c, W.client[c]) /\ Explained(W.ghost, c, W.client[c])
  BY DEF Good, ClientsOK
<1>2. Alone(W, V, c, k)
  BY <1>1, <1>k DEF Alone, Told, Shape, WorldFields
<1>3. /\ SockShape(k) /\ k.stream = W.client[c].stream /\ k.status = W.client[c].status /\ k.persistent = W.client[c].persistent
      /\ k.db = W.client[c].db /\ k.mode = W.client[c].mode /\ k.watching = W.client[c].watching
      /\ k.callbacks = W.client[c].callbacks /\ k.pipeline_cmd = W.client[c].pipeline_cmd
      /\ k.watched = FALSE /\ k.touched = FALSE
  BY <1>1, <1>k DEF SockType, SockShape, SockFields
<1>4. SockType(k) /\ k.stream = NoStream
  BY <1>1, <1>3 DEF SockType, SockFlags, SockNotes, Held
<1>5. NotesOK(W.ghost, c, k) /\ Explained(W.ghost, c, k)
  BY <1>1, <1>3 DEF NotesOK, Explained, Torn
<1>6. Good(V, c) /\ V.client[c] = k /\ V.ghost = W.ghost /\ V.faults = W.faults
  BY <1>2, <1>4, <1>5, Apart
<1> QED
  BY <1>3, <1>4, <1>6

LEMMA LostGood ==
  ASSUME NEW W, NEW c \in Client, Good(W, c), NEW V, V = Lost(W, c)
  PROVE  Gone(W, V, c) /\ V.client[c].status = "disconnected" /\ V.faults = W.faults
<1>D. PICK D : D = redis_sock_disconnect(W, c, TRUE, TRUE)
  OBVIOUS
<1>0. PartsWell(W, D, c, TRUE)
  BY <1>D, DisconnectGood
<1>1. /\ Good(D, c) /\ SameNoted(W.ghost, D.ghost) /\ D.faults = W.faults
      /\ Parted(W.client[c], D.client[c]) /\ D.client[c].status = "disconnected"
      /\ D.client[c].mode = {}
  BY <1>0 DEF PartsWell
<1>2. ~Held(D, c) /\ V = Told(D, c)
  BY <1>1, <1>D DEF Held, Parted, Lost
<1>3. /\ Good(V, c) /\ V.ghost = D.ghost /\ V.faults = D.faults /\ V.client[c].stream = NoStream
      /\ V.client[c].status = D.client[c].status /\ V.client[c].mode = D.client[c].mode
      /\ ~V.client[c].watched
  BY <1>1, <1>2, ToldGood
<1> QED
  BY <1>1, <1>3 DEF Gone, Idle

LEMMA FailedGood ==
  ASSUME NEW W, NEW c \in Client, Good(W, c), NEW V, V = Failed(W, c)
  PROVE  Gone(W, V, c) /\ V.client[c].status = "failed" /\ V.faults = W.faults
<1>L. PICK L : L = Lost(W, c)
  OBVIOUS
<1>0. Gone(W, L, c) /\ L.faults = W.faults
  BY <1>L, LostGood
<1>k. PICK k : k = [L.client[c] EXCEPT !.status = "failed"]
  OBVIOUS
<1>1. /\ Good(L, c) /\ Shape(L) /\ SockType(L.client[c]) /\ NotesOK(L.ghost, c, L.client[c])
      /\ Explained(L.ghost, c, L.client[c])
  BY <1>0 DEF Gone, Good, ClientsOK
<1>2. Alone(L, V, c, k)
  BY <1>1, <1>k, <1>L DEF Alone, Failed, Shape, WorldFields
<1>3. /\ SockShape(k) /\ k.stream = NoStream /\ k.status = "failed" /\ k.persistent = L.client[c].persistent
      /\ k.db = L.client[c].db /\ k.mode = {} /\ k.watching = L.client[c].watching
      /\ k.callbacks = L.client[c].callbacks /\ k.pipeline_cmd = L.client[c].pipeline_cmd
      /\ k.watched = L.client[c].watched /\ k.touched = L.client[c].touched /\ ~k.watched
      /\ L.client[c].mode = {}
  BY <1>0, <1>1, <1>k DEF SockType, SockShape, SockFields, Gone
<1>4. SockType(k)
  BY <1>1, <1>3 DEF SockType, SockFlags, SockNotes
<1>5. NotesOK(L.ghost, c, k) /\ Explained(L.ghost, c, k)
  BY <1>1, <1>3 DEF NotesOK, Explained, Torn
<1>6. Good(V, c) /\ V.client[c] = k /\ V.ghost = L.ghost /\ V.faults = L.faults
  <2>1. ~Held(L, c)
    BY <1>0 DEF Held, Gone
  <2> QED
    BY <1>1, <1>2, <1>3, <1>4, <1>5, <2>1, Apart
<1> QED
  BY <1>0, <1>3, <1>6 DEF Gone, Idle

---------------------------------------------------------------------------
(* redis_sock_connect: a new stream, or one of the pool and what           *)
(* redis_sock_check_liveness makes of it.                                  *)

LEMMA LeastExists ==
  ASSUME NEW S, S \subseteq Nat, S # {}
  PROVE  \E x \in S : \A y \in S : x <= y
<1>1. PICK n \in S : \A m \in S : <<m, n>> \notin OpToRel(<, Nat)
  BY NatLessThanWellFounded, WFMin
<1>2. \A m \in S : ~(m < n)
  BY <1>1 DEF OpToRel
<1>3. \A m \in S : n <= m
  BY <1>2
<1> QED
  BY <1>3

\* A stream newly opened for client c.
NewWorld(W, c, s) ==
  [W EXCEPT !.conn[s] = Accepted, !.client[c] = [@ EXCEPT !.stream = s, !.status = "connected"],
            !.nb_active = IF W.client[c].persistent THEN @ + 1 ELSE @]

LEMMA NewStreamIs ==
  ASSUME NEW W, NEW c, NEW a \in NewStream(W, c)
  PROVE  \/ ~a.ok /\ (a.w = W \/ (MayFail(W) /\ a.w = Fault(W)))
         \/ \E s \in Streams : /\ a.ok /\ ~W.conn[s].open /\ a.w = NewWorld(W, c, s)
                               /\ W.client[c].persistent => ~LimitReached(W.nb_active)
<1> DEFINE free == {s \in Streams : ~W.conn[s].open}
           s == CHOOSE x \in free : \A y \in free : x <= y
<1>1. CASE free = {} \/ (W.client[c].persistent /\ LimitReached(W.nb_active))
  BY <1>1 DEF NewStream
<1>2. CASE ~(free = {} \/ (W.client[c].persistent /\ LimitReached(W.nb_active)))
  <2>1. s \in Streams /\ ~W.conn[s].open
    <3>1. free \subseteq Nat
      BY SockAssumption DEF Streams
    <3>2. \E x \in free : \A y \in free : x <= y
      BY <1>2, <3>1, LeastExists
    <3> QED
      BY <3>2
  <2>2. a \in {[ok |-> TRUE, w |-> NewWorld(W, c, s)]}
              \cup {[ok |-> FALSE, w |-> V] : V \in IF MayFail(W) THEN {Fault(W)} ELSE {}}
    BY <1>2, Zenon DEF NewStream, NewWorld
  <2>3. a = [ok |-> TRUE, w |-> NewWorld(W, c, s)] \/ (MayFail(W) /\ a = [ok |-> FALSE, w |-> Fault(W)])
    <3> HIDE DEF s
    <3> QED
      BY <2>2
  <2> HIDE DEF s
  <2> QED
    BY <1>2, <2>1, <2>3
<1> QED
  BY <1>1, <1>2

\* A client about to get a stream, and what it has when it was tried.
Wanting(W, c) ==
  Good(W, c) /\ ~Held(W, c) /\ ~W.client[c].watched /\ W.client[c].mode # {"MULTI"}

Connected(W, V, c, ok) ==
  /\ Good(V, c) /\ SameNoted(W.ghost, V.ghost)
  /\ ~V.client[c].watched /\ V.client[c].mode \in {{}, W.client[c].mode}
  /\ V.client[c].persistent = W.client[c].persistent /\ V.client[c].db = W.client[c].db
  /\ V.client[c].pipeline_cmd = W.client[c].pipeline_cmd
  /\ IF ok THEN /\ Held(V, c) /\ V.client[c].status = "connected"
                /\ V.conn[V.client[c].stream].up
     ELSE ~Held(V, c)

LEMMA NewStreamGood ==
  ASSUME NEW W, NEW c \in Client, Wanting(W, c), NEW a \in NewStream(W, c)
  PROVE  Connected(W, a.w, c, a.ok)
<1>1. /\ Good(W, c) /\ Shape(W) /\ SockType(W.client[c]) /\ NotesOK(W.ghost, c, W.client[c])
      /\ Explained(W.ghost, c, W.client[c]) /\ GhostType(W.ghost)
  BY DEF Wanting, Good, ClientsOK
<1>2. SameNoted(W.ghost, W.ghost) /\ OthersNoted(W.ghost, W.ghost, c)
  BY DEF SameNoted, OthersNoted
<1>3. CASE ~a.ok /\ a.w = W
  BY <1>1, <1>2, <1>3 DEF Wanting, Connected
<1>4. CASE ~a.ok /\ MayFail(W) /\ a.w = Fault(W)
  <2>1. Good(a.w, c) /\ a.w.client = W.client /\ a.w.ghost = W.ghost
    BY <1>1, <1>4, Faulted DEF MayFail
  <2> QED
    BY <1>2, <1>4, <2>1 DEF Wanting, Connected, Held
<1>5. ASSUME NEW s \in Streams, a.ok, ~W.conn[s].open, a.w = NewWorld(W, c, s),
             W.client[c].persistent => ~LimitReached(W.nb_active)
      PROVE  Connected(W, a.w, c, a.ok)
  <2>k. PICK k : k = [W.client[c] EXCEPT !.stream = s, !.status = "connected"]
    OBVIOUS
  <2>V. PICK V : V = a.w
    OBVIOUS
  <2>1. /\ Shape(V) /\ V.client = [W.client EXCEPT ![c] = k] /\ V.conn = [W.conn EXCEPT ![s] = Accepted]
        /\ V.pool = W.pool /\ V.faults = W.faults /\ V.ghost = W.ghost
        /\ V.nb_active = IF W.client[c].persistent THEN W.nb_active + 1 ELSE W.nb_active
    <3>1. V = [W EXCEPT !.conn = [W.conn EXCEPT ![s] = Accepted],
                        !.client = [W.client EXCEPT ![c] = k],
                        !.nb_active = IF W.client[c].persistent THEN W.nb_active + 1 ELSE W.nb_active]
      BY <1>1, <1>5, <2>k, <2>V DEF Shape, WorldFields, NewWorld
    <3> QED
      BY <1>1, <3>1 DEF Shape, WorldFields
  <2>2. /\ SockShape(k) /\ k.stream = s /\ k.status = "connected" /\ k.persistent = W.client[c].persistent
        /\ k.db = W.client[c].db /\ k.mode = W.client[c].mode /\ k.watching = W.client[c].watching
        /\ k.callbacks = W.client[c].callbacks /\ k.pipeline_cmd = W.client[c].pipeline_cmd
        /\ k.watched = W.client[c].watched /\ k.touched = W.client[c].touched
    BY <1>1, <2>k DEF SockType, SockShape, SockFields
  <2>3. NoStream \notin Streams
    BY DEF NoStream, Streams
  <2>6. ~k.watched /\ ~k.touched /\ k.mode # {"MULTI"}
    BY <1>1, <2>2 DEF Wanting, SockType, SockFlags
  <2>4. SockType(k)
    BY <1>1, <2>2, <2>3, <2>6 DEF SockType, SockFlags, SockNotes
  <2>5. NotesOK(V.ghost, c, k) /\ Explained(V.ghost, c, k)
    BY <1>1, <2>1, <2>2 DEF NotesOK, Explained, Torn
  <2>7. StreamOK(V.ghost, c, k, Accepted)
    BY <2>2, <2>6, AcceptedIs DEF StreamOK, DatabaseOK, CleanOK, QueueOK, WatchOK
  <2>8. Gets(W, V, c, s, Accepted)
    BY <1>5, <2>1 DEF Gets
  <2>9. NumbersType(V)
    BY <1>1, <1>5, <2>1, SockAssumption DEF Good, NumbersType, LimitReached
  <2>10. Good(V, c)
    <3>1. ConnType(Accepted) /\ Accepted.open /\ ~Held(W, c)
      BY AcceptedIs DEF Wanting
    <3>2. V.ghost.drift = W.ghost.drift /\ GhostType(V.ghost) /\ OthersNoted(W.ghost, V.ghost, c)
      BY <1>1, <1>2, <2>1
    <3> QED
      BY <1>1, <2>1, <2>2, <2>4, <2>5, <2>7, <2>8, <2>9, <3>1, <3>2, Arrives
  <2>11. V.client[c] = k /\ V.conn[s] = Accepted
    BY <1>1, <2>1 DEF Shape
  <2>12. Connected(W, V, c, TRUE)
    BY <1>2, <2>1, <2>2, <2>3, <2>6, <2>10, <2>11, AcceptedIs DEF Connected, Held
  <2> QED
    BY <1>5, <2>V, <2>12 DEF Connected
<1> QED
  BY <1>3, <1>4, <1>5, NewStreamIs

\* A pooled stream taken by client c, its buffer perhaps skipped; one that is
\* not kept; one that is.
TakenWorld(W, c) == [W EXCEPT !.client[c].stream = Last(W.pool), !.pool = Front(W.pool)]
Rejected(d, c, s) ==
  [d EXCEPT !.conn[s] = Closed, !.client[c] = [@ EXCEPT !.stream = NoStream, !.status = "disconnected"]]
Kept(d, c) == [d EXCEPT !.client[c].status = "connected"]
Unanswered(d, c) == Fault([redis_sock_disconnect(d, c, TRUE, TRUE) EXCEPT !.ghost.drift = @ + 1])

LEMMA LivenessIs ==
  ASSUME NEW U, NEW c, NEW a \in redis_sock_check_liveness(U, c), NEW s, s = U.client[c].stream
  PROVE  \E d \in {U, [U EXCEPT !.conn[s].unread = FALSE]} :
           \/ ~a.ok /\ a.w = Rejected(d, c, s)
           \/ a.ok /\ a.w = Kept(d, c) /\ U.conn[s].up /\ (ini.echo => Echoed(d.conn[s]))
           \/ ~a.ok /\ MayFail(d) /\ a.w = Unanswered(d, c)
<1> DEFINE Ds == IF ini.detect_dirty = 0 THEN {[ok |-> TRUE, w |-> U]}
                 ELSE redis_stream_detect_dirty(U, c)
<1>1. CASE ~U.conn[s].up
  BY <1>1 DEF redis_sock_check_liveness, Rejected
<1>2. CASE U.conn[s].up
  <2>1. PICK d \in Ds :
          a \in IF ~d.ok THEN {[ok |-> FALSE, w |-> Rejected(d.w, c, s)]}
                ELSE IF ~ini.echo THEN {[ok |-> TRUE, w |-> Kept(d.w, c)]}
                ELSE IF ~Echoed(d.w.conn[s]) THEN {[ok |-> FALSE, w |-> Rejected(d.w, c, s)]}
                ELSE {[ok |-> TRUE, w |-> Kept(d.w, c)]} \cup
                     {[ok |-> FALSE, w |-> Unanswered(d.w, c)] :
                          x \in {1} \cap (IF MayFail(d.w) THEN {1} ELSE {})}
    BY <1>2, Zenon DEF redis_sock_check_liveness, Rejected, Kept, Unanswered
  <2>2. d.w \in {U, [U EXCEPT !.conn[s].unread = FALSE]}
    BY DEF redis_stream_detect_dirty
  <2> HIDE DEF Ds
  <2>3. \/ a = [ok |-> FALSE, w |-> Rejected(d.w, c, s)]
        \/ a = [ok |-> TRUE, w |-> Kept(d.w, c)] /\ (ini.echo => Echoed(d.w.conn[s]))
        \/ a = [ok |-> FALSE, w |-> Unanswered(d.w, c)] /\ MayFail(d.w)
    BY <2>1
  <2>4. \/ ~a.ok /\ a.w = Rejected(d.w, c, s)
        \/ a.ok /\ a.w = Kept(d.w, c) /\ (ini.echo => Echoed(d.w.conn[s]))
        \/ ~a.ok /\ a.w = Unanswered(d.w, c) /\ MayFail(d.w)
    BY <2>3
  <2> QED
    BY <1>2, <2>2, <2>4
<1> QED
  BY <1>1, <1>2

\* The world in between: the stream is c's, and its status not yet.
Taken(W, d, c, s, k, r) ==
  /\ Shape(d) /\ d.client = [W.client EXCEPT ![c] = k] /\ d.client[c] = k
  /\ d.conn = [W.conn EXCEPT ![s] = r] /\ d.conn[s] = r
  /\ d.pool = Front(W.pool) /\ d.nb_active = W.nb_active
  /\ d.faults = W.faults /\ d.ghost = W.ghost
  /\ ConnType(r) /\ r.multi = W.conn[s].multi /\ (r.unread => W.conn[s].unread)
  /\ r.up = W.conn[s].up /\ r.open = W.conn[s].open
  /\ SockShape(k) /\ SockBits(k) /\ SockNotes(k) /\ k.stream = s
  /\ \A f \in SockFields : f # "stream" => k[f] = W.client[c][f]

LEMMA TakenIs ==
  ASSUME NEW W, NEW c \in Client, Good(W, c), W.pool # << >>,
         NEW s \in Streams, s = Last(W.pool), NEW d,
         \E U : U = TakenWorld(W, c) /\ d \in {U, [U EXCEPT !.conn[s].unread = FALSE]}
  PROVE  \E k, r : Taken(W, d, c, s, k, r)
<1>U. PICK U : U = TakenWorld(W, c) /\ d \in {U, [U EXCEPT !.conn[s].unread = FALSE]}
  OBVIOUS
<1>k. PICK k : k = [W.client[c] EXCEPT !.stream = s]
  OBVIOUS
<1>1. Shape(W) /\ SockType(W.client[c]) /\ ConnType(W.conn[s])
  BY DEF Good, ClientsOK
<1>2. /\ Shape(U) /\ U.client = [W.client EXCEPT ![c] = k] /\ U.client[c] = k
      /\ U.conn = W.conn /\ U.pool = Front(W.pool) /\ U.nb_active = W.nb_active
      /\ U.faults = W.faults /\ U.ghost = W.ghost
  BY <1>1, <1>U, <1>k DEF Shape, WorldFields, TakenWorld
<1>3. /\ SockShape(k) /\ k.stream = s
      /\ \A f \in SockFields : f # "stream" => k[f] = W.client[c][f]
  BY <1>1, <1>k DEF SockType, SockShape, SockFields
<1>4. SockBits(k) /\ SockNotes(k)
  BY <1>1, <1>3 DEF SockType, SockFlags, SockBits, SockNotes, SockFields
<1>5. CASE d = U
  <2>1. d.conn = [W.conn EXCEPT ![s] = W.conn[s]]
    BY <1>1, <1>2, <1>5 DEF Shape
  <2>2. Taken(W, d, c, s, k, W.conn[s])
    BY <1>1, <1>2, <1>3, <1>4, <1>5, <2>1 DEF Taken
  <2> QED
    BY <2>2
<1>6. CASE d = [U EXCEPT !.conn[s].unread = FALSE]
  <2>r. PICK r : r = [W.conn[s] EXCEPT !.unread = FALSE]
    OBVIOUS
  <2>1. ConnShape(r) /\ \A f \in ConnFields : f # "unread" => r[f] = W.conn[s][f]
    BY <1>1, <2>r DEF ConnType, ConnShape, ConnFields
  <2>2. r.unread = FALSE
    BY <1>1, <2>r DEF ConnType, ConnShape, ConnFields
  <2>3. /\ r.open = W.conn[s].open /\ r.up = W.conn[s].up /\ r.db = W.conn[s].db
        /\ r.multi = W.conn[s].multi /\ r.queue = W.conn[s].queue /\ r.watch = W.conn[s].watch
    BY <2>1 DEF ConnFields
  <2>4. ConnType(r)
    BY <1>1, <2>1, <2>2, <2>3 DEF ConnType, ConnFlags, ConnQueue
  <2>5. /\ Shape(d) /\ d.client = U.client /\ d.conn = [U.conn EXCEPT ![s] = r] /\ d.conn[s] = r
        /\ d.pool = U.pool /\ d.nb_active = U.nb_active /\ d.faults = U.faults /\ d.ghost = U.ghost
    BY <1>2, <1>6, <2>r DEF Shape, WorldFields
  <2>6. Taken(W, d, c, s, k, r)
    BY <1>2, <1>3, <1>4, <2>2, <2>3, <2>4, <2>5 DEF Taken
  <2> QED
    BY <2>6
<1> QED
  BY <1>5, <1>6, <1>U

LEMMA KeptGood ==
  ASSUME NEW W, NEW c \in Client, Wanting(W, c), W.client[c].persistent, W.pool # << >>,
         NEW s \in Streams, s = Last(W.pool), NEW d, NEW k0, NEW r, Taken(W, d, c, s, k0, r),
         r.up, ini.echo => Echoed(r), NEW V, V = Kept(d, c)
  PROVE  Connected(W, V, c, TRUE)
<1>k. PICK k : k = [k0 EXCEPT !.status = "connected"]
  OBVIOUS
<1>1. /\ Good(W, c) /\ Shape(W) /\ SockType(W.client[c]) /\ NotesOK(W.ghost, c, W.client[c])
      /\ Explained(W.ghost, c, W.client[c]) /\ GhostType(W.ghost) /\ Owned(W)
  BY DEF Wanting, Good, ClientsOK
<1>2. SameNoted(W.ghost, W.ghost) /\ OthersNoted(W.ghost, W.ghost, c)
  BY DEF SameNoted, OthersNoted
<1>3. /\ Shape(V) /\ V.client = [d.client EXCEPT ![c] = k] /\ V.conn = d.conn
      /\ V.pool = d.pool /\ V.faults = d.faults /\ V.ghost = d.ghost /\ V.nb_active = d.nb_active
  BY <1>k DEF Shape, WorldFields, Kept, Taken
<1>4. V.client = [W.client EXCEPT ![c] = k] /\ V.client[c] = k
  <2>1. d.client = [W.client EXCEPT ![c] = k0] /\ W.client = [x \in Client |-> W.client[x]]
    BY <1>1 DEF Taken, Shape
  <2> QED
    BY <1>3, <2>1
<1>5. /\ V.conn = [W.conn EXCEPT ![s] = r] /\ V.conn[s] = r /\ V.pool = Front(W.pool) /\ V.faults = W.faults
      /\ V.ghost = W.ghost /\ V.nb_active = W.nb_active /\ ConnType(r)
      /\ r.multi = W.conn[s].multi /\ (r.unread => W.conn[s].unread) /\ r.open = W.conn[s].open
  BY <1>3 DEF Taken
<1>6. /\ SockShape(k) /\ k.status = "connected" /\ k.stream = k0.stream /\ k.persistent = k0.persistent
      /\ k.db = k0.db /\ k.mode = k0.mode /\ k.watching = k0.watching
      /\ k.callbacks = k0.callbacks /\ k.pipeline_cmd = k0.pipeline_cmd
      /\ k.watched = k0.watched /\ k.touched = k0.touched
  BY <1>k DEF Taken, SockShape, SockFields
<1>7. /\ k0.stream = s /\ k0.persistent = W.client[c].persistent
      /\ k0.db = W.client[c].db /\ k0.mode = W.client[c].mode /\ k0.watching = W.client[c].watching
      /\ k0.callbacks = W.client[c].callbacks /\ k0.pipeline_cmd = W.client[c].pipeline_cmd
      /\ k0.watched = W.client[c].watched /\ k0.touched = W.client[c].touched
  BY DEF Taken, SockFields
<1>8. NoStream \notin Streams
  BY DEF NoStream, Streams
<1>11. ~k.watched /\ ~k.touched /\ k.mode # {"MULTI"} /\ k.persistent
  BY <1>1, <1>6, <1>7 DEF Wanting, SockType, SockFlags
<1>9. SockType(k)
  BY <1>1, <1>6, <1>7, <1>8, <1>11 DEF SockType, SockFlags, SockNotes
<1>10. NotesOK(V.ghost, c, k) /\ Explained(V.ghost, c, k)
  BY <1>1, <1>5, <1>6, <1>7 DEF NotesOK, Explained, Torn
<1>12. StreamOK(V.ghost, c, k, r)
  <2>1. CleanOK(V.ghost, c, k, r)
    <3>1. W.ghost.unread = {} => W.conn[s].multi = "no" /\ ~W.conn[s].unread
      BY <1>1, FrontOfPool DEF Good, PoolClean
    <3>2. CASE W.ghost.unread = {}
      BY <1>5, <3>1, <3>2 DEF CleanOK
    <3>3. CASE W.ghost.unread # {} /\ ini.echo
      BY <1>5, <3>3 DEF CleanOK, Echoed
    <3>4. CASE W.ghost.unread # {} /\ ~ini.echo
      BY <1>5, <3>4 DEF CleanOK, Quiet
    <3> QED
      BY <3>2, <3>3, <3>4
  <2> QED
    BY <1>6, <1>11, <2>1 DEF StreamOK, DatabaseOK, QueueOK, WatchOK
<1>13. Gets(W, V, c, s, r)
  BY <1>5 DEF Gets
<1>14. NumbersType(V)
  BY <1>1, <1>5 DEF Good, NumbersType
<1>15. Good(V, c)
  <2>1. r.open
    BY <1>1, <1>5, FrontOfPool DEF Owned
  <2>2. V.ghost.drift = W.ghost.drift /\ GhostType(V.ghost) /\ OthersNoted(W.ghost, V.ghost, c)
    BY <1>1, <1>2, <1>5
  <2>3. ~Held(W, c) /\ k.stream = s /\ k.persistent = W.client[c].persistent
    BY <1>6, <1>7 DEF Wanting
  <2> QED
    BY <1>1, <1>3, <1>4, <1>5, <1>9, <1>10, <1>12, <1>13, <1>14, <2>1, <2>2, <2>3, Arrives
<1> QED
  <2>1. Held(V, c) /\ V.client[c].status = "connected" /\ V.conn[V.client[c].stream].up
    BY <1>4, <1>5, <1>6, <1>7, <1>8 DEF Held
  <2>2. V.client[c].mode = W.client[c].mode /\ ~V.client[c].watched
        /\ V.client[c].persistent = W.client[c].persistent /\ V.client[c].db = W.client[c].db
        /\ V.client[c].pipeline_cmd = W.client[c].pipeline_cmd
    BY <1>4, <1>6, <1>7, <1>11
  <2>3. SameNoted(W.ghost, V.ghost)
    BY <1>2, <1>5
  <2> QED
    BY <1>15, <2>1, <2>2, <2>3 DEF Connected

\* A client still looking for a stream.
Still(W, X, c) ==
  /\ Wanting(X, c) /\ SameNoted(W.ghost, X.ghost)
  /\ X.client[c].mode \in {{}, W.client[c].mode}
  /\ X.client[c].persistent = W.client[c].persistent /\ X.client[c].db = W.client[c].db
  /\ X.client[c].pipeline_cmd = W.client[c].pipeline_cmd

CountedOff(W) == [W EXCEPT !.nb_active = @ - 1]

LEMMA RejectedGood ==
  ASSUME NEW W, NEW c \in Client, Wanting(W, c), W.client[c].persistent, W.pool # << >>,
         NEW s \in Streams, s = Last(W.pool), NEW d, NEW k0, NEW r, Taken(W, d, c, s, k0, r),
         NEW V, V = CountedOff(Rejected(d, c, s))
  PROVE  Still(W, V, c)
<1>k. PICK k : k = [k0 EXCEPT !.stream = NoStream, !.status = "disconnected"]
  OBVIOUS
<1>1. /\ Good(W, c) /\ Shape(W) /\ SockType(W.client[c]) /\ NotesOK(W.ghost, c, W.client[c])
      /\ Explained(W.ghost, c, W.client[c]) /\ GhostType(W.ghost) /\ Owned(W)
  BY DEF Wanting, Good, ClientsOK
<1>2. SameNoted(W.ghost, W.ghost) /\ OthersNoted(W.ghost, W.ghost, c)
  BY DEF SameNoted, OthersNoted
<1>3. /\ Shape(V) /\ V.client = [d.client EXCEPT ![c] = k] /\ V.conn = [d.conn EXCEPT ![s] = Closed]
      /\ V.pool = d.pool /\ V.faults = d.faults /\ V.ghost = d.ghost /\ V.nb_active = d.nb_active - 1
  BY <1>k DEF Shape, WorldFields, Rejected, CountedOff, Taken
<1>4. V.client = [W.client EXCEPT ![c] = k] /\ V.client[c] = k
  <2>1. d.client = [W.client EXCEPT ![c] = k0] /\ W.client = [x \in Client |-> W.client[x]]
    BY <1>1 DEF Taken, Shape
  <2> QED
    BY <1>3, <2>1
<1>5. /\ V.conn = [W.conn EXCEPT ![s] = Closed] /\ V.pool = Front(W.pool) /\ V.faults = W.faults
      /\ V.ghost = W.ghost /\ V.nb_active = W.nb_active - 1
  <2>1. d.conn = [W.conn EXCEPT ![s] = r] /\ W.conn = [x \in Streams |-> W.conn[x]]
    BY <1>1 DEF Taken, Shape
  <2>2. V.conn = [W.conn EXCEPT ![s] = Closed]
    BY <1>3, <2>1
  <2> QED
    BY <1>3, <2>2 DEF Taken
<1>6. /\ SockShape(k) /\ k.status = "disconnected" /\ k.stream = NoStream /\ k.persistent = k0.persistent
      /\ k.db = k0.db /\ k.mode = k0.mode /\ k.watching = k0.watching
      /\ k.callbacks = k0.callbacks /\ k.pipeline_cmd = k0.pipeline_cmd
      /\ k.watched = k0.watched /\ k.touched = k0.touched
  BY <1>k DEF Taken, SockShape, SockFields
<1>7. /\ k0.stream = s /\ k0.persistent = W.client[c].persistent
      /\ k0.db = W.client[c].db /\ k0.mode = W.client[c].mode /\ k0.watching = W.client[c].watching
      /\ k0.callbacks = W.client[c].callbacks /\ k0.pipeline_cmd = W.client[c].pipeline_cmd
      /\ k0.watched = W.client[c].watched /\ k0.touched = W.client[c].touched
  BY DEF Taken, SockFields
<1>9. SockType(k)
  BY <1>1, <1>6, <1>7 DEF SockType, SockFlags, SockNotes
<1>10. NotesOK(V.ghost, c, k) /\ Explained(V.ghost, c, k)
  BY <1>1, <1>5, <1>6, <1>7 DEF NotesOK, Explained, Torn
<1>11. NumbersType(V) /\ V.nb_active + V.ghost.drift = (W.nb_active + W.ghost.drift) - 1
  <2>1. W.nb_active \in Int /\ (Limit > 0 => W.nb_active <= Limit) /\ W.ghost.drift \in Nat /\ Limit \in Nat
        /\ W.faults \in 0..MaxFaults /\ W.ghost.drift <= W.faults
    BY <1>1, SockAssumption DEF Good, NumbersType, GhostType
  <2> QED
    BY <1>5, <2>1 DEF NumbersType
<1>12. Good(V, c)
  <2>1. GhostType(V.ghost) /\ OthersNoted(W.ghost, V.ghost, c)
    BY <1>1, <1>2, <1>5
  <2>2. ~Held(W, c) /\ V.conn = [W.conn EXCEPT ![Last(W.pool)] = Closed] /\ V.pool = Front(W.pool)
    BY <1>5 DEF Wanting
  <2> QED
    BY <1>1, <1>3, <1>4, <1>6, <1>9, <1>10, <1>11, <2>1, <2>2, Discards
<1> QED
  BY <1>2, <1>4, <1>5, <1>6, <1>7, <1>12 DEF Still, Wanting, Held

LEMMA UnansweredGood ==
  ASSUME NEW W, NEW c \in Client, Wanting(W, c), W.client[c].persistent, W.pool # << >>,
         NEW s \in Streams, s = Last(W.pool), NEW d, NEW k0, NEW r, Taken(W, d, c, s, k0, r),
         MayFail(d), NEW V, V = CountedOff(Unanswered(d, c))
  PROVE  Still(W, V, c)
<1>1. /\ Good(W, c) /\ Shape(W) /\ SockType(W.client[c]) /\ NotesOK(W.ghost, c, W.client[c])
      /\ Explained(W.ghost, c, W.client[c]) /\ GhostType(W.ghost) /\ Owned(W)
      /\ W.ghost = [f \in GhostFields |-> W.ghost[f]]
  BY DEF Wanting, Good, ClientsOK, Shape
<1>2. /\ k0.stream = s /\ k0.persistent = W.client[c].persistent
      /\ k0.db = W.client[c].db /\ k0.mode = W.client[c].mode /\ k0.watching = W.client[c].watching
      /\ k0.callbacks = W.client[c].callbacks /\ k0.pipeline_cmd = W.client[c].pipeline_cmd
      /\ k0.watched = W.client[c].watched /\ k0.touched = W.client[c].touched
  BY DEF Taken, SockFields
<1>3. /\ Shape(d) /\ d.client = [W.client EXCEPT ![c] = k0] /\ d.client[c] = k0
      /\ d.conn = [W.conn EXCEPT ![s] = r] /\ d.pool = Front(W.pool) /\ d.nb_active = W.nb_active
      /\ d.faults = W.faults /\ d.ghost = W.ghost
      /\ SockShape(k0) /\ SockBits(k0) /\ SockNotes(k0)
  BY DEF Taken
<1>D. PICK D : D = redis_sock_disconnect(d, c, TRUE, TRUE)
  OBVIOUS
<1>4. PICK p : Disconnected(d, D, c, k0, p, TRUE, TRUE)
  <2>1. GhostType(d.ghost) /\ k0 = d.client[c]
    BY <1>1, <1>3
  <2> QED
    BY <1>3, <1>D, <2>1, DisconnectIs
<1>5. /\ Parted(k0, p) /\ p.status = "disconnected" /\ p.mode = {}
      /\ p.watched = k0.watched /\ p.touched = k0.touched
      /\ Shape(D) /\ D.client = [d.client EXCEPT ![c] = p] /\ D.faults = d.faults
      /\ D.ghost = [d.ghost EXCEPT !.torn = IF Torn(p) THEN @ \cup {c} ELSE @]
      /\ D.conn = [d.conn EXCEPT ![s] = Closed] /\ D.pool = d.pool /\ D.nb_active = d.nb_active - 1
  <2>1. s # NoStream /\ k0.persistent
    BY <1>2 DEF NoStream, Streams
  <2> QED
    BY <1>2, <1>4, <2>1 DEF Disconnected
<1>g. PICK g : g = [D.ghost EXCEPT !.drift = @ + 1]
  OBVIOUS
<1>5a. D.client = [d.client EXCEPT ![c] = p]
  BY <1>5
<1>5b. D.conn = [d.conn EXCEPT ![s] = Closed] /\ D.pool = d.pool /\ D.nb_active = d.nb_active - 1
       /\ D.faults = d.faults
  BY <1>5
<1>5c. Shape(D)
  BY <1>5
<1>6. /\ Shape(V) /\ V.client = D.client /\ V.conn = D.conn /\ V.pool = D.pool /\ V.faults = D.faults + 1
      /\ V.nb_active = D.nb_active - 1 /\ V.ghost = g
  <2>g. g = [f \in GhostFields |-> g[f]]
    BY <1>5c, <1>g DEF Shape, GhostFields
  <2>D1. PICK D1 : D1 = [D EXCEPT !.ghost = g]
    OBVIOUS
  <2>D2. PICK D2 : D2 = Fault(D1)
    OBVIOUS
  <2>1. V = CountedOff(D2)
    BY <1>D, <1>g, <2>D1, <2>D2 DEF Unanswered
  <2>2. /\ Shape(D1) /\ D1.client = D.client /\ D1.conn = D.conn /\ D1.pool = D.pool /\ D1.faults = D.faults
        /\ D1.nb_active = D.nb_active /\ D1.ghost = g
    BY <1>5c, <2>g, <2>D1 DEF Shape, WorldFields
  <2>3. /\ Shape(D2) /\ D2.client = D.client /\ D2.conn = D.conn /\ D2.pool = D.pool /\ D2.faults = D.faults + 1
        /\ D2.nb_active = D.nb_active /\ D2.ghost = g
    BY <2>2, <2>D2 DEF Shape, WorldFields, Fault
  <2>4. /\ Shape(V) /\ V.client = D2.client /\ V.conn = D2.conn /\ V.pool = D2.pool /\ V.faults = D2.faults
        /\ V.nb_active = D2.nb_active - 1 /\ V.ghost = D2.ghost
    <3>1. Shape(D2)
      BY <2>3
    <3> QED
      BY <2>1, <3>1 DEF Shape, WorldFields, CountedOff
  <2> QED
    BY <2>3, <2>4
<1>7. V.client = [W.client EXCEPT ![c] = p] /\ V.client[c] = p
  <2>1. W.client = [x \in Client |-> W.client[x]]
    BY <1>1 DEF Shape
  <2>2. d.client = [W.client EXCEPT ![c] = k0] /\ V.client = D.client
    BY <1>3, <1>6
  <2> QED
    BY <1>5a, <2>1, <2>2
<1>8. V.conn = [W.conn EXCEPT ![s] = Closed] /\ V.pool = Front(W.pool) /\ V.faults = W.faults + 1
      /\ V.nb_active = (W.nb_active - 1) - 1
  <2>1. W.conn = [x \in Streams |-> W.conn[x]]
    BY <1>1 DEF Shape
  <2>2. d.conn = [W.conn EXCEPT ![s] = r] /\ V.conn = D.conn /\ D.conn = [d.conn EXCEPT ![s] = Closed]
    BY <1>3, <1>5b, <1>6
  <2>3. V.conn = [W.conn EXCEPT ![s] = Closed]
    BY <2>1, <2>2
  <2>4. V.pool = Front(W.pool) /\ V.faults = W.faults + 1 /\ V.nb_active = (W.nb_active - 1) - 1
    BY <1>3, <1>5b, <1>6
  <2> QED
    BY <2>3, <2>4
<1>T. PICK T : T = IF Torn(p) THEN W.ghost.torn \cup {c} ELSE W.ghost.torn
  OBVIOUS
<1>9. /\ D.ghost = [f \in GhostFields |-> D.ghost[f]] /\ D.ghost.torn = T /\ D.ghost.drift = W.ghost.drift /\ GhostType(D.ghost)
      /\ SameNoted(W.ghost, D.ghost) /\ OthersNoted(W.ghost, D.ghost, c)
  <2>1. D.ghost = [W.ghost EXCEPT !.torn = T] /\ T \in {W.ghost.torn, W.ghost.torn \cup {c}}
    BY <1>3, <1>5, <1>T
  <2> QED
    BY <1>1, <2>1, GhostTorn
<1>10. /\ g.torn = T /\ g.drift = W.ghost.drift + 1 /\ GhostType(g)
       /\ SameNoted(W.ghost, g) /\ OthersNoted(W.ghost, g, c)
  <2>1. /\ g.torn = D.ghost.torn /\ g.drift = D.ghost.drift + 1 /\ g.mixed = D.ghost.mixed
        /\ g.unread = D.ghost.unread /\ g.blind = D.ghost.blind /\ g.spurious = D.ghost.spurious
        /\ g.unguarded = D.ghost.unguarded
    BY <1>9, <1>g DEF GhostFields
  <2>2. g.torn = T /\ g.drift = W.ghost.drift + 1
    BY <1>9, <2>1
  <2>3. GhostType(g)
    <3>1. D.ghost.drift \in Nat
      BY <1>9 DEF GhostType
    <3>2. g.drift \in Nat
      BY <2>1, <3>1
    <3>3. /\ g.torn \subseteq Client /\ g.unread \subseteq Client /\ g.mixed \subseteq Client
          /\ g.blind \subseteq Client /\ g.unguarded = {} /\ g.spurious \subseteq Client
      BY <1>9, <2>1, Zenon DEF GhostType
    <3> QED
      BY <3>2, <3>3 DEF GhostType
  <2>4. SameNoted(W.ghost, g)
    BY <1>9, <2>1 DEF SameNoted
  <2>5. OthersNoted(W.ghost, g, c)
    BY <1>9, <2>1 DEF OthersNoted
  <2> QED
    BY <2>2, <2>3, <2>4, <2>5
<1>11. SockType(p) /\ p.stream = NoStream /\ p.persistent = W.client[c].persistent /\ p.db = W.client[c].db
       /\ p.pipeline_cmd = W.client[c].pipeline_cmd /\ p.watched = W.client[c].watched /\ p.mode = {}
  BY <1>2, <1>5 DEF Parted
<1>12. NotesOK(V.ghost, c, p)
  BY <1>1, <1>6, <1>10, <1>11, <1>T DEF NotesOK, GhostType
<1>13. Explained(V.ghost, c, p)
  BY <1>1, <1>6, <1>10, <1>11 DEF Explained, SameNoted, Quiet
<1>14. NumbersType(V) /\ V.nb_active + V.ghost.drift = (W.nb_active + W.ghost.drift) - 1
  <2>1. W.nb_active \in Int /\ (Limit > 0 => W.nb_active <= Limit) /\ W.ghost.drift \in Nat /\ Limit \in Nat
        /\ W.faults \in 0..MaxFaults /\ W.ghost.drift <= W.faults /\ W.faults < MaxFaults /\ MaxFaults \in Nat
    BY <1>1, <1>3, SockAssumption DEF Good, NumbersType, GhostType, MayFail
  <2>2. V.ghost.drift = W.ghost.drift + 1
    BY <1>6, <1>10
  <2>3. V.nb_active \in Int /\ (Limit > 0 => V.nb_active <= Limit)
    BY <1>8, <2>1
  <2>4. V.faults \in 0..MaxFaults /\ V.ghost.drift <= V.faults
    BY <1>8, <2>1, <2>2
  <2>5. V.nb_active + V.ghost.drift = (W.nb_active + W.ghost.drift) - 1
    <3>1. V.nb_active = (W.nb_active - 1) - 1 /\ W.nb_active \in Int /\ W.ghost.drift \in Nat
      BY <1>8, <2>1
    <3> QED
      BY <2>2, <3>1
  <2> QED
    BY <2>3, <2>4, <2>5 DEF NumbersType
<1>15. Good(V, c)
  <2>1. GhostType(V.ghost) /\ OthersNoted(W.ghost, V.ghost, c)
    BY <1>6, <1>10
  <2>2. ~Held(W, c) /\ V.conn = [W.conn EXCEPT ![Last(W.pool)] = Closed] /\ V.pool = Front(W.pool)
    BY <1>8 DEF Wanting
  <2>3. Shape(V)
    BY <1>6
  <2> QED
    BY <1>1, <1>7, <1>11, <1>12, <1>13, <1>14, <2>1, <2>2, <2>3, Discards
<1> QED
  BY <1>6, <1>7, <1>10, <1>11, <1>15 DEF Still, Wanting, Held

LEMMA NewStreamAfter ==
  ASSUME NEW W, NEW X, NEW c \in Client, Still(W, X, c), NEW a \in NewStream(X, c)
  PROVE  Connected(W, a.w, c, a.ok)
<1>1. Connected(X, a.w, c, a.ok)
  BY NewStreamGood DEF Still
<1> QED
  BY <1>1 DEF Still, Connected, SameNoted

LEMMA ConnectIs ==
  ASSUME NEW W, NEW c \in Client, ~Held(W, c), NEW a \in redis_sock_connect(W, c)
  PROVE  \/ a \in NewStream(W, c)
         \/ /\ W.client[c].persistent /\ W.pool # << >>
            /\ \E b \in redis_sock_check_liveness(TakenWorld(W, c), c) :
                 \/ b.ok /\ a = b
                 \/ ~b.ok /\ a \in NewStream(CountedOff(b.w), c)
<1>1. W.client[c].stream = NoStream
  BY DEF Held
<1>2. CASE W.client[c].persistent /\ W.pool # << >>
  <2>1. PICK b \in redis_sock_check_liveness(TakenWorld(W, c), c) :
          a \in IF b.ok THEN {b} ELSE NewStream(CountedOff(b.w), c)
    BY <1>1, <1>2, Zenon DEF redis_sock_connect, TakenWorld, CountedOff
  <2> QED
    BY <1>2, <2>1
<1>3. CASE ~(W.client[c].persistent /\ W.pool # << >>)
  BY <1>1, <1>3, Zenon DEF redis_sock_connect
<1> QED
  BY <1>2, <1>3

LEMMA ConnectGood ==
  ASSUME NEW W, NEW c \in Client, Wanting(W, c), NEW a \in redis_sock_connect(W, c)
  PROVE  Connected(W, a.w, c, a.ok)
<1>0. Good(W, c) /\ Shape(W) /\ ~Held(W, c)
  BY DEF Wanting, Good
<1>1. CASE a \in NewStream(W, c)
  BY <1>1, NewStreamGood
<1>2. ASSUME W.client[c].persistent, W.pool # << >>,
             NEW b \in redis_sock_check_liveness(TakenWorld(W, c), c),
             \/ b.ok /\ a = b
             \/ ~b.ok /\ a \in NewStream(CountedOff(b.w), c)
      PROVE  Connected(W, a.w, c, a.ok)
  <2>s. PICK s \in Streams : s = Last(W.pool)
    BY <1>0, <1>2, FrontOfPool DEF Good
  <2>U. PICK U : U = TakenWorld(W, c)
    OBVIOUS
  <2>1. U.client[c].stream = s
    <3>k. PICK k : k = [W.client[c] EXCEPT !.stream = s]
      OBVIOUS
    <3>1. SockShape(W.client[c])
      BY <1>0 DEF Good, ClientsOK, SockType
    <3>2. k.stream = s
      BY <3>k, <3>1 DEF SockShape, SockFields
    <3>3. U.client = [W.client EXCEPT ![c] = k]
      BY <1>0, <2>s, <2>U, <3>k DEF Shape, WorldFields, TakenWorld
    <3> QED
      BY <1>0, <3>2, <3>3 DEF Shape
  <2>2. PICK d \in {U, [U EXCEPT !.conn[s].unread = FALSE]} :
           \/ ~b.ok /\ b.w = Rejected(d, c, s)
           \/ b.ok /\ b.w = Kept(d, c) /\ U.conn[s].up /\ (ini.echo => Echoed(d.conn[s]))
           \/ ~b.ok /\ MayFail(d) /\ b.w = Unanswered(d, c)
    BY <1>2, <2>1, <2>U, LivenessIs
  <2>3. PICK k, r : Taken(W, d, c, s, k, r)
    BY <1>0, <1>2, <2>s, <2>U, <2>2, TakenIs
  <2>4. CASE b.ok /\ a = b /\ b.w = Kept(d, c) /\ U.conn[s].up /\ (ini.echo => Echoed(d.conn[s]))
    <3>1. U.conn = W.conn
      BY <1>0, <2>U DEF Shape, WorldFields, TakenWorld
    <3>2. r.up /\ (ini.echo => Echoed(r))
      BY <2>3, <2>4, <3>1 DEF Taken
    <3>3. Connected(W, b.w, c, TRUE)
      BY <1>2, <2>s, <2>3, <2>4, <3>2, KeptGood
    <3> QED
      BY <2>4, <3>3 DEF Connected
  <2>5. CASE a \in NewStream(CountedOff(b.w), c) /\ b.w = Rejected(d, c, s)
    <3>1. Still(W, CountedOff(b.w), c)
      BY <1>2, <2>s, <2>3, <2>5, RejectedGood
    <3> QED
      BY <2>5, <3>1, NewStreamAfter
  <2>6. CASE a \in NewStream(CountedOff(b.w), c) /\ MayFail(d) /\ b.w = Unanswered(d, c)
    <3>1. Still(W, CountedOff(b.w), c)
      BY <1>2, <2>s, <2>3, <2>6, UnansweredGood
    <3> QED
      BY <2>6, <3>1, NewStreamAfter
  <2> QED
    BY <1>2, <2>2, <2>4, <2>5, <2>6
<1> QED
  BY <1>0, <1>1, <1>2, ConnectIs

---------------------------------------------------------------------------
(* A command and its answer; redis_check_eof; redis_sock_get.              *)

\* What is noted when client c has not had its answer.
NotedSince(g, h, c) ==
  /\ h.unread = g.unread /\ h.blind = g.blind /\ h.spurious = g.spurious
  /\ g.torn \subseteq h.torn
  /\ h.mixed = g.mixed \/ (h.mixed = g.mixed \cup {c} /\ ~Quiet(h, c))

Fail(W, V, c) ==
  /\ Good(V, c) /\ Idle(V.client[c]) /\ NotedSince(W.ghost, V.ghost, c)
  /\ ~Held(V, c) \/ c \in V.ghost.mixed
  /\ Held(V, c) /\ W.client[c].mode = {"MULTI"} => V.client[c].mode = {"MULTI"}

LEMMA GoneFails ==
  ASSUME NEW W, NEW V, NEW c \in Client, Gone(W, V, c)
  PROVE  Fail(W, V, c)
  BY DEF Gone, Fail, SameNoted, NotedSince, Held

MixedWorld(W, c) == [W EXCEPT !.ghost.mixed = @ \cup {c}]

\* The reply read is not the command's own: only what others left explains it.
LEMMA MixedGood ==
  ASSUME NEW W, NEW c \in Client, Good(W, c), Held(W, c), c \notin W.ghost.mixed, ~Quiet(W.ghost, c),
         NEW V, V = MixedWorld(W, c)
  PROVE  Fail(W, V, c)
<1>k. PICK k : k = W.client[c]
  OBVIOUS
<1>s. PICK s : s = k.stream
  OBVIOUS
<1>r. PICK r : r = W.conn[s]
  OBVIOUS
<1>1. /\ Shape(W) /\ SockType(k) /\ NotesOK(W.ghost, c, k)
      /\ Explained(W.ghost, c, k) /\ GhostType(W.ghost) /\ Owned(W)
  BY <1>k DEF Good, ClientsOK
<1>2. s \in Streams /\ s = W.client[c].stream /\ s # NoStream
  BY <1>1, <1>k, <1>s DEF SockType, SockFlags, Held
<1>3. ConnType(r) /\ r.open /\ StreamOK(W.ghost, c, k, r)
  BY <1>2, <1>k, <1>r, <1>s DEF Good, Owned, ClientsOK, Held
<1>g. PICK g : g = [W.ghost EXCEPT !.mixed = @ \cup {c}]
  OBVIOUS
<1>4. /\ g = [f \in GhostFields |-> g[f]] /\ g.mixed = W.ghost.mixed \cup {c} /\ g.torn = W.ghost.torn
      /\ g.unread = W.ghost.unread /\ g.blind = W.ghost.blind /\ g.spurious = W.ghost.spurious
      /\ g.unguarded = W.ghost.unguarded /\ g.drift = W.ghost.drift
  BY <1>1, <1>g DEF Shape, GhostFields
<1>5. /\ Shape(V) /\ V.client = W.client /\ V.conn = W.conn /\ V.pool = W.pool
      /\ V.nb_active = W.nb_active /\ V.faults = W.faults /\ V.ghost = g
  BY <1>1, <1>4, <1>g DEF Shape, WorldFields, MixedWorld
<1>6. V.client = [W.client EXCEPT ![c] = k] /\ V.conn = [W.conn EXCEPT ![s] = r]
  BY <1>1, <1>2, <1>5, <1>k, <1>r DEF Shape
<1>7. GhostType(g) /\ OthersNoted(W.ghost, g, c)
  BY <1>1, <1>4 DEF GhostType, OthersNoted
<1>8. NumbersType(V)
  BY <1>4, <1>5 DEF Good, NumbersType
<1>9. ~Quiet(g, c)
  BY <1>4 DEF Quiet
<1>10. NotesOK(g, c, k) /\ Explained(g, c, k)
  BY <1>1, <1>4, <1>9 DEF NotesOK, Explained
<1>11. StreamOK(g, c, k, r)
  BY <1>3, <1>4 DEF StreamOK, DatabaseOK, CleanOK, QueueOK, WatchOK
<1>12. Good(V, c) /\ Idle(V.client[c])
  <2>1. k.stream = s /\ k.persistent = W.client[c].persistent /\ V.ghost.drift = W.ghost.drift
    BY <1>4, <1>5, <1>k, <1>s
  <2> QED
    BY <1>1, <1>2, <1>3, <1>5, <1>6, <1>7, <1>8, <1>10, <1>11, <2>1, Stays
<1>13. NotedSince(W.ghost, V.ghost, c)
  BY <1>4, <1>5, <1>9 DEF NotedSince
<1>14. c \in V.ghost.mixed /\ V.client[c].mode = W.client[c].mode
  BY <1>4, <1>5
<1> QED
  BY <1>12, <1>13, <1>14 DEF Fail

\* A failure of the network after which the stream is gone.
LEMMA FaultedGone ==
  ASSUME NEW W, NEW L, NEW c \in Client, Gone(W, L, c), L.faults = W.faults, MayFail(W),
         NEW V, V = Fault(L)
  PROVE  Gone(W, V, c)
<1>1. Good(L, c) /\ L.faults < MaxFaults
  BY DEF Gone, MayFail
<1>2. Good(V, c) /\ V.client = L.client /\ V.ghost = L.ghost
  BY <1>1, Faulted
<1> QED
  BY <1>2 DEF Gone

Answered(W, x, c, s, q, reply) ==
  \/ /\ x.reply = "none" /\ x.w = MixedWorld(W, c)
     /\ W.conn[s].unread \/ (reply = "queued" /\ W.client[c].mode # {"MULTI"})
  \/ /\ x.reply = reply /\ x.w = [W EXCEPT !.conn[s] = q] /\ ~W.conn[s].unread
     /\ reply = "queued" => W.client[c].mode = {"MULTI"}
  \/ /\ x.reply = "none" /\ MayFail(W)
     /\ x.w = Fault(Lost(W, c)) \/ x.w = Fault(Failed(W, c))

LEMMA AnswerIs ==
  ASSUME NEW W, NEW c, NEW cmd, NEW x \in Answer(W, c, cmd), NEW s, s = W.client[c].stream,
         NEW q, NEW reply, Served1(W.conn[s], cmd, q, reply)
  PROVE  Answered(W, x, c, s, q, reply)
<1>1. CASE W.conn[s].unread \/ (reply = "queued" /\ W.client[c].mode # {"MULTI"})
  <2>1. x \in {[reply |-> "none", w |-> MixedWorld(W, c)]}
    BY <1>1, Zenon DEF Answer, Served1, MixedWorld
  <2> QED
    BY <1>1, <2>1 DEF Answered
<1>2. CASE ~(W.conn[s].unread \/ (reply = "queued" /\ W.client[c].mode # {"MULTI"}))
  <2>1. x \in {[reply |-> reply, w |-> [W EXCEPT !.conn[s] = q]]} \cup
             (IF MayFail(W) THEN {[reply |-> "none", w |-> Fault(Lost(W, c))],
                                  [reply |-> "none", w |-> Fault(Failed(W, c))]} ELSE {})
    BY <1>2, Zenon DEF Answer, Served1
  <2>2. \/ x = [reply |-> reply, w |-> [W EXCEPT !.conn[s] = q]]
        \/ MayFail(W) /\ x = [reply |-> "none", w |-> Fault(Lost(W, c))]
        \/ MayFail(W) /\ x = [reply |-> "none", w |-> Fault(Failed(W, c))]
    BY <2>1
  <2> QED
    BY <1>2, <2>2 DEF Answered
<1> QED
  BY <1>1, <1>2

\* The command had its own answer.
Replied(W, V, c, cmd, reply) ==
  /\ \E q : /\ Served1(W.conn[W.client[c].stream], cmd, q, reply)
            /\ V = [W EXCEPT !.conn[W.client[c].stream] = q]
  /\ ~W.conn[W.client[c].stream].unread
  /\ reply = "queued" => W.client[c].mode = {"MULTI"}

\* Only a command, and only in a block, is queued.
LEMMA QueuedInBlock ==
  ASSUME NEW r, ConnType(r), NEW cmd \in Sent, NEW q, Served1(r, cmd, q, "queued")
  PROVE  r.multi # "no"
<1> SUFFICES ASSUME r.multi = "no"
             PROVE  FALSE
  OBVIOUS
<1>1. CASE cmd = "MULTI"
  BY <1>1, ServeMulti
<1>2. CASE cmd = "EXEC"
  BY <1>2, ServeExec
<1>3. CASE cmd = "DISCARD"
  <2>1. "queued" = "ok"
    BY <1>3, ServeDiscard, Zenon
  <2> QED
    BY <2>1
<1>4. CASE cmd = "RESET"
  <2>1. "queued" = "ok"
    BY <1>4, ServeReset, Zenon
  <2> QED
    BY <2>1
<1>5. CASE cmd \in Command
  <2>1. "queued" = IF cmd = "bad" THEN "err" ELSE "ok"
    BY <1>5, ServePlain
  <2> QED
    BY <2>1
<1> QED
  BY <1>1, <1>2, <1>3, <1>4, <1>5 DEF Sent

LEMMA AnswerGood ==
  ASSUME NEW W, NEW c \in Client, Good(W, c), Held(W, c), c \notin W.ghost.mixed,
         NEW cmd \in Sent, NEW x \in Answer(W, c, cmd)
  PROVE  \/ x.reply = "none" /\ Fail(W, x.w, c)
         \/ Replied(W, x.w, c, cmd, x.reply)
<1>s. PICK s : s = W.client[c].stream
  OBVIOUS
<1>q. PICK q, reply : Served1(W.conn[s], cmd, q, reply)
  BY DEF Served1
<1>1. /\ s \in Streams /\ ConnType(W.conn[s]) /\ CleanOK(W.ghost, c, W.client[c], W.conn[s])
  BY <1>s DEF Good, ClientsOK, StreamOK, SockType, SockFlags, Held
<1>2. CASE /\ x.reply = "none" /\ x.w = MixedWorld(W, c)
           /\ W.conn[s].unread \/ (reply = "queued" /\ W.client[c].mode # {"MULTI"})
  <2>1. ~Quiet(W.ghost, c)
    <3>1. reply = "queued" => W.conn[s].multi # "no"
      BY <1>1, <1>q, QueuedInBlock
    <3> QED
      BY <1>1, <1>2, <3>1 DEF CleanOK
  <2>2. Fail(W, x.w, c)
    BY <1>2, <2>1, MixedGood
  <2> QED
    BY <1>2, <2>2
<1>3. CASE /\ x.reply = reply /\ x.w = [W EXCEPT !.conn[s] = q] /\ ~W.conn[s].unread
           /\ reply = "queued" => W.client[c].mode = {"MULTI"}
  BY <1>3, <1>s, <1>q, Zenon DEF Replied
<1>4. CASE /\ x.reply = "none" /\ MayFail(W)
           /\ x.w = Fault(Lost(W, c)) \/ x.w = Fault(Failed(W, c))
  <2>1. CASE x.w = Fault(Lost(W, c))
    <3>1. PICK L : L = Lost(W, c)
      OBVIOUS
    <3>2. Gone(W, L, c) /\ L.faults = W.faults
      BY <3>1, LostGood
    <3>3. Gone(W, x.w, c)
      BY <1>4, <2>1, <3>1, <3>2, FaultedGone
    <3> QED
      BY <1>4, <3>3, GoneFails
  <2>2. CASE x.w = Fault(Failed(W, c))
    <3>1. PICK L : L = Failed(W, c)
      OBVIOUS
    <3>2. Gone(W, L, c) /\ L.faults = W.faults
      BY <3>1, FailedGood
    <3>3. Gone(W, x.w, c)
      BY <1>4, <2>2, <3>1, <3>2, FaultedGone
    <3> QED
      BY <1>4, <3>3, GoneFails
  <2> QED
    BY <1>4, <2>1, <2>2
<1>5. \/ /\ x.reply = "none" /\ x.w = MixedWorld(W, c)
         /\ W.conn[s].unread \/ (reply = "queued" /\ W.client[c].mode # {"MULTI"})
      \/ /\ x.reply = reply /\ x.w = [W EXCEPT !.conn[s] = q] /\ ~W.conn[s].unread
         /\ reply = "queued" => W.client[c].mode = {"MULTI"}
      \/ /\ x.reply = "none" /\ MayFail(W)
         /\ x.w = Fault(Lost(W, c)) \/ x.w = Fault(Failed(W, c))
  <2>1. Answered(W, x, c, s, q, reply)
    BY <1>q, <1>s, AnswerIs
  <2> QED
    BY <2>1 DEF Answered
<1> QED
  BY <1>2, <1>3, <1>4, <1>5

\* What is known of a client that holds a stream.
At(W, c, k, s, r) ==
  /\ W.client[c] = k /\ k.stream = s /\ W.conn[s] = r /\ s \in Streams /\ s # NoStream
  /\ Shape(W) /\ SockType(k) /\ ConnType(r) /\ r.open
  /\ NotesOK(W.ghost, c, k) /\ Explained(W.ghost, c, k) /\ StreamOK(W.ghost, c, k, r)
  /\ GhostType(W.ghost)

LEMMA HeldAt ==
  ASSUME NEW W, NEW c \in Client, Good(W, c), Held(W, c)
  PROVE  \E k, s, r : At(W, c, k, s, r)
<1>1. /\ Shape(W) /\ SockType(W.client[c]) /\ GhostType(W.ghost) /\ W.client[c].stream # NoStream
      /\ NotesOK(W.ghost, c, W.client[c]) /\ Explained(W.ghost, c, W.client[c])
      /\ StreamOK(W.ghost, c, W.client[c], W.conn[W.client[c].stream])
      /\ W.conn[W.client[c].stream].open
  BY DEF Good, ClientsOK, Owned, Held
<1>2. W.client[c].stream \in Streams
  BY <1>1 DEF SockType, SockFlags
<1>3. ConnType(W.conn[W.client[c].stream])
  BY <1>2 DEF Good
<1> QED
  BY <1>1, <1>2, <1>3 DEF At

\* The client and its stream become k and r; the ghost may change too.
Became(W, V, c, s, k, r) ==
  /\ Shape(V) /\ V.client = [W.client EXCEPT ![c] = k] /\ V.conn = [W.conn EXCEPT ![s] = r]
  /\ V.pool = W.pool /\ V.nb_active = W.nb_active /\ V.faults = W.faults

LEMMA BecameGood ==
  ASSUME NEW W, NEW c \in Client, Good(W, c), NEW k0, NEW s, NEW r0, At(W, c, k0, s, r0),
         NEW V, NEW k, NEW r, Became(W, V, c, s, k, r),
         SockType(k), k.stream = s, k.persistent = k0.persistent, ConnType(r), r.open,
         GhostType(V.ghost), V.ghost.drift = W.ghost.drift, OthersNoted(W.ghost, V.ghost, c),
         NotesOK(V.ghost, c, k), Explained(V.ghost, c, k), StreamOK(V.ghost, c, k, r)
  PROVE  Good(V, c) /\ Idle(V.client[c]) /\ At(V, c, k, s, r) /\ Held(V, c)
<1>1. /\ Shape(V) /\ V.client = [W.client EXCEPT ![c] = k] /\ V.conn = [W.conn EXCEPT ![s] = r]
      /\ V.pool = W.pool /\ V.nb_active = W.nb_active /\ V.faults = W.faults
  BY DEF Became
<1>2. s \in Streams /\ s # NoStream /\ W.client[c].stream = s /\ k.persistent = W.client[c].persistent /\ Shape(W)
  BY DEF At
<1>3. NumbersType(V)
  BY <1>1 DEF Good, NumbersType
<1>4. Good(V, c) /\ Idle(V.client[c])
  BY <1>1, <1>2, <1>3, Stays
<1>5. V.client[c] = k /\ V.conn[s] = r
  BY <1>1, <1>2 DEF Shape
<1>6. At(V, c, k, s, r)
  BY <1>1, <1>2, <1>5 DEF At
<1>7. Held(V, c)
  BY <1>2, <1>5 DEF Held
<1> QED
  BY <1>4, <1>6, <1>7

\* The world when the server has answered: only the stream changes.
RepliedAs(W, V, c, k, s, r, cmd, reply, q) ==
  /\ Served1(r, cmd, q, reply) /\ Became(W, V, c, s, k, q) /\ V.ghost = W.ghost
  /\ V.client[c] = k /\ ~r.unread /\ (reply = "queued" => k.mode = {"MULTI"})

LEMMA RepliedIs ==
  ASSUME NEW W, NEW c \in Client, NEW k, NEW s, NEW r, At(W, c, k, s, r),
         NEW V, NEW cmd, NEW reply, Replied(W, V, c, cmd, reply)
  PROVE  \E q : RepliedAs(W, V, c, k, s, r, cmd, reply, q)
<1>1. PICK q : /\ Served1(r, cmd, q, reply) /\ V = [W EXCEPT !.conn[s] = q]
  BY DEF Replied, At
<1>2. /\ Shape(V) /\ V.client = W.client /\ V.conn = [W.conn EXCEPT ![s] = q]
      /\ V.pool = W.pool /\ V.nb_active = W.nb_active /\ V.faults = W.faults /\ V.ghost = W.ghost
  BY <1>1 DEF At, Shape, WorldFields
<1>3. W.client = [W.client EXCEPT ![c] = k] /\ W.client[c] = k
  BY DEF At, Shape
<1> QED
  BY <1>1, <1>2, <1>3 DEF Became, RepliedAs, Replied, At

\* Nothing is new to the others.
LEMMA SameForAll == \A g, c : OthersNoted(g, g, c) /\ SameNoted(g, g)
  BY DEF OthersNoted, SameNoted

\* The client, its stream as it was, is ready for commands.
Readied(W, V, c) ==
  \E k, s, r, k0, r0 :
    /\ At(W, c, k0, s, r0) /\ At(V, c, k, s, r) /\ Good(V, c) /\ V.ghost = W.ghost
    /\ k.status = "ready" /\ r.up = r0.up
    /\ k.persistent = k0.persistent /\ k.db = k0.db /\ k.mode = k0.mode
    /\ k.pipeline_cmd = k0.pipeline_cmd /\ k.watched = k0.watched

\* A client newly connected is made ready.
LEMMA MadeReady ==
  ASSUME NEW W, NEW c \in Client, Good(W, c), NEW k0, NEW s, NEW r0, At(W, c, k0, s, r0),
         k0.mode # {"MULTI"}, NEW r, NEW Y, Became(W, Y, c, s, k0, r), Y.ghost = W.ghost,
         NEW V, V = ReadyNow(Y, c),
         ConnType(r), r.open, r.up = r0.up, r.unread = r0.unread, r.watch = r0.watch,
         r.multi = r0.multi, k0.db = 0 => r.db = r0.db, k0.db # 0 => r.db = 1
  PROVE  Readied(W, V, c)
<1>k. PICK k : k = [k0 EXCEPT !.status = "ready"]
  OBVIOUS
<1>1. Shape(Y) /\ Y.client[c] = k0 /\ SockType(k0)
  BY DEF Became, At, Shape
<1>2. /\ SockShape(k) /\ k.status = "ready" /\ k.stream = k0.stream /\ k.persistent = k0.persistent
      /\ k.db = k0.db /\ k.mode = k0.mode /\ k.watching = k0.watching
      /\ k.callbacks = k0.callbacks /\ k.pipeline_cmd = k0.pipeline_cmd
      /\ k.watched = k0.watched /\ k.touched = k0.touched
  BY <1>1, <1>k DEF SockType, SockShape, SockFields
<1>3. SockType(k)
  BY <1>1, <1>2 DEF SockType, SockFlags, SockNotes, At
<1>4. /\ Shape(V) /\ V.client = [Y.client EXCEPT ![c] = k] /\ V.conn = Y.conn /\ V.pool = Y.pool
      /\ V.nb_active = Y.nb_active /\ V.faults = Y.faults /\ V.ghost = Y.ghost
  BY <1>1, <1>k DEF Shape, WorldFields, ReadyNow
<1>5. Became(W, V, c, s, k, r)
  <2>1. Y.client = [W.client EXCEPT ![c] = k0] /\ W.client = [x \in Client |-> W.client[x]]
    BY DEF Became, At, Shape
  <2>2. V.client = [W.client EXCEPT ![c] = k]
    BY <1>4, <2>1
  <2> QED
    BY <1>4, <2>2 DEF Became
<1>6. NotesOK(V.ghost, c, k) /\ Explained(V.ghost, c, k)
  BY <1>2, <1>4 DEF At, NotesOK, Explained, Torn
<1>7. StreamOK(V.ghost, c, k, r)
  <2>1. DatabaseOK(W.ghost, c, k, r)
    BY <1>2 DEF At, StreamOK, DatabaseOK
  <2>2. CleanOK(W.ghost, c, k, r)
    BY <1>2 DEF At, StreamOK, CleanOK
  <2>3. QueueOK(W.ghost, c, k, r)
    BY <1>2 DEF QueueOK
  <2>4. WatchOK(W.ghost, c, k, r)
    BY <1>2 DEF At, StreamOK, WatchOK
  <2> QED
    BY <1>4, <2>1, <2>2, <2>3, <2>4 DEF StreamOK
<1>8. GhostType(V.ghost) /\ V.ghost = W.ghost /\ OthersNoted(W.ghost, V.ghost, c)
  BY <1>4, SameForAll DEF At
<1>9. Good(V, c) /\ At(V, c, k, s, r)
  <2>1. k.stream = s /\ k.persistent = k0.persistent
    BY <1>2 DEF At
  <2>2. V.ghost.drift = W.ghost.drift
    BY <1>8
  <2> QED
    BY <1>3, <1>5, <1>6, <1>7, <1>8, <2>1, <2>2, BecameGood
<1> QED
  BY <1>2, <1>8, <1>9 DEF Readied

LEMMA ReselectedIs ==
  ASSUME NEW a, NEW c, NEW y \in Reselected(a, c)
  PROVE  \/ ~a.ok /\ y = a
         \/ a.ok /\ a.w.client[c].db = 0 /\ y.ok /\ y.w = ReadyNow(a.w, c)
         \/ /\ a.ok /\ a.w.client[c].db # 0
            /\ \E x \in Answer(a.w, c, "select") :
                 \/ x.reply = "ok" /\ y.ok /\ y.w = ReadyNow(x.w, c)
                 \/ x.reply # "ok" /\ ~y.ok /\ y.w = x.w
<1>1. CASE ~a.ok
  BY <1>1 DEF Reselected
<1>2. CASE a.ok /\ a.w.client[c].db = 0
  <2>1. y = [ok |-> TRUE, w |-> ReadyNow(a.w, c)]
    BY <1>2 DEF Reselected
  <2> QED
    BY <1>2, <2>1
<1>3. CASE a.ok /\ a.w.client[c].db # 0
  <2>1. PICK x \in Answer(a.w, c, "select") :
          y = IF x.reply = "ok" THEN [ok |-> TRUE, w |-> ReadyNow(x.w, c)] ELSE [ok |-> FALSE, w |-> x.w]
    BY <1>3, Zenon DEF Reselected
  <2> QED
    BY <1>3, <2>1
<1> QED
  BY <1>1, <1>2, <1>3

\* SELECT outside a MULTI block.
LEMMA SelectServed ==
  ASSUME NEW r, ConnType(r), r.multi = "no", NEW q, NEW reply, Served1(r, "select", q, reply)
  PROVE  /\ ConnType(q) /\ q.unread = r.unread /\ q.open = r.open /\ q.up = r.up
         /\ q.multi = "no" /\ reply = "ok" /\ q.db = 1 /\ q.watch = r.watch
<1>1. PICK cmd \in Command : cmd = "select"
  BY DEF Command
<1>2. Served1(r, cmd, q, reply)
  BY <1>1
<1>3. cmd # "bad" /\ cmd \notin {"watch", "unwatch"}
  BY <1>1
<1>4. /\ ConnType(q) /\ q.unread = r.unread /\ q.open = r.open /\ q.up = r.up
      /\ q.multi = "no" /\ reply = (IF cmd = "bad" THEN "err" ELSE "ok")
      /\ q.db = (IF cmd = "select" THEN 1 ELSE r.db)
      /\ cmd \notin {"watch", "unwatch"} => q.watch = r.watch
  BY <1>2, ServePlain
<1> QED
  BY <1>1, <1>3, <1>4

\* What Reselected makes of a connection: ready, or the failure of its SELECT.
LEMMA ReselectedGood ==
  ASSUME NEW a, NEW c \in Client, a.ok, Good(a.w, c), Held(a.w, c), a.w.client[c].status = "connected",
         c \notin a.w.ghost.mixed, NEW y \in Reselected(a, c)
  PROVE  IF y.ok THEN Readied(a.w, y.w, c) ELSE Fail(a.w, y.w, c)
<1>W. PICK W : W = a.w
  OBVIOUS
<1>1. PICK k, s, r : At(W, c, k, s, r)
  BY <1>W, HeldAt
<1>2. k.status = "connected" /\ k.mode # {"MULTI"} /\ W.client[c] = k /\ Good(W, c)
  BY <1>W, <1>1 DEF At, SockType, SockFlags
<1>3. CASE k.db = 0
  <2>1. y.ok /\ y.w = ReadyNow(W, c)
    BY <1>W, <1>2, <1>3, ReselectedIs
  <2>2. Became(W, W, c, s, k, r)
    BY <1>1 DEF Became, At, Shape
  <2>3. ConnType(r) /\ r.open
    BY <1>1 DEF At
  <2>4. Readied(W, y.w, c)
    BY <1>1, <1>2, <1>3, <2>1, <2>2, <2>3, MadeReady
  <2> QED
    BY <1>W, <2>1, <2>4
<1>4. CASE k.db # 0
  <2>1. PICK x \in Answer(W, c, "select") :
                 \/ x.reply = "ok" /\ y.ok /\ y.w = ReadyNow(x.w, c)
                 \/ x.reply # "ok" /\ ~y.ok /\ y.w = x.w
    BY <1>W, <1>2, <1>4, ReselectedIs
  <2>2. "select" \in Sent /\ "select" \in Command
    BY DEF Sent, Command
  <2>3. (x.reply = "none" /\ Fail(W, x.w, c)) \/ Replied(W, x.w, c, "select", x.reply)
    BY <1>W, <2>2, AnswerGood
  <2>4. CASE x.reply = "none" /\ Fail(W, x.w, c)
    BY <1>W, <2>1, <2>4
  <2>5. CASE Replied(W, x.w, c, "select", x.reply)
    <3>0. PICK q : RepliedAs(W, x.w, c, k, s, r, "select", x.reply, q)
      BY <1>1, <2>5, RepliedIs
    <3>1. Served1(r, "select", q, x.reply) /\ Became(W, x.w, c, s, k, q) /\ x.w.ghost = W.ghost
      BY <3>0 DEF RepliedAs
    <3>2. r.multi = "no"
      <4> SUFFICES ASSUME r.multi # "no"
                   PROVE  FALSE
        OBVIOUS
      <4>1. x.reply = "queued"
        BY <1>1, <2>2, <3>1, ServeQueued DEF At
      <4>2. k.mode = {"MULTI"}
        BY <1>2, <2>5, <4>1 DEF Replied
      <4> QED
        BY <1>2, <4>2
    <3>r. ConnType(r)
      BY <1>1 DEF At
    <3>3. /\ ConnType(q) /\ q.unread = r.unread /\ q.open = r.open /\ q.up = r.up
          /\ q.multi = "no" /\ x.reply = "ok" /\ q.db = 1 /\ q.watch = r.watch
      BY <2>2, <3>1, <3>2, <3>r, SelectServed
    <3>4. q.open
      BY <1>1, <3>3 DEF At
    <3>5. y.ok /\ y.w = ReadyNow(x.w, c)
      BY <2>1, <3>3
    <3>6. Readied(W, y.w, c)
      BY <1>1, <1>2, <1>4, <3>1, <3>2, <3>3, <3>4, <3>5, MadeReady
    <3> QED
      BY <1>W, <3>5, <3>6
  <2> QED
    BY <2>3, <2>4, <2>5
<1> QED
  BY <1>3, <1>4

LEMMA EofIs ==
  ASSUME NEW W, NEW c, Held(W, c), NEW e \in redis_check_eof(W, c)
  PROVE  \/ W.conn[W.client[c].stream].up /\ e.ok /\ e.w = W
         \/ ~e.ok /\ e.w = Failed(W, c)
         \/ /\ ~Irreplaceable(W.client[c])
            /\ \E x \in redis_sock_connect(redis_sock_disconnect(W, c, TRUE, FALSE), c) :
                 \E a \in Reselected(x, c) : \/ a.ok /\ e = a
                                             \/ ~a.ok /\ ~e.ok /\ e.w = Failed(a.w, c)
<1>1. CASE W.conn[W.client[c].stream].up
  <2>1. e = [ok |-> TRUE, w |-> W]
    BY <1>1, Zenon DEF redis_check_eof, Held
  <2> QED
    BY <1>1, <2>1
<1>2. CASE ~W.conn[W.client[c].stream].up /\ Irreplaceable(W.client[c])
  <2>1. e = [ok |-> FALSE, w |-> Failed(W, c)]
    BY <1>2, Zenon DEF redis_check_eof, Held
  <2> QED
    BY <2>1
<1>3. CASE ~W.conn[W.client[c].stream].up /\ ~Irreplaceable(W.client[c])
  <2>1. PICK x \in redis_sock_connect(redis_sock_disconnect(W, c, TRUE, FALSE), c) :
             \E a \in Reselected(x, c) : e = IF a.ok THEN a ELSE [ok |-> FALSE, w |-> Failed(a.w, c)]
    <3>1. e \in {IF a.ok THEN a ELSE [ok |-> FALSE, w |-> Failed(a.w, c)] :
                 a \in UNION {Reselected(x, c) :
                          x \in redis_sock_connect(redis_sock_disconnect(W, c, TRUE, FALSE), c)}}
      BY <1>3, Zenon DEF redis_check_eof, Held
    <3> QED
      BY <3>1, Zenon
  <2>2. PICK a \in Reselected(x, c) : e = IF a.ok THEN a ELSE [ok |-> FALSE, w |-> Failed(a.w, c)]
    BY <2>1
  <2>3. (a.ok /\ e = a) \/ (~a.ok /\ ~e.ok /\ e.w = Failed(a.w, c))
    BY <2>2
  <2> QED
    BY <1>3, <2>3
<1> QED
  BY <1>1, <1>2, <1>3

LEMMA NotedLater ==
  ASSUME NEW g, NEW h, NEW i, NEW c
  PROVE  /\ SameNoted(g, h) => NotedSince(g, h, c)
         /\ SameNoted(g, h) /\ NotedSince(h, i, c) => NotedSince(g, i, c)
         /\ NotedSince(g, h, c) /\ SameNoted(h, i) => NotedSince(g, i, c)
         /\ SameNoted(g, h) /\ SameNoted(h, i) => SameNoted(g, i)
<1>1. SameNoted(g, h) => NotedSince(g, h, c)
  BY DEF SameNoted, NotedSince
<1>2. SameNoted(g, h) /\ NotedSince(h, i, c) => NotedSince(g, i, c)
  BY DEF SameNoted, NotedSince
<1>3. NotedSince(g, h, c) /\ SameNoted(h, i) => NotedSince(g, i, c)
  BY DEF SameNoted, NotedSince, Quiet
<1>4. SameNoted(g, h) /\ SameNoted(h, i) => SameNoted(g, i)
  BY DEF SameNoted
<1> QED
  BY <1>1, <1>2, <1>3, <1>4

\* The client has failed after something was noted.
LEMMA FailedFails ==
  ASSUME NEW W, NEW Y, NEW c \in Client, Good(Y, c), NotedSince(W.ghost, Y.ghost, c),
         NEW V, V = Failed(Y, c)
  PROVE  Fail(W, V, c) /\ ~Held(V, c)
<1>1. Gone(Y, V, c)
  BY FailedGood
<1>2. NotedSince(W.ghost, V.ghost, c)
  BY <1>1, NotedLater DEF Gone
<1> QED
  BY <1>1, <1>2 DEF Gone, Fail, Held

\* The client's connection is up: the one it had, or one in its place.
Passed(W, U, c) ==
  /\ Good(U, c) /\ Held(U, c) /\ U.client[c].status = "ready" /\ SameNoted(W.ghost, U.ghost)
  /\ c \notin U.ghost.mixed /\ U.conn[U.client[c].stream].up
  /\ \/ U = W
     \/ /\ W.client[c].mode # {"MULTI"} /\ U.client[c].mode \in {{}, W.client[c].mode}
        /\ U.client[c].pipeline_cmd = W.client[c].pipeline_cmd

\* A stream given up is replaced.
LEMMA Replaced ==
  ASSUME NEW W, NEW c \in Client, Good(W, c), Held(W, c), c \notin W.ghost.mixed,
         ~Irreplaceable(W.client[c]), NEW D, D = redis_sock_disconnect(W, c, TRUE, FALSE),
         NEW x \in redis_sock_connect(D, c), NEW a \in Reselected(x, c)
  PROVE  IF a.ok THEN Passed(W, a.w, c) ELSE Good(a.w, c) /\ NotedSince(W.ghost, a.w.ghost, c)
<1>1. PartsWell(W, D, c, FALSE)
  BY DisconnectGood
<1>2. WatchOK(W.ghost, c, W.client[c], W.conn[W.client[c].stream])
  BY DEF Good, ClientsOK, StreamOK
<1>3. ~W.client[c].watched /\ W.client[c].mode # {"MULTI"}
  BY <1>2 DEF WatchOK, Irreplaceable
<1>4. Wanting(D, c) /\ SameNoted(W.ghost, D.ghost) /\ D.client[c].mode = W.client[c].mode
      /\ D.client[c].pipeline_cmd = W.client[c].pipeline_cmd
  BY <1>1, <1>3 DEF PartsWell, Wanting, Held, Parted
<1>5. Connected(D, x.w, c, x.ok)
  BY <1>4, ConnectGood
<1>6. Good(x.w, c) /\ SameNoted(W.ghost, x.w.ghost)
  BY <1>4, <1>5, NotedLater DEF Connected
<1>7. CASE ~x.ok
  <2>1. a = x
    BY <1>7, ReselectedIs
  <2> QED
    BY <1>6, <1>7, <2>1, NotedLater
<1>8. CASE x.ok
  <2>1. IF a.ok THEN Readied(x.w, a.w, c) ELSE Fail(x.w, a.w, c)
    <3>1. Held(x.w, c) /\ x.w.client[c].status = "connected" /\ c \notin x.w.ghost.mixed
      BY <1>5, <1>6, <1>8 DEF Connected, SameNoted
    <3> QED
      BY <1>6, <1>8, <3>1, ReselectedGood
  <2>2. CASE ~a.ok
    BY <1>6, <2>1, <2>2, NotedLater DEF Fail
  <2>3. CASE a.ok
    <3>1. PICK k, s, r, k0, r0 :
            /\ At(x.w, c, k0, s, r0) /\ At(a.w, c, k, s, r) /\ Good(a.w, c) /\ a.w.ghost = x.w.ghost
            /\ k.status = "ready" /\ r.up = r0.up
            /\ k.persistent = k0.persistent /\ k.db = k0.db /\ k.mode = k0.mode
            /\ k.pipeline_cmd = k0.pipeline_cmd /\ k.watched = k0.watched
      BY <2>1, <2>3 DEF Readied
    <3>2. r0.up /\ k0.mode \in {{}, W.client[c].mode} /\ k0.pipeline_cmd = W.client[c].pipeline_cmd
      BY <1>4, <1>5, <1>8, <3>1 DEF Connected, At
    <3>3. Held(a.w, c) /\ a.w.client[c] = k /\ a.w.conn[a.w.client[c].stream] = r
      BY <3>1 DEF At, Held
    <3>4. c \notin a.w.ghost.mixed /\ SameNoted(W.ghost, a.w.ghost)
      BY <1>6, <3>1 DEF SameNoted
    <3>5. Passed(W, a.w, c)
      BY <1>3, <3>1, <3>2, <3>3, <3>4 DEF Passed
    <3> QED
      BY <2>3, <3>5
  <2> QED
    BY <2>2, <2>3
<1> QED
  BY <1>7, <1>8

LEMMA EofGood ==
  ASSUME NEW W, NEW c \in Client, Good(W, c), Held(W, c), c \notin W.ghost.mixed,
         W.client[c].status = "ready", NEW e \in redis_check_eof(W, c)
  PROVE  IF e.ok THEN Passed(W, e.w, c) ELSE Fail(W, e.w, c) /\ ~Held(e.w, c)
<1>1. CASE W.conn[W.client[c].stream].up /\ e.ok /\ e.w = W
  <2>1. SameNoted(W.ghost, W.ghost)
    BY SameForAll
  <2>2. Passed(W, W, c)
    BY <1>1, <2>1 DEF Passed
  <2> QED
    BY <1>1, <2>2
<1>2. CASE ~e.ok /\ e.w = Failed(W, c)
  <2>1. NotedSince(W.ghost, W.ghost, c)
    BY SameForAll, NotedLater
  <2> QED
    BY <1>2, <2>1, FailedFails
<1>3. CASE /\ ~Irreplaceable(W.client[c])
           /\ \E x \in redis_sock_connect(redis_sock_disconnect(W, c, TRUE, FALSE), c) :
                 \E a \in Reselected(x, c) : \/ a.ok /\ e = a
                                             \/ ~a.ok /\ ~e.ok /\ e.w = Failed(a.w, c)
  <2>D. PICK D : D = redis_sock_disconnect(W, c, TRUE, FALSE)
    OBVIOUS
  <2>1. PICK x \in redis_sock_connect(D, c) :
             \E a \in Reselected(x, c) : \/ a.ok /\ e = a
                                         \/ ~a.ok /\ ~e.ok /\ e.w = Failed(a.w, c)
    BY <1>3, <2>D
  <2>2. PICK a \in Reselected(x, c) : \/ a.ok /\ e = a
                                      \/ ~a.ok /\ ~e.ok /\ e.w = Failed(a.w, c)
    BY <2>1
  <2>3. IF a.ok THEN Passed(W, a.w, c) ELSE Good(a.w, c) /\ NotedSince(W.ghost, a.w.ghost, c)
    BY <1>3, <2>D, Replaced
  <2>4. CASE a.ok /\ e = a
    BY <2>3, <2>4
  <2>5. CASE ~a.ok /\ ~e.ok /\ e.w = Failed(a.w, c)
    BY <2>3, <2>5, FailedFails
  <2> QED
    BY <2>2, <2>4, <2>5
<1> QED
  BY <1>1, <1>2, <1>3, EofIs

\* A command is sent and answered, or it fails.
LEMMA RequestGood ==
  ASSUME NEW W, NEW c \in Client, Good(W, c), Held(W, c), c \notin W.ghost.mixed,
         W.client[c].status = "ready", NEW cmd \in Sent, NEW x \in Request(W, c, cmd)
  PROVE  \/ x.reply = "none" /\ Fail(W, x.w, c)
         \/ \E U : Passed(W, U, c) /\ Replied(U, x.w, c, cmd, x.reply)
<1>1. PICK e \in redis_check_eof(W, c) :
         x \in IF e.ok THEN Answer(e.w, c, cmd) ELSE {[reply |-> "none", w |-> e.w]}
  BY DEF Request
<1>2. IF e.ok THEN Passed(W, e.w, c) ELSE Fail(W, e.w, c)
  BY EofGood
<1>3. CASE ~e.ok
  <2>1. x = [reply |-> "none", w |-> e.w]
    BY <1>1, <1>3
  <2> QED
    BY <1>2, <1>3, <2>1
<1>4. CASE e.ok
  <2>U. PICK U : U = e.w
    OBVIOUS
  <2>1. x \in Answer(U, c, cmd) /\ Passed(W, U, c)
    BY <1>1, <1>2, <1>4, <2>U
  <2>2. \/ x.reply = "none" /\ Fail(U, x.w, c)
        \/ Replied(U, x.w, c, cmd, x.reply)
    BY <2>1, AnswerGood DEF Passed
  <2>3. Fail(U, x.w, c) => Fail(W, x.w, c)
    <3> SUFFICES ASSUME Fail(U, x.w, c) PROVE Fail(W, x.w, c)
      OBVIOUS
    <3>1. NotedSince(W.ghost, x.w.ghost, c)
      BY <2>1, NotedLater DEF Passed, Fail
    <3>2. W.client[c].mode = {"MULTI"} => U.client[c].mode = {"MULTI"}
      BY <2>1 DEF Passed
    <3> QED
      BY <3>1, <3>2 DEF Fail
  <2> QED
    BY <2>1, <2>2, <2>3
<1> QED
  BY <1>3, <1>4

LEMMA OpenIs ==
  ASSUME NEW W, NEW c, NEW a \in redis_sock_server_open(W, c)
  PROVE  /\ W.client[c].status = "disconnected" =>
              \E x \in redis_sock_connect(W, c) : a \in Reselected(x, c)
         /\ W.client[c].status = "connected" => a \in Reselected([ok |-> TRUE, w |-> W], c)
         /\ W.client[c].status = "ready" => a = [ok |-> TRUE, w |-> W]
         /\ W.client[c].status \notin {"disconnected", "connected", "ready"} =>
              a = [ok |-> FALSE, w |-> W]
<1>1. CASE W.client[c].status = "disconnected"
  <2>1. a \in UNION {Reselected(x, c) : x \in redis_sock_connect(W, c)}
    BY <1>1 DEF redis_sock_server_open
  <2> QED
    BY <1>1, <2>1
<1>2. CASE W.client[c].status = "connected"
  <2>1. a \in Reselected([ok |-> TRUE, w |-> W], c)
    BY <1>2 DEF redis_sock_server_open
  <2> QED
    BY <1>2, <2>1
<1>3. CASE W.client[c].status = "ready"
  <2>1. a \in {[ok |-> TRUE, w |-> W]}
    BY <1>3 DEF redis_sock_server_open
  <2> QED
    BY <1>3, <2>1
<1>4. CASE W.client[c].status \notin {"disconnected", "connected", "ready"}
  <2>1. a \in {[ok |-> FALSE, w |-> W]}
    BY <1>4 DEF redis_sock_server_open
  <2> QED
    BY <1>4, <2>1
<1> QED
  BY <1>1, <1>2, <1>3, <1>4

\* A program that has mixed up its replies is told that it failed.
LEMMA ToldHeld ==
  ASSUME NEW W, NEW c \in Client, Good(W, c), Held(W, c), c \in W.ghost.mixed,
         NEW V, V = Told(W, c)
  PROVE  Good(V, c) /\ Idle(V.client[c])
<1>1. PICK k0, s, r : At(W, c, k0, s, r)
  BY HeldAt
<1>k. PICK k : k = [k0 EXCEPT !.watched = FALSE, !.touched = FALSE]
  OBVIOUS
<1>2. /\ SockShape(k) /\ k.stream = k0.stream /\ k.status = k0.status /\ k.persistent = k0.persistent
      /\ k.db = k0.db /\ k.mode = k0.mode /\ k.watching = k0.watching
      /\ k.callbacks = k0.callbacks /\ k.pipeline_cmd = k0.pipeline_cmd
      /\ k.watched = FALSE /\ k.touched = FALSE
  BY <1>1, <1>k DEF At, SockType, SockShape, SockFields
<1>3. SockType(k) /\ k.stream = s
  BY <1>1, <1>2 DEF At, SockType, SockFlags, SockNotes
<1>4. Became(W, V, c, s, k, r) /\ V.ghost = W.ghost
  BY <1>1, <1>k DEF At, Became, Told, Shape, WorldFields
<1>5. NotesOK(W.ghost, c, k) /\ Explained(W.ghost, c, k)
  BY <1>1, <1>2 DEF At, NotesOK, Explained, Torn
<1>6. StreamOK(W.ghost, c, k, r)
  BY <1>1, <1>2 DEF At, StreamOK, DatabaseOK, CleanOK, QueueOK, WatchOK
<1>7. /\ ConnType(r) /\ r.open /\ GhostType(V.ghost) /\ V.ghost.drift = W.ghost.drift
      /\ OthersNoted(W.ghost, V.ghost, c)
  BY <1>1, <1>4, SameForAll DEF At
<1> QED
  BY <1>1, <1>2, <1>3, <1>4, <1>5, <1>6, <1>7, BecameGood

\* A client whose program may go on.
Open(W, c) == Good(W, c) /\ Held(W, c) /\ W.client[c].status = "ready" /\ c \notin W.ghost.mixed

LEMMA OpenGood ==
  ASSUME NEW W, NEW c \in Client, Good(W, c), Idle(W.client[c]), c \notin W.ghost.mixed,
         NEW a \in redis_sock_server_open(W, c)
  PROVE  IF a.ok THEN Open(a.w, c) ELSE Good(Told(a.w, c), c) /\ Idle(Told(a.w, c).client[c])
<1>0. SockType(W.client[c])
  BY DEF Good, ClientsOK
<1>1. ASSUME NEW x, Good(x.w, c), SameNoted(W.ghost, x.w.ghost), a \in Reselected(x, c),
             ~x.ok => ~Held(x.w, c) /\ x.w.client[c].mode = {},
             x.ok => Held(x.w, c) /\ x.w.client[c].status = "connected"
      PROVE  IF a.ok THEN Open(a.w, c) ELSE Good(Told(a.w, c), c) /\ Idle(Told(a.w, c).client[c])
  <2>1. CASE ~x.ok
    <3>1. a = x
      BY <1>1, <2>1, ReselectedIs
    <3> QED
      BY <1>1, <2>1, <3>1, ToldGood DEF Idle
  <2>2. CASE x.ok
    <3>0. c \notin x.w.ghost.mixed
      BY <1>1 DEF SameNoted
    <3>1. IF a.ok THEN Readied(x.w, a.w, c) ELSE Fail(x.w, a.w, c)
      BY <1>1, <2>2, <3>0, ReselectedGood
    <3>2. CASE a.ok
      <4>1. PICK k, s, r : At(a.w, c, k, s, r) /\ Good(a.w, c) /\ a.w.ghost = x.w.ghost /\ k.status = "ready"
        BY <3>1, <3>2 DEF Readied
      <4>2. Open(a.w, c)
        BY <3>0, <4>1 DEF Open, At, Held
      <4> QED
        BY <3>2, <4>2
    <3>3. CASE ~a.ok
      <4>1. Fail(x.w, a.w, c)
        BY <3>1, <3>3
      <4>2. CASE ~Held(a.w, c)
        BY <3>3, <4>1, <4>2, ToldGood DEF Fail, Idle, Held
      <4>3. CASE Held(a.w, c)
        BY <3>3, <4>1, <4>3, ToldHeld DEF Fail
      <4> QED
        BY <4>2, <4>3
    <3> QED
      BY <3>2, <3>3
  <2> QED
    BY <2>1, <2>2
<1>2. CASE W.client[c].status = "disconnected"
  <2>1. PICK x \in redis_sock_connect(W, c) : a \in Reselected(x, c)
    BY <1>2, OpenIs
  <2>2. ~Held(W, c) /\ ~W.client[c].watched /\ W.client[c].mode = {}
    BY <1>0, <1>2 DEF Idle, SockType, SockFlags, Held
  <2>3. Connected(W, x.w, c, x.ok)
    BY <2>2, ConnectGood DEF Wanting
  <2> QED
    BY <1>1, <2>1, <2>2, <2>3 DEF Connected
<1>3. CASE W.client[c].status = "connected"
  <2>x. PICK x : x = [ok |-> TRUE, w |-> W]
    OBVIOUS
  <2>1. a \in Reselected(x, c)
    BY <1>3, <2>x, OpenIs
  <2>2. x.ok /\ x.w = W
    BY <2>x
  <2>3. Held(W, c) /\ SameNoted(W.ghost, W.ghost)
    BY <1>0, <1>3, SameForAll DEF SockType, SockFlags, Held
  <2>4. /\ Good(x.w, c) /\ SameNoted(W.ghost, x.w.ghost) /\ x.ok
        /\ Held(x.w, c) /\ x.w.client[c].status = "connected"
    BY <1>3, <2>2, <2>3, Zenon
  <2> QED
    BY <1>1, <2>1, <2>4
<1>4. CASE W.client[c].status = "ready"
  <2>1. a = [ok |-> TRUE, w |-> W]
    BY <1>4, OpenIs
  <2>2. Held(W, c)
    BY <1>0, <1>4 DEF SockType, SockFlags, Held
  <2> QED
    BY <1>4, <2>1, <2>2 DEF Open
<1>5. CASE W.client[c].status \notin {"disconnected", "connected", "ready"}
  <2>1. a = [ok |-> FALSE, w |-> W]
    BY <1>5, OpenIs
  <2>2. ~Held(W, c)
    BY <1>0, <1>5 DEF SockType, SockFlags, Held
  <2>V. PICK V : V = Told(W, c)
    OBVIOUS
  <2>3. W.client[c].mode = {}
    BY <2>2 DEF Idle, Held
  <2>4. Good(V, c) /\ ~V.client[c].watched /\ V.client[c].mode = W.client[c].mode
    BY <2>V, <2>2, ToldGood
  <2>5. Idle(V.client[c])
    BY <2>3, <2>4 DEF Idle
  <2>6. Good(Told(a.w, c), c) /\ Idle(Told(a.w, c).client[c]) /\ ~a.ok
    BY <2>1, <2>4, <2>5, <2>V
  <2> QED
    BY <2>6
<1> QED
  BY <1>2, <1>3, <1>4, <1>5

---------------------------------------------------------------------------
(* The methods: commands, MULTI, PIPELINE, close().                        *)

Well(V, c) == Good(V, c) /\ Idle(V.client[c])

\* The client and the ghost change.
Altered(X, V, c, k, h) == V = [X EXCEPT !.client[c] = k, !.ghost = h]

GhostShape(h) == h = [f \in GhostFields |-> h[f]]

LEMMA AlteredIs ==
  ASSUME NEW W, NEW c \in Client, NEW k0, NEW s, NEW r0, At(W, c, k0, s, r0), NEW X, NEW k1, NEW r,
         Became(W, X, c, s, k1, r), NEW k, NEW h, GhostShape(h), NEW V, Altered(X, V, c, k, h)
  PROVE  Became(W, V, c, s, k, r) /\ V.ghost = h /\ V.client[c] = k
<1>0. /\ Shape(X) /\ X.client = [W.client EXCEPT ![c] = k1] /\ X.conn = [W.conn EXCEPT ![s] = r]
      /\ X.pool = W.pool /\ X.nb_active = W.nb_active /\ X.faults = W.faults
  BY DEF Became
<1>1. /\ Shape(V) /\ V.client = [X.client EXCEPT ![c] = k] /\ V.conn = X.conn
      /\ V.pool = X.pool /\ V.nb_active = X.nb_active /\ V.faults = X.faults /\ V.ghost = h
  BY <1>0 DEF Altered, Shape, WorldFields, GhostShape
<1>2. V.client = [W.client EXCEPT ![c] = k]
  BY <1>0, <1>1 DEF At, Shape
<1>3. V.client[c] = k
  BY <1>0, <1>1 DEF Shape
<1> QED
  BY <1>0, <1>1, <1>2, <1>3 DEF Became

\* The stream has not changed.
LEMMA BecameSelf ==
  ASSUME NEW W, NEW c, NEW k, NEW s, NEW r, At(W, c, k, s, r)
  PROVE  Became(W, W, c, s, k, r)
  BY DEF Became, At, Shape

\* The client alone changes, and holds its stream.
LEMMA AlteredGood ==
  ASSUME NEW W, NEW c \in Client, Good(W, c), NEW k0, NEW s, NEW r, At(W, c, k0, s, r),
         NEW k, SockType(k), k.stream = s, k.persistent = k0.persistent,
         NotesOK(W.ghost, c, k), StreamOK(W.ghost, c, k, r),
         NEW V, Altered(W, V, c, k, W.ghost)
  PROVE  Well(V, c)
<1>1. GhostShape(W.ghost)
  BY DEF At, Shape, GhostShape
<1>2. Became(W, V, c, s, k, r) /\ V.ghost = W.ghost
  BY <1>1, BecameSelf, AlteredIs
<1>3. Explained(W.ghost, c, k) /\ GhostType(W.ghost) /\ ConnType(r) /\ r.open
  BY DEF At, Explained
<1>4. OthersNoted(W.ghost, V.ghost, c)
  BY <1>2, SameForAll
<1> QED
  BY <1>2, <1>3, <1>4, BecameGood DEF Well

LEMMA OpenEndAppend ==
  ASSUME NEW S, NEW cmds \in Seq(S), NEW x
  PROVE  /\ x \notin {"MULTI", "EXEC"} /\ OpenEnd(Append(cmds, x)) => OpenEnd(cmds)
         /\ x = "EXEC" => ~OpenEnd(Append(cmds, x))
<1>1. /\ Len(Append(cmds, x)) = Len(cmds) + 1 /\ Len(cmds) \in Nat
      /\ \A i \in 1..Len(cmds) : Append(cmds, x)[i] = cmds[i]
      /\ Append(cmds, x)[Len(cmds) + 1] = x
  OBVIOUS
<1>2. ASSUME NEW j \in 1..(Len(cmds) + 1), Append(cmds, x)[j] = "MULTI",
             \A l \in j..(Len(cmds) + 1) : Append(cmds, x)[l] # "EXEC"
      PROVE  x # "EXEC" /\ (x # "MULTI" => OpenEnd(cmds))
  <2>1. Len(cmds) + 1 \in j..(Len(cmds) + 1)
    BY <1>1
  <2>2. x # "EXEC"
    BY <1>1, <1>2, <2>1
  <2>3. ASSUME x # "MULTI" PROVE OpenEnd(cmds)
    <3>1. j \in 1..Len(cmds)
      BY <1>1, <1>2, <2>3
    <3>2. \A l \in j..Len(cmds) : cmds[l] # "EXEC"
      BY <1>1, <1>2, <3>1
    <3> QED
      BY <1>1, <1>2, <3>1, <3>2 DEF OpenEnd
  <2> QED
    BY <2>2, <2>3
<1> QED
  BY <1>1, <1>2 DEF OpenEnd

\* The client whose commands and callbacks have grown by one.
Queued(k, cmd, callback, mode) ==
  [k EXCEPT !.pipeline_cmd = Append(@, cmd), !.callbacks = Append(@, callback), !.mode = mode]

LEMMA EnqueueGood ==
  ASSUME NEW W, NEW c \in Client, Good(W, c), NEW k0, NEW s, NEW r, At(W, c, k0, s, r),
         k0.status = "ready", "PIPELINE" \in k0.mode, NEW cmd \in Command \cup {"MULTI", "EXEC"},
         NEW callback \in Command \cup {"null"}, NEW mode \in SUBSET {"MULTI", "PIPELINE"},
         "PIPELINE" \in mode,
         cmd \in Command => mode = k0.mode, cmd = "MULTI" => "MULTI" \in mode,
         NEW k, k = Queued(k0, cmd, callback, mode), NEW V, Altered(W, V, c, k, W.ghost)
  PROVE  Well(V, c)
<1>1. /\ SockShape(k) /\ k.stream = k0.stream /\ k.status = k0.status /\ k.persistent = k0.persistent
      /\ k.db = k0.db /\ k.mode = mode /\ k.watching = k0.watching
      /\ k.callbacks = Append(k0.callbacks, callback) /\ k.pipeline_cmd = Append(k0.pipeline_cmd, cmd)
      /\ k.watched = k0.watched /\ k.touched = k0.touched
  BY DEF At, SockType, SockShape, SockFields, Queued
<1>2. SockFlags(k0) /\ SockNotes(k0) /\ k0.stream = s
  BY DEF At, SockType
<1>3. SockFlags(k) /\ k.stream = s
  BY <1>1, <1>2 DEF SockFlags
<1>4. SockNotes(k)
  BY <1>1, <1>2 DEF SockNotes
<1>5. SockType(k)
  BY <1>1, <1>3, <1>4 DEF SockType
<1>6. NotesOK(W.ghost, c, k)
  <2>0. NotesOK(W.ghost, c, k0)
    BY DEF At
  <2>1. ~Torn(k0) => ~Torn(k)
    <3>1. Len(k.callbacks) = Len(k0.callbacks) + 1 /\ Len(k.pipeline_cmd) = Len(k0.pipeline_cmd) + 1
      BY <1>1, <1>2 DEF SockNotes
    <3>2. "PIPELINE" \in k.mode
      BY <1>1
    <3> QED
      BY <3>1, <3>2 DEF Torn
  <2>2. k0.pipeline_cmd \in Seq(Command \cup {"MULTI", "EXEC"})
    BY <1>2 DEF SockNotes
  <2>3. ("PIPELINE" \in k0.mode /\ OpenEnd(k0.pipeline_cmd) => "MULTI" \in k0.mode) =>
           (OpenEnd(k.pipeline_cmd) => "MULTI" \in k.mode)
    <3>1. CASE cmd = "EXEC"
      BY <1>1, <2>2, <3>1, OpenEndAppend
    <3>2. CASE cmd = "MULTI"
      BY <1>1, <3>2
    <3>3. CASE cmd \in Command
      <4>1. cmd \notin {"MULTI", "EXEC"}
        BY <3>3 DEF Command
      <4>2. OpenEnd(k.pipeline_cmd) => OpenEnd(k0.pipeline_cmd)
        BY <1>1, <2>2, <4>1, OpenEndAppend
      <4> QED
        BY <1>1, <3>3, <4>2
    <3> QED
      BY <3>1, <3>2, <3>3
  <2> QED
    BY <2>0, <2>1, <2>3 DEF NotesOK
<1>7. StreamOK(W.ghost, c, k, r)
  <2>1. StreamOK(W.ghost, c, k0, r)
    BY DEF At
  <2>2. k.mode # {"MULTI"} /\ k0.mode # {"MULTI"}
    BY <1>1
  <2> QED
    BY <1>1, <2>1, <2>2 DEF StreamOK, DatabaseOK, CleanOK, QueueOK, WatchOK
<1> QED
  BY <1>1, <1>3, <1>5, <1>6, <1>7, AlteredGood

LEMMA AloneIsAltered ==
  ASSUME NEW W, NEW c, NEW k0, NEW s, NEW r, At(W, c, k0, s, r), NEW k, NEW V, Alone(W, V, c, k)
  PROVE  Altered(W, V, c, k, W.ghost)
<1>1. W = [f \in WorldFields |-> W[f]]
  BY DEF At, Shape
<1> QED
  BY <1>1 DEF Alone, Altered, WorldFields

LEMMA EnqueueAlone ==
  ASSUME NEW W, Shape(W), NEW c \in Client, NEW cmd, NEW callback, NEW k0, k0 = W.client[c], SockShape(k0)
  PROVE  /\ Alone(W, Enqueue(W, c, cmd, callback), c, Queued(k0, cmd, callback, k0.mode))
         /\ \A mode : Alone(W, [Enqueue(W, c, cmd, callback) EXCEPT !.client[c].mode = mode], c,
                           Queued(k0, cmd, callback, mode))
<1>k. PICK k : k = Buffered(k0, cmd, callback)
  OBVIOUS
<1>E. PICK E : E = Enqueue(W, c, cmd, callback)
  OBVIOUS
<1>1. E = [W EXCEPT !.client[c] = k]
  BY <1>k, <1>E DEF Enqueue, Shape, WorldFields
<1>2. Shape(E) /\ E.client = [W.client EXCEPT ![c] = k] /\ E.client[c] = k
  BY <1>1 DEF Shape, WorldFields
<1>3. /\ SockShape(k) /\ k.mode = k0.mode
      /\ \A mode : Queued(k0, cmd, callback, mode) = [k EXCEPT !.mode = mode]
  BY <1>k DEF SockShape, SockFields, Queued, Buffered, REDIS_SAVE_CALLBACK
<1>4. Queued(k0, cmd, callback, k0.mode) = k
  BY <1>3 DEF SockShape, SockFields
<1>5. ASSUME NEW mode, NEW V, V = [E EXCEPT !.client[c].mode = mode], NEW j, j = [k EXCEPT !.mode = mode]
      PROVE  Alone(W, V, c, j)
  <2>1. V = [E EXCEPT !.client[c] = j]
    BY <1>2, <1>5
  <2>2. V = [W EXCEPT !.client[c] = j]
    BY <1>1, <2>1 DEF Shape, WorldFields
  <2> QED
    BY <2>2 DEF Alone
<1>6. Alone(W, E, c, Queued(k0, cmd, callback, k0.mode))
  BY <1>1, <1>4 DEF Alone
<1>7. \A mode : Alone(W, [E EXCEPT !.client[c].mode = mode], c, Queued(k0, cmd, callback, mode))
  BY <1>3, <1>5, Zenon
<1> QED
  BY <1>6, <1>7, <1>E, Zenon

\* A command of a pipeline, and the MULTI and EXEC of one.
LEMMA EnqueueCommand ==
  ASSUME NEW W, NEW c \in Client, Open(W, c), "PIPELINE" \in W.client[c].mode,
         NEW cmd \in Command, NEW V, V = Enqueue(W, c, cmd, cmd)
  PROVE  Well(V, c)
<1>1. PICK k0, s, r : At(W, c, k0, s, r)
  BY HeldAt DEF Open
<1>k. PICK k : k = Queued(k0, cmd, cmd, k0.mode)
  OBVIOUS
<1>a. Alone(W, V, c, k)
  <2>1. Shape(W) /\ W.client[c] = k0 /\ SockShape(k0)
    BY <1>1 DEF At, SockType
  <2> QED
    BY <2>1, <1>k, EnqueueAlone
<1>2. Altered(W, V, c, k, W.ghost)
  BY <1>1, <1>a, AloneIsAltered
<1>3. k0.status = "ready" /\ "PIPELINE" \in k0.mode /\ Good(W, c) /\ k0.mode \in SUBSET {"MULTI", "PIPELINE"}
  BY <1>1 DEF At, Open, SockType, SockFlags
<1>4. cmd # "MULTI"
  BY DEF Command
<1> QED
  BY <1>1, <1>2, <1>3, <1>4, <1>k, EnqueueGood

LEMMA EnqueueMulti ==
  ASSUME NEW W, NEW c \in Client, Open(W, c), "PIPELINE" \in W.client[c].mode,
         NEW V, V = [Enqueue(W, c, "MULTI", "null") EXCEPT !.client[c].mode = @ \cup {"MULTI"}]
  PROVE  Well(V, c)
<1>1. PICK k0, s, r : At(W, c, k0, s, r)
  BY HeldAt DEF Open
<1>m. PICK mode : mode = k0.mode \cup {"MULTI"}
  OBVIOUS
<1>k. PICK k : k = Queued(k0, "MULTI", "null", mode)
  OBVIOUS
<1>a. Alone(W, V, c, k)
  <2>1. Shape(W) /\ W.client[c] = k0 /\ SockShape(k0)
    BY <1>1 DEF At, SockType
  <2>2. V = [Enqueue(W, c, "MULTI", "null") EXCEPT !.client[c].mode = mode]
    <3>E. PICK E : E = Enqueue(W, c, "MULTI", "null")
      OBVIOUS
    <3>q. PICK q : q = Queued(k0, "MULTI", "null", k0.mode)
      OBVIOUS
    <3>1. Alone(W, E, c, q)
      BY <2>1, <3>E, <3>q, EnqueueAlone
    <3>2. E.client[c] = q /\ q.mode = k0.mode
      BY <2>1, <3>1, <3>q DEF Alone, Shape, WorldFields, Queued, SockShape, SockFields
    <3>3. V = [E EXCEPT !.client[c].mode = @ \cup {"MULTI"}]
      BY <3>E
    <3>4. V = [E EXCEPT !.client[c].mode = mode]
      BY <3>2, <3>3, <1>m
    <3> QED
      BY <3>4, <3>E
  <2>3. Alone(W, [Enqueue(W, c, "MULTI", "null") EXCEPT !.client[c].mode = mode], c,
              Queued(k0, "MULTI", "null", mode))
    BY <2>1, EnqueueAlone
  <2> QED
    BY <2>2, <2>3, <1>k, Zenon
<1>2. Altered(W, V, c, k, W.ghost)
  BY <1>1, <1>a, AloneIsAltered
<1>3. k0.status = "ready" /\ "PIPELINE" \in k0.mode /\ Good(W, c) /\ k0.mode \in SUBSET {"MULTI", "PIPELINE"}
  BY <1>1 DEF At, Open, SockType, SockFlags
<1>4. "MULTI" \notin Command /\ mode \in SUBSET {"MULTI", "PIPELINE"} /\ "PIPELINE" \in mode /\ "MULTI" \in mode
  BY <1>3, <1>m DEF Command
<1> QED
  BY <1>1, <1>2, <1>3, <1>4, <1>k, EnqueueGood

LEMMA EnqueueExec ==
  ASSUME NEW W, NEW c \in Client, Open(W, c), "PIPELINE" \in W.client[c].mode,
         NEW V, V = [Enqueue(W, c, "EXEC", "null") EXCEPT !.client[c].mode = {"PIPELINE"}]
  PROVE  Well(V, c)
<1>1. PICK k0, s, r : At(W, c, k0, s, r)
  BY HeldAt DEF Open
<1>k. PICK k : k = Queued(k0, "EXEC", "null", {"PIPELINE"})
  OBVIOUS
<1>a. Alone(W, V, c, k)
  <2>1. Shape(W) /\ W.client[c] = k0 /\ SockShape(k0)
    BY <1>1 DEF At, SockType
  <2> QED
    BY <2>1, <1>k, EnqueueAlone
<1>2. Altered(W, V, c, k, W.ghost)
  BY <1>1, <1>a, AloneIsAltered
<1>3. k0.status = "ready" /\ "PIPELINE" \in k0.mode /\ Good(W, c)
  BY <1>1 DEF At, Open, SockType, SockFlags
<1>4. "EXEC" \notin Command /\ "EXEC" # "MULTI"
  BY DEF Command
<1> QED
  BY <1>1, <1>2, <1>3, <1>4, <1>k, EnqueueGood

LEMMA EffectIs ==
  ASSUME NEW k, SockType(k), NEW cmd, NEW j, j = Effect(k, cmd)
  PROVE  /\ SockType(j) /\ j.status = k.status /\ j.stream = k.stream /\ j.persistent = k.persistent
         /\ j.mode = k.mode /\ j.callbacks = k.callbacks /\ j.pipeline_cmd = k.pipeline_cmd
         /\ j.db = IF cmd = "select" THEN 1 ELSE k.db
         /\ cmd = "watch" => j.watching /\ j.watched /\ j.touched = k.touched
         /\ cmd = "unwatch" => ~j.watching /\ ~j.watched /\ ~j.touched
         /\ cmd \notin {"watch", "unwatch"} =>
              j.watching = k.watching /\ j.watched = k.watched /\ j.touched = k.touched
<1>0. SockShape(k) /\ SockFlags(k) /\ SockNotes(k)
  BY DEF SockType
<1>1. CASE cmd = "select"
  <2>1. j = [k EXCEPT !.db = 1]
    BY <1>1 DEF Effect
  <2>2. /\ SockShape(j) /\ j.status = k.status /\ j.stream = k.stream /\ j.persistent = k.persistent
        /\ j.mode = k.mode /\ j.callbacks = k.callbacks /\ j.pipeline_cmd = k.pipeline_cmd
        /\ j.db = 1 /\ j.watching = k.watching /\ j.watched = k.watched /\ j.touched = k.touched
    BY <1>0, <2>1 DEF SockShape, SockFields
  <2>3. SockType(j)
    BY <1>0, <2>2 DEF SockType, SockFlags, SockNotes
  <2> QED
    BY <1>1, <2>2, <2>3
<1>2. CASE cmd = "watch"
  <2>1. j = [k EXCEPT !.watching = TRUE, !.watched = TRUE]
    BY <1>2 DEF Effect
  <2>2. /\ SockShape(j) /\ j.status = k.status /\ j.stream = k.stream /\ j.persistent = k.persistent
        /\ j.mode = k.mode /\ j.callbacks = k.callbacks /\ j.pipeline_cmd = k.pipeline_cmd
        /\ j.db = k.db /\ j.watching = TRUE /\ j.watched = TRUE /\ j.touched = k.touched
    BY <1>0, <2>1 DEF SockShape, SockFields
  <2>3. SockType(j)
    BY <1>0, <2>2 DEF SockType, SockFlags, SockNotes
  <2> QED
    BY <1>2, <2>2, <2>3
<1>3. CASE cmd = "unwatch"
  <2>1. j = [k EXCEPT !.watching = FALSE, !.watched = FALSE, !.touched = FALSE]
    BY <1>3 DEF Effect
  <2>2. /\ SockShape(j) /\ j.status = k.status /\ j.stream = k.stream /\ j.persistent = k.persistent
        /\ j.mode = k.mode /\ j.callbacks = k.callbacks /\ j.pipeline_cmd = k.pipeline_cmd
        /\ j.db = k.db /\ j.watching = FALSE /\ j.watched = FALSE /\ j.touched = FALSE
    BY <1>0, <2>1 DEF SockShape, SockFields
  <2>3. SockType(j)
    BY <1>0, <2>2 DEF SockType, SockFlags, SockNotes
  <2> QED
    BY <1>3, <2>2, <2>3
<1>4. CASE cmd \notin {"select", "watch", "unwatch"}
  <2>1. j = k
    BY <1>4 DEF Effect
  <2> QED
    BY <1>4, <2>1
<1> QED
  BY <1>1, <1>2, <1>3, <1>4

LEMMA AloneToo ==
  ASSUME NEW W, Shape(W), NEW c, NEW k, NEW V, Alone(W, V, c, k)
  PROVE  Altered(W, V, c, k, W.ghost)
<1>1. W = [f \in WorldFields |-> W[f]]
  BY DEF Shape
<1> QED
  BY <1>1 DEF Alone, Altered, WorldFields

\* The server has answered, and the client took note of it.
LEMMA StepGood ==
  ASSUME NEW U, NEW c \in Client, Open(U, c), NEW k0, NEW s, NEW r, At(U, c, k0, s, r),
         NEW X, NEW q, Became(U, X, c, s, k0, q), X.ghost = U.ghost,
         NEW k, SockType(k), k.stream = s, k.persistent = k0.persistent, ConnType(q), q.open,
         NotesOK(U.ghost, c, k), StreamOK(U.ghost, c, k, q),
         NEW V, Alone(X, V, c, k)
  PROVE  Well(V, c)
<1>1. Shape(X) /\ Good(U, c)
  BY DEF Became, Open
<1>2. Altered(X, V, c, k, U.ghost)
  BY <1>1, AloneToo
<1>3. GhostShape(U.ghost)
  BY DEF At, Shape, GhostShape
<1>4. Became(U, V, c, s, k, q) /\ V.ghost = U.ghost
  BY <1>2, <1>3, AlteredIs
<1>5. Explained(U.ghost, c, k) /\ GhostType(U.ghost)
  BY DEF At, Explained
<1>6. OthersNoted(U.ghost, V.ghost, c)
  BY <1>4, SameForAll
<1> QED
  BY <1>1, <1>4, <1>5, <1>6, BecameGood DEF Well

LEMMA SentIs ==
  ASSUME NEW W, NEW c, NEW cmd, "PIPELINE" \notin W.client[c].mode, NEW V \in CommandSent(W, c, cmd)
  PROVE  \E x \in Request(W, c, cmd) :
            /\ x.reply = "queued" => V = [x.w EXCEPT !.client[c].callbacks = Append(@, cmd)]
            /\ x.reply = "ok" => V = [x.w EXCEPT !.client[c] = Effect(@, cmd)]
            /\ x.reply \notin {"queued", "ok"} => V = x.w
<1>1. PICK x \in Request(W, c, cmd) :
        V = CASE redis_response_enqueued(x.reply) -> [x.w EXCEPT !.client[c] = REDIS_SAVE_CALLBACK(@, cmd)]
            [] x.reply = "ok" -> [x.w EXCEPT !.client[c] = Effect(@, cmd)]
            [] OTHER -> x.w
  BY Zenon DEF CommandSent
<1>2. x.reply = "queued" => V = [x.w EXCEPT !.client[c].callbacks = Append(@, cmd)]
  <2> SUFFICES ASSUME x.reply = "queued"
               PROVE  V = [x.w EXCEPT !.client[c].callbacks = Append(@, cmd)]
    OBVIOUS
  <2>1. redis_response_enqueued(x.reply) /\ x.reply # "ok"
    BY DEF redis_response_enqueued
  <2> QED
    BY <1>1, <2>1, Zenon DEF REDIS_SAVE_CALLBACK
<1>3. x.reply = "ok" => V = [x.w EXCEPT !.client[c] = Effect(@, cmd)]
  <2> SUFFICES ASSUME x.reply = "ok"
               PROVE  V = [x.w EXCEPT !.client[c] = Effect(@, cmd)]
    OBVIOUS
  <2>1. ~redis_response_enqueued(x.reply)
    BY DEF redis_response_enqueued
  <2> QED
    BY <1>1, <2>1, Zenon
<1>4. x.reply \notin {"queued", "ok"} => V = x.w
  <2> SUFFICES ASSUME x.reply \notin {"queued", "ok"}
               PROVE  V = x.w
    OBVIOUS
  <2>1. ~redis_response_enqueued(x.reply) /\ x.reply # "ok"
    BY DEF redis_response_enqueued
  <2> QED
    BY <1>1, <2>1, Zenon
<1> QED
  BY <1>2, <1>3, <1>4, Zenon

\* What a command's answer leaves true of the stream, by the notes taken.
LEMMA PlainOK ==
  ASSUME NEW g, NEW c, NEW k, NEW r, SockType(k), ConnType(r), StreamOK(g, c, k, r), NotesOK(g, c, k),
         c \notin g.mixed, NEW cmd \in Command, r.multi = "no", NEW q, NEW reply,
         Served1(r, cmd, q, reply), NEW j, j = IF reply = "ok" THEN Effect(k, cmd) ELSE k
  PROVE  StreamOK(g, c, j, q) /\ NotesOK(g, c, j) /\ SockType(j) /\ j.stream = k.stream
         /\ j.persistent = k.persistent /\ ConnType(q) /\ q.open = r.open /\ q.multi = "no"
         /\ j.mode = k.mode /\ q.up = r.up /\ q.unread = r.unread /\ j.status = k.status
<1>1. /\ ConnType(q) /\ q.unread = r.unread /\ q.open = r.open /\ q.up = r.up
      /\ q.multi = "no" /\ reply = IF cmd = "bad" THEN "err" ELSE "ok"
      /\ q.db = IF cmd = "select" THEN 1 ELSE r.db
      /\ cmd = "watch" => q.watch = IF r.watch = "no" THEN "clean" ELSE r.watch
      /\ cmd = "unwatch" => q.watch = "no"
      /\ cmd \notin {"watch", "unwatch"} => q.watch = r.watch
  BY ServePlain
<1>2. reply = "ok" <=> cmd # "bad"
  BY <1>1
<1>3. /\ SockType(j) /\ j.status = k.status /\ j.stream = k.stream /\ j.persistent = k.persistent
      /\ j.mode = k.mode /\ j.callbacks = k.callbacks /\ j.pipeline_cmd = k.pipeline_cmd
      /\ j.db = (IF cmd = "select" THEN 1 ELSE k.db)
      /\ cmd = "watch" => j.watching /\ j.watched /\ j.touched = k.touched
      /\ cmd = "unwatch" => ~j.watching /\ ~j.watched /\ ~j.touched
      /\ cmd \notin {"watch", "unwatch"} =>
              j.watching = k.watching /\ j.watched = k.watched /\ j.touched = k.touched
  <2>1. CASE reply = "ok"
    <3>1. j = Effect(k, cmd)
      BY <2>1
    <3> QED
      BY <3>1, EffectIs
  <2>2. CASE reply # "ok"
    <3>1. j = k /\ cmd = "bad"
      BY <1>2, <2>2
    <3> QED
      BY <3>1
  <2> QED
    BY <2>1, <2>2
<1>4. NotesOK(g, c, j)
  BY <1>3 DEF NotesOK, Torn
<1>5. DatabaseOK(g, c, j, q)
  BY <1>1, <1>3 DEF StreamOK, DatabaseOK
<1>6. CleanOK(g, c, j, q)
  BY <1>1, <1>3 DEF StreamOK, CleanOK
<1>7. QueueOK(g, c, j, q)
  BY <1>1 DEF QueueOK
<1>8. WatchOK(g, c, j, q)
  <2>1. CASE cmd = "watch"
    <3>1. j.watching /\ j.watched /\ j.touched = k.touched /\ q.watch # "no" /\ (r.watch = "dirty" => q.watch = "dirty")
      BY <1>1, <1>3, <2>1 DEF ConnType, ConnFlags
    <3> QED
      BY <1>1, <3>1 DEF StreamOK, WatchOK
  <2>2. CASE cmd = "unwatch"
    BY <1>1, <1>3, <2>2 DEF WatchOK
  <2>3. CASE cmd \notin {"watch", "unwatch"}
    BY <1>1, <1>3, <2>3 DEF StreamOK, WatchOK
  <2> QED
    BY <2>1, <2>2, <2>3
<1> QED
  BY <1>1, <1>3, <1>4, <1>5, <1>6, <1>7, <1>8 DEF StreamOK

LEMMA BlockOK ==
  ASSUME NEW g, NEW c, NEW k, NEW r, SockType(k), ConnType(r), StreamOK(g, c, k, r), NotesOK(g, c, k),
         c \notin g.mixed, NEW cmd \in Command, r.multi # "no", NEW q, NEW reply,
         Served1(r, cmd, q, reply), reply = "queued" => k.mode = {"MULTI"},
         NEW j, j = IF reply = "queued" THEN [k EXCEPT !.callbacks = Append(@, cmd)] ELSE k
  PROVE  StreamOK(g, c, j, q) /\ NotesOK(g, c, j) /\ SockType(j) /\ j.stream = k.stream
         /\ j.persistent = k.persistent /\ ConnType(q) /\ q.open = r.open /\ reply \in {"queued", "err"}
<1>1. /\ ConnType(q) /\ q.unread = r.unread /\ q.open = r.open /\ q.up = r.up
      /\ q.db = r.db /\ q.watch = r.watch /\ q.multi # "no"
      /\ \/ reply = "err" /\ q.multi = "aborted"
         \/ reply = "queued" /\ q.multi = r.multi /\ q.queue = Append(r.queue, cmd)
  BY ServeQueued
<1>2. SockShape(k) /\ SockFlags(k) /\ SockNotes(k)
  BY DEF SockType
<1>3. CASE reply = "err" /\ q.multi = "aborted"
  <2>1. j = k
    BY <1>3
  <2>2. StreamOK(g, c, k, q)
    BY <1>1, <1>3 DEF StreamOK, DatabaseOK, CleanOK, QueueOK, WatchOK
  <2> QED
    BY <1>1, <1>3, <2>1, <2>2
<1>4. CASE reply = "queued" /\ q.multi = r.multi /\ q.queue = Append(r.queue, cmd)
  <2>1. j = [k EXCEPT !.callbacks = Append(@, cmd)] /\ k.mode = {"MULTI"}
    BY <1>4
  <2>2. /\ SockShape(j) /\ j.status = k.status /\ j.stream = k.stream /\ j.persistent = k.persistent
        /\ j.mode = k.mode /\ j.callbacks = Append(k.callbacks, cmd) /\ j.pipeline_cmd = k.pipeline_cmd
        /\ j.db = k.db /\ j.watching = k.watching /\ j.watched = k.watched /\ j.touched = k.touched
    BY <1>2, <2>1 DEF SockShape, SockFields
  <2>3. SockNotes(j)
    BY <1>2, <2>2 DEF SockNotes
  <2>4. SockType(j)
    BY <1>2, <2>2, <2>3 DEF SockType, SockFlags
  <2>5. NotesOK(g, c, j)
    BY <2>1, <2>2 DEF NotesOK, Torn
  <2>6. StreamOK(g, c, j, q)
    BY <1>1, <1>4, <2>1, <2>2 DEF StreamOK, DatabaseOK, CleanOK, QueueOK, WatchOK
  <2> QED
    BY <1>1, <1>4, <2>2, <2>4, <2>5, <2>6
<1> QED
  BY <1>1, <1>3, <1>4

\* The worlds of a request that was answered.
AnswerAt(U, X, c, k, s, r, cmd, reply, q) ==
  /\ Open(U, c) /\ At(U, c, k, s, r) /\ RepliedAs(U, X, c, k, s, r, cmd, reply, q)
  /\ X.client[c] = k /\ Shape(X)

LEMMA RequestAt ==
  ASSUME NEW W, NEW c \in Client, Open(W, c), NEW cmd \in Sent, NEW x \in Request(W, c, cmd)
  PROVE  \/ x.reply = "none" /\ Fail(W, x.w, c)
         \/ \E U, k, s, r, q : Passed(W, U, c) /\ AnswerAt(U, x.w, c, k, s, r, cmd, x.reply, q)
<1>1. \/ x.reply = "none" /\ Fail(W, x.w, c)
      \/ \E U : Passed(W, U, c) /\ Replied(U, x.w, c, cmd, x.reply)
  BY RequestGood DEF Open
<1>2. ASSUME NEW U, Passed(W, U, c), Replied(U, x.w, c, cmd, x.reply)
      PROVE  \E k, s, r, q : Passed(W, U, c) /\ AnswerAt(U, x.w, c, k, s, r, cmd, x.reply, q)
  <2>1. PICK k, s, r : At(U, c, k, s, r)
    BY <1>2, HeldAt DEF Passed
  <2>2. PICK q : RepliedAs(U, x.w, c, k, s, r, cmd, x.reply, q)
    BY <1>2, <2>1, RepliedIs
  <2>3. Open(U, c)
    BY <1>2 DEF Passed, Open
  <2>4. x.w.client[c] = k /\ Shape(x.w)
    BY <2>2 DEF RepliedAs, Became
  <2>5. AnswerAt(U, x.w, c, k, s, r, cmd, x.reply, q)
    BY <2>1, <2>2, <2>3, <2>4 DEF AnswerAt
  <2> QED
    BY <1>2, <2>5
<1> QED
  BY <1>1, <1>2

\* The client took note of the answer.
LEMMA NotedGood ==
  ASSUME NEW U, NEW c \in Client, NEW X, NEW k0, NEW s, NEW r, NEW cmd, NEW reply, NEW q,
         AnswerAt(U, X, c, k0, s, r, cmd, reply, q),
         NEW k, SockType(k), k.stream = k0.stream, k.persistent = k0.persistent, ConnType(q), q.open,
         NotesOK(U.ghost, c, k), StreamOK(U.ghost, c, k, q), NEW V, Alone(X, V, c, k)
  PROVE  Well(V, c)
<1>1. /\ Open(U, c) /\ At(U, c, k0, s, r) /\ Became(U, X, c, s, k0, q) /\ X.ghost = U.ghost
      /\ k.stream = s
  BY DEF AnswerAt, RepliedAs, At
<1> QED
  BY <1>1, StepGood

LEMMA SelfAlone ==
  ASSUME NEW X, NEW c \in Client, Shape(X), NEW k, X.client[c] = k
  PROVE  Alone(X, X, c, k)
<1>1. X.client = [X.client EXCEPT ![c] = k]
  BY DEF Shape
<1> QED
  BY <1>1 DEF Alone, Shape, WorldFields

LEMMA FailIsWell ==
  ASSUME NEW W, NEW V, NEW c, Fail(W, V, c)
  PROVE  Well(V, c)
  BY DEF Fail, Well

LEMMA CommandGood ==
  ASSUME NEW W, NEW c \in Client, Open(W, c), NEW cmd \in Command, NEW V \in CommandSent(W, c, cmd)
  PROVE  Well(V, c)
<1>1. CASE "PIPELINE" \in W.client[c].mode
  <2>1. V = Enqueue(W, c, cmd, cmd)
    BY <1>1, Zenon DEF CommandSent
  <2> QED
    BY <1>1, <2>1, EnqueueCommand
<1>2. CASE "PIPELINE" \notin W.client[c].mode
  <2>1. PICK x \in Request(W, c, cmd) :
            /\ x.reply = "queued" => V = [x.w EXCEPT !.client[c].callbacks = Append(@, cmd)]
            /\ x.reply = "ok" => V = [x.w EXCEPT !.client[c] = Effect(@, cmd)]
            /\ x.reply \notin {"queued", "ok"} => V = x.w
    BY <1>2, SentIs
  <2>2. cmd \in Sent
    BY DEF Sent
  <2>3. CASE x.reply = "none" /\ Fail(W, x.w, c)
    <3>1. V = x.w
      BY <2>1, <2>3
    <3> QED
      BY <2>3, <3>1, FailIsWell
  <2>4. ASSUME NEW U, NEW k, NEW s, NEW r, NEW q, AnswerAt(U, x.w, c, k, s, r, cmd, x.reply, q)
        PROVE  Well(V, c)
    <3>X. PICK X : X = x.w
      OBVIOUS
    <3>y. PICK reply : reply = x.reply
      OBVIOUS
    <3>0. AnswerAt(U, X, c, k, s, r, cmd, reply, q)
      BY <2>4, <3>X, <3>y
    <3>1. /\ reply = "queued" => V = [X EXCEPT !.client[c].callbacks = Append(@, cmd)]
          /\ reply = "ok" => V = [X EXCEPT !.client[c] = Effect(@, cmd)]
          /\ reply \notin {"queued", "ok"} => V = X
      BY <2>1, <3>X, <3>y
    <3>2. /\ SockType(k) /\ ConnType(r) /\ r.open /\ StreamOK(U.ghost, c, k, r) /\ NotesOK(U.ghost, c, k)
          /\ c \notin U.ghost.mixed /\ Served1(r, cmd, q, reply) /\ (reply = "queued" => k.mode = {"MULTI"})
          /\ Shape(X) /\ X.client[c] = k
      BY <3>0 DEF AnswerAt, At, RepliedAs, Open
    <3>3. CASE r.multi = "no"
      <4>j. PICK j : j = IF reply = "ok" THEN Effect(k, cmd) ELSE k
        OBVIOUS
      <4>1. /\ StreamOK(U.ghost, c, j, q) /\ NotesOK(U.ghost, c, j) /\ SockType(j) /\ j.stream = k.stream
            /\ j.persistent = k.persistent /\ ConnType(q) /\ q.open
        BY <3>2, <3>3, <4>j, PlainOK
      <4>2. reply # "queued"
        <5>1. cmd \in Sent => (reply = "queued" => r.multi # "no")
          BY <3>2, QueuedInBlock
        <5> QED
          BY <2>2, <3>3, <5>1
      <4>3. Alone(X, V, c, j)
        <5>1. CASE reply = "ok"
          <6>1. V = [X EXCEPT !.client[c] = Effect(@, cmd)] /\ j = Effect(k, cmd)
            BY <3>1, <4>j, <5>1
          <6> QED
            BY <3>2, <6>1 DEF Alone
        <5>2. CASE reply # "ok"
          <6>1. V = X /\ j = k
            BY <3>1, <4>2, <4>j, <5>2
          <6> QED
            BY <3>2, <6>1, SelfAlone
        <5> QED
          BY <5>1, <5>2
      <4> QED
        BY <3>0, <4>1, <4>3, NotedGood
    <3>4. CASE r.multi # "no"
      <4>j. PICK j : j = IF reply = "queued" THEN [k EXCEPT !.callbacks = Append(@, cmd)] ELSE k
        OBVIOUS
      <4>1. /\ StreamOK(U.ghost, c, j, q) /\ NotesOK(U.ghost, c, j) /\ SockType(j) /\ j.stream = k.stream
            /\ j.persistent = k.persistent /\ ConnType(q) /\ q.open /\ reply \in {"queued", "err"}
        BY <3>2, <3>4, <4>j, BlockOK
      <4>3. Alone(X, V, c, j)
        <5>1. CASE reply = "queued"
          <6>1. V = [X EXCEPT !.client[c].callbacks = Append(@, cmd)] /\ j = [k EXCEPT !.callbacks = Append(@, cmd)]
            BY <3>1, <4>j, <5>1
          <6> QED
            BY <3>2, <6>1 DEF Alone, Shape, WorldFields
        <5>2. CASE reply # "queued"
          <6>1. V = X /\ j = k
            BY <3>1, <4>1, <4>j, <5>2
          <6> QED
            BY <3>2, <6>1, SelfAlone
        <5> QED
          BY <5>1, <5>2
      <4> QED
        BY <3>0, <4>1, <4>3, NotedGood
    <3> QED
      BY <3>3, <3>4
  <2> QED
    BY <2>2, <2>3, <2>4, RequestAt
<1> QED
  BY <1>1, <1>2

\* What follows when client c is in no other client's way.
LEMMA PassedMode ==
  ASSUME NEW W, NEW U, NEW c, Passed(W, U, c), NEW k, NEW s, NEW r, At(U, c, k, s, r)
  PROVE  /\ W.client[c].mode = {} => k.mode = {}
         /\ W.client[c].mode = {"MULTI"} => U = W /\ k.mode = {"MULTI"}
         /\ r.up
  BY DEF Passed, At

LEMMA OpenIsWell ==
  ASSUME NEW W, NEW c, Open(W, c)
  PROVE  Well(W, c)
  BY DEF Open, Well, Idle, Held

\* multi() outside a block and a pipeline.
LEMMA MultiGood ==
  ASSUME NEW W, NEW c \in Client, Open(W, c), NEW V \in multi(W, c)
  PROVE  Well(V, c)
<1>1. CASE "MULTI" \in W.client[c].mode
  <2>1. V = W
    BY <1>1 DEF multi
  <2> QED
    BY <2>1, OpenIsWell
<1>2. CASE "MULTI" \notin W.client[c].mode /\ "PIPELINE" \in W.client[c].mode
  <2>1. V = [Enqueue(W, c, "MULTI", "null") EXCEPT !.client[c].mode = @ \cup {"MULTI"}]
    BY <1>2, Zenon DEF multi
  <2> QED
    BY <1>2, <2>1, EnqueueMulti
<1>3. CASE "MULTI" \notin W.client[c].mode /\ "PIPELINE" \notin W.client[c].mode
  <2>1. PICK x \in Request(W, c, "MULTI") :
           V = IF x.reply = "ok" THEN [x.w EXCEPT !.client[c].mode = {"MULTI"}] ELSE x.w
    BY <1>3, Zenon DEF multi
  <2>2. W.client[c].mode = {}
    BY <1>3 DEF Open, Good, ClientsOK, SockType, SockFlags
  <2>3. CASE x.reply = "none" /\ Fail(W, x.w, c)
    <3>1. V = x.w
      BY <2>1, <2>3
    <3> QED
      BY <2>3, <3>1, FailIsWell
  <2>4. ASSUME NEW U, NEW k, NEW s, NEW r, NEW q, Passed(W, U, c),
               AnswerAt(U, x.w, c, k, s, r, "MULTI", x.reply, q)
        PROVE  Well(V, c)
    <3>X. PICK X : X = x.w
      OBVIOUS
    <3>y. PICK reply : reply = x.reply
      OBVIOUS
    <3>0. AnswerAt(U, X, c, k, s, r, "MULTI", reply, q)
      BY <2>4, <3>X, <3>y
    <3>1. V = IF reply = "ok" THEN [X EXCEPT !.client[c].mode = {"MULTI"}] ELSE X
      BY <2>1, <3>X, <3>y
    <3>2. /\ SockType(k) /\ ConnType(r) /\ r.open /\ StreamOK(U.ghost, c, k, r) /\ NotesOK(U.ghost, c, k)
          /\ c \notin U.ghost.mixed /\ Served1(r, "MULTI", q, reply) /\ ~r.unread
          /\ Shape(X) /\ X.client[c] = k /\ At(U, c, k, s, r) /\ k.status = "ready"
      BY <3>0 DEF AnswerAt, At, RepliedAs, Open
    <3>3. k.mode = {}
      BY <2>2, <2>4, <3>2, PassedMode
    <3>4. /\ ConnType(q) /\ q.unread = r.unread /\ q.open = r.open /\ q.up = r.up
          /\ q.db = r.db /\ q.watch = r.watch
          /\ r.multi = "no" => reply = "ok" /\ q.multi = "queue" /\ q.queue = << >>
          /\ r.multi # "no" => reply = "err" /\ q = r
      BY <3>2, ServeMulti
    <3>5. CASE r.multi = "no"
      <4>j. PICK j : j = [k EXCEPT !.mode = {"MULTI"}]
        OBVIOUS
      <4>1. /\ SockShape(j) /\ j.status = k.status /\ j.stream = k.stream /\ j.persistent = k.persistent
            /\ j.mode = {"MULTI"} /\ j.callbacks = k.callbacks /\ j.pipeline_cmd = k.pipeline_cmd
            /\ j.db = k.db /\ j.watching = k.watching /\ j.watched = k.watched /\ j.touched = k.touched
        BY <3>2, <4>j DEF SockType, SockShape, SockFields
      <4>2. SockType(j)
        BY <3>2, <4>1 DEF SockType, SockFlags, SockNotes
      <4>3. c \in U.ghost.torn \/ (k.callbacks = << >> /\ k.pipeline_cmd = << >>)
        BY <3>2, <3>3 DEF NotesOK, Torn
      <4>4. NotesOK(U.ghost, c, j)
        BY <4>1, <4>3 DEF NotesOK, Torn
      <4>5. StreamOK(U.ghost, c, j, q)
        <5>1. DatabaseOK(U.ghost, c, j, q)
          BY <3>2, <3>4, <4>1 DEF StreamOK, DatabaseOK
        <5>2. CleanOK(U.ghost, c, j, q)
          BY <3>2, <3>4, <4>1 DEF CleanOK
        <5>3. QueueOK(U.ghost, c, j, q)
          BY <3>4, <3>5, <4>1, <4>3 DEF QueueOK
        <5>4. WatchOK(U.ghost, c, j, q)
          BY <3>2, <3>4, <4>1 DEF StreamOK, WatchOK
        <5> QED
          BY <5>1, <5>2, <5>3, <5>4 DEF StreamOK
      <4>6. Alone(X, V, c, j)
        <5>1. V = [X EXCEPT !.client[c].mode = {"MULTI"}]
          BY <3>1, <3>4, <3>5
        <5> QED
          BY <3>2, <4>j, <5>1 DEF Alone, Shape, WorldFields
      <4>7. q.open
        BY <3>2, <3>4
      <4> QED
        BY <3>0, <3>4, <4>1, <4>2, <4>4, <4>5, <4>6, <4>7, NotedGood
    <3>6. CASE r.multi # "no"
      <4>1. V = X /\ q = r
        BY <3>1, <3>4, <3>6
      <4>2. Alone(X, V, c, k)
        BY <3>2, <4>1, SelfAlone
      <4> QED
        BY <3>0, <3>2, <4>1, <4>2, NotedGood
    <3> QED
      BY <3>5, <3>6
  <2>5. "MULTI" \in Sent
    BY DEF Sent
  <2> QED
    BY <2>3, <2>4, <2>5, RequestAt
<1> QED
  BY <1>1, <1>2, <1>3

LEMMA PipelineGood ==
  ASSUME NEW W, NEW c \in Client, Open(W, c), NEW V \in pipeline(W, c)
  PROVE  Well(V, c)
<1>0. V = IF W.client[c].mode = {} THEN [W EXCEPT !.client[c].mode = {"PIPELINE"}] ELSE W
  BY DEF pipeline
<1>1. CASE W.client[c].mode # {}
  <2>1. V = W
    BY <1>0, <1>1
  <2> QED
    BY <2>1, OpenIsWell
<1>2. CASE W.client[c].mode = {}
  <2>1. PICK k, s, r : At(W, c, k, s, r)
    BY HeldAt DEF Open
  <2>2. /\ SockType(k) /\ StreamOK(W.ghost, c, k, r) /\ NotesOK(W.ghost, c, k) /\ Shape(W)
        /\ W.client[c] = k /\ k.stream = s /\ k.status = "ready" /\ k.mode = {} /\ Good(W, c)
    BY <1>2, <2>1 DEF At, Open
  <2>j. PICK j : j = [k EXCEPT !.mode = {"PIPELINE"}]
    OBVIOUS
  <2>3. /\ SockShape(j) /\ j.status = k.status /\ j.stream = k.stream /\ j.persistent = k.persistent
        /\ j.mode = {"PIPELINE"} /\ j.callbacks = k.callbacks /\ j.pipeline_cmd = k.pipeline_cmd
        /\ j.db = k.db /\ j.watching = k.watching /\ j.watched = k.watched /\ j.touched = k.touched
    BY <2>2, <2>j DEF SockType, SockShape, SockFields
  <2>4. SockType(j)
    BY <2>2, <2>3 DEF SockType, SockFlags, SockNotes
  <2>5. c \in W.ghost.torn \/ (k.callbacks = << >> /\ k.pipeline_cmd = << >>)
    BY <2>2 DEF NotesOK, Torn
  <2>6. NotesOK(W.ghost, c, j)
    <3>1. Len(<< >>) = 0 /\ ~OpenEnd(<< >>)
      BY DEF OpenEnd
    <3> QED
      BY <2>3, <2>5, <3>1 DEF NotesOK, Torn
  <2>7. StreamOK(W.ghost, c, j, r)
    BY <2>2, <2>3 DEF StreamOK, DatabaseOK, CleanOK, QueueOK, WatchOK
  <2>8. Alone(W, V, c, j)
    <3>1. V = [W EXCEPT !.client[c].mode = {"PIPELINE"}]
      BY <1>0, <1>2
    <3> QED
      BY <2>2, <2>j, <3>1 DEF Alone, Shape, WorldFields
  <2>9. Altered(W, V, c, j, W.ghost)
    BY <2>2, <2>8, AloneToo
  <2> QED
    BY <2>1, <2>2, <2>3, <2>4, <2>6, <2>7, <2>9, AlteredGood
<1> QED
  BY <1>1, <1>2

LEMMA CloseGood ==
  ASSUME NEW W, NEW c \in Client, Open(W, c), NEW V \in close(W, c)
  PROVE  Well(V, c)
<1>1. V = Lost(W, c)
  BY DEF close, Lost
<1>2. Gone(W, V, c)
  BY <1>1, LostGood DEF Open
<1> QED
  BY <1>2 DEF Gone, Well

---------------------------------------------------------------------------
(* The end of a block: free_reply_callbacks, DISCARD, RESET.               *)

\* What is noted when the callbacks are freed.
FreedGhost(g, c, k) ==
  [g EXCEPT !.torn = IF k.pipeline_cmd = << >> /\ c \notin g.mixed THEN @ \ {c} ELSE @]

Freed(g, h, c, k) == h = FreedGhost(g, c, k)

LEMMA FreedGhostIs ==
  ASSUME NEW g, GhostShape(g), GhostType(g), NEW c \in Client, NEW k, NEW h, Freed(g, h, c, k)
  PROVE  /\ GhostShape(h) /\ GhostType(h) /\ OthersNoted(g, h, c) /\ h.drift = g.drift
         /\ h.mixed = g.mixed /\ h.unread = g.unread /\ h.blind = g.blind /\ h.spurious = g.spurious
         /\ c \in h.torn <=> c \in g.torn /\ ~(k.pipeline_cmd = << >> /\ c \notin g.mixed)
<1>1. PICK T : T = IF k.pipeline_cmd = << >> /\ c \notin g.mixed THEN g.torn \ {c} ELSE g.torn
  OBVIOUS
<1>2. h = [g EXCEPT !.torn = T]
  BY <1>1 DEF Freed, FreedGhost
<1>3. /\ GhostShape(h) /\ h.torn = T /\ h.drift = g.drift /\ h.mixed = g.mixed
      /\ h.unread = g.unread /\ h.blind = g.blind /\ h.spurious = g.spurious /\ h.unguarded = g.unguarded
  BY <1>2 DEF GhostFields, GhostShape
<1> QED
  BY <1>1, <1>3 DEF GhostType, OthersNoted

LEMMA FreedIs ==
  ASSUME NEW W, Shape(W), NEW c \in Client, NEW k, k = W.client[c], NEW V, V = free_reply_callbacks(W, c)
  PROVE  Altered(W, V, c, [k EXCEPT !.callbacks = << >>], FreedGhost(W.ghost, c, k))
<1>h. PICK h : h = FreedGhost(W.ghost, c, k)
  OBVIOUS
<1>j. PICK j : j = [k EXCEPT !.callbacks = << >>]
  OBVIOUS
<1>1. V = [W EXCEPT !.client[c] = j, !.ghost = h]
  BY <1>h, <1>j DEF free_reply_callbacks, FreedGhost, Shape, WorldFields
<1> QED
  BY <1>1, <1>h, <1>j DEF Altered

LEMMA AlteredShape ==
  ASSUME NEW W, Shape(W), NEW c \in Client, NEW V, NEW k, NEW g, GhostShape(g), Altered(W, V, c, k, g)
  PROVE  Shape(V) /\ V.client[c] = k /\ V.ghost = g /\ V.conn = W.conn
  BY DEF Altered, Shape, WorldFields, GhostShape

LEMMA AlteredTwice ==
  ASSUME NEW W, Shape(W), NEW c \in Client, NEW X, NEW k, NEW g, GhostShape(g), Altered(W, X, c, k, g),
         NEW V, NEW j, NEW h, Altered(X, V, c, j, h)
  PROVE  Altered(W, V, c, j, h)
  BY DEF Altered, Shape, WorldFields, GhostShape

\* The callbacks are freed, and the client becomes j.
LEMMA FreedThen ==
  ASSUME NEW W, Shape(W), NEW c \in Client, NEW k, k = W.client[c], GhostType(W.ghost), NEW F,
         F = free_reply_callbacks(W, c), NEW V, NEW j, Alone(F, V, c, j)
  PROVE  Altered(W, V, c, j, FreedGhost(W.ghost, c, k))
<1>h. PICK h : h = FreedGhost(W.ghost, c, k)
  OBVIOUS
<1>p. PICK p : p = [k EXCEPT !.callbacks = << >>]
  OBVIOUS
<1>1. Altered(W, F, c, p, h)
  BY <1>h, <1>p, FreedIs
<1>2. GhostShape(h)
  <2>1. GhostShape(W.ghost)
    BY DEF Shape, GhostShape
  <2> QED
    BY <1>h, <2>1, FreedGhostIs DEF Freed
<1>3. Shape(F) /\ F.ghost = h
  BY <1>1, <1>2, AlteredShape
<1>4. Altered(F, V, c, j, h)
  BY <1>3, AloneToo
<1> QED
  BY <1>1, <1>2, <1>4, <1>h, AlteredTwice

\* The client as it was freed.
LEMMA FreedClient ==
  ASSUME NEW W, Shape(W), NEW c \in Client, GhostType(W.ghost), NEW k, k = W.client[c]
  PROVE  Shape(free_reply_callbacks(W, c)) /\ free_reply_callbacks(W, c).client[c] = [k EXCEPT !.callbacks = << >>]
<1>h. PICK h : h = FreedGhost(W.ghost, c, k)
  OBVIOUS
<1>p. PICK p : p = [k EXCEPT !.callbacks = << >>]
  OBVIOUS
<1>F. PICK F : F = free_reply_callbacks(W, c)
  OBVIOUS
<1>1. Altered(W, F, c, p, h)
  BY <1>h, <1>p, <1>F, FreedIs
<1>2. GhostShape(h)
  <2>1. GhostShape(W.ghost)
    BY DEF Shape, GhostShape
  <2> QED
    BY <1>h, <2>1, FreedGhostIs DEF Freed
<1>3. Shape(F) /\ F.client[c] = p
  BY <1>1, <1>2, AlteredShape
<1> QED
  BY <1>3, <1>p, <1>F

\* The server has answered, the client took note of it and freed its callbacks.
LEMMA FreedGood ==
  ASSUME NEW U, NEW c \in Client, Open(U, c), NEW k0, NEW s, NEW r, At(U, c, k0, s, r),
         NEW X, NEW q, Became(U, X, c, s, k0, q), X.ghost = U.ghost, NEW k1, NEW h,
         Freed(U.ghost, h, c, k1),
         NEW k, SockType(k), k.stream = s, k.persistent = k0.persistent, ConnType(q), q.open,
         NotesOK(h, c, k), StreamOK(h, c, k, q),
         NEW V, Altered(X, V, c, k, h)
  PROVE  Well(V, c)
<1>1. GhostShape(U.ghost) /\ GhostType(U.ghost) /\ c \notin U.ghost.mixed
  BY DEF At, Shape, GhostShape, Open
<1>2. /\ GhostShape(h) /\ GhostType(h) /\ OthersNoted(U.ghost, h, c) /\ h.drift = U.ghost.drift
      /\ h.mixed = U.ghost.mixed /\ h.unread = U.ghost.unread /\ h.blind = U.ghost.blind /\ h.spurious = U.ghost.spurious
      /\ c \in h.torn <=> c \in U.ghost.torn /\ ~(k1.pipeline_cmd = << >> /\ c \notin U.ghost.mixed)
  BY <1>1, FreedGhostIs
<1>3. Became(U, V, c, s, k, q) /\ V.ghost = h
  BY <1>2, AlteredIs
<1>4. Explained(h, c, k)
  BY <1>1, <1>2 DEF At, Explained
<1>5. Good(U, c)
  BY DEF Open
<1> QED
  BY <1>2, <1>3, <1>4, <1>5, BecameGood DEF Well

LEMMA AloneShape ==
  ASSUME NEW X, Shape(X), NEW c \in Client, NEW k1, NEW Y, Alone(X, Y, c, k1)
  PROVE  Shape(Y) /\ Y.client[c] = k1 /\ Y.ghost = X.ghost /\ Y.conn = X.conn
  BY DEF Alone, Shape, WorldFields

\* A note is taken and then the callbacks are freed.
LEMMA FreedClientOf ==
  ASSUME NEW X, Shape(X), NEW c \in Client, GhostType(X.ghost), NEW k1, NEW Y, Alone(X, Y, c, k1)
  PROVE  /\ Shape(free_reply_callbacks(Y, c))
         /\ free_reply_callbacks(Y, c).client[c] = [k1 EXCEPT !.callbacks = << >>]
<1>1. Shape(Y) /\ Y.client[c] = k1 /\ GhostType(Y.ghost)
  BY AloneShape
<1> QED
  BY <1>1, FreedClient

LEMMA FreedFrom ==
  ASSUME NEW X, Shape(X), NEW c \in Client, GhostType(X.ghost), NEW k1, NEW Y, Alone(X, Y, c, k1),
         NEW F, F = free_reply_callbacks(Y, c), NEW V, NEW j, Alone(F, V, c, j), NEW h,
         Freed(X.ghost, h, c, k1)
  PROVE  Altered(X, V, c, j, h)
<1>1. Shape(Y) /\ Y.client[c] = k1 /\ GhostType(Y.ghost) /\ Y.ghost = X.ghost
  BY AloneShape
<1>2. Altered(Y, V, c, j, FreedGhost(Y.ghost, c, k1))
  BY <1>1, FreedThen
<1>3. h = FreedGhost(Y.ghost, c, k1)
  BY <1>1 DEF Freed
<1>4. Altered(Y, V, c, j, h)
  BY <1>2, <1>3
<1>5. Altered(X, Y, c, k1, X.ghost) /\ GhostShape(X.ghost)
  BY AloneToo DEF Shape, GhostShape
<1> QED
  BY <1>4, <1>5, AlteredTwice

\* discard() of a pipeline.
LEMMA DiscardPipeline ==
  ASSUME NEW W, NEW c \in Client, Open(W, c), "PIPELINE" \in W.client[c].mode,
         NEW Y, Y = [W EXCEPT !.client[c].pipeline_cmd = << >>],
         NEW V, V = [free_reply_callbacks(Y, c) EXCEPT !.client[c].mode = {}]
  PROVE  Well(V, c)
<1>1. PICK k, s, r : At(W, c, k, s, r)
  BY HeldAt DEF Open
<1>2. /\ SockType(k) /\ StreamOK(W.ghost, c, k, r) /\ NotesOK(W.ghost, c, k) /\ Shape(W)
      /\ W.client[c] = k /\ k.stream = s /\ k.status = "ready" /\ "PIPELINE" \in k.mode /\ Good(W, c)
      /\ GhostType(W.ghost) /\ ConnType(r) /\ r.open /\ c \notin W.ghost.mixed
  BY <1>1 DEF At, Open
<1>a. PICK k1 : k1 = [k EXCEPT !.pipeline_cmd = << >>]
  OBVIOUS
<1>b. PICK k2 : k2 = [k1 EXCEPT !.callbacks = << >>]
  OBVIOUS
<1>j. PICK j : j = [k2 EXCEPT !.mode = {}]
  OBVIOUS
<1>h. PICK h : Freed(W.ghost, h, c, k1)
  BY DEF Freed
<1>F. PICK F : F = free_reply_callbacks(Y, c)
  OBVIOUS
<1>3. Alone(W, Y, c, k1)
  BY <1>2, <1>a DEF Alone, Shape, WorldFields
<1>4. Shape(F) /\ F.client[c] = k2
  BY <1>2, <1>3, <1>b, <1>F, FreedClientOf
<1>5. Alone(F, V, c, j)
  BY <1>4, <1>j, <1>F DEF Alone, Shape, WorldFields
<1>6. Altered(W, V, c, j, h)
  BY <1>2, <1>3, <1>5, <1>F, <1>h, FreedFrom
<1>7. /\ SockShape(j) /\ j.status = k.status /\ j.stream = k.stream /\ j.persistent = k.persistent
      /\ j.mode = {} /\ j.callbacks = << >> /\ j.pipeline_cmd = << >>
      /\ j.db = k.db /\ j.watching = k.watching /\ j.watched = k.watched /\ j.touched = k.touched
  BY <1>2, <1>a, <1>b, <1>j DEF SockType, SockShape, SockFields
<1>8. SockType(j)
  BY <1>2, <1>7 DEF SockType, SockFlags, SockNotes
<1>9. /\ GhostShape(W.ghost)
      /\ h.mixed = W.ghost.mixed /\ h.unread = W.ghost.unread /\ h.blind = W.ghost.blind
  <2>1. GhostShape(W.ghost)
    BY <1>2 DEF Shape, GhostShape
  <2> QED
    BY <1>2, <1>h, <2>1, FreedGhostIs
<1>10. NotesOK(h, c, j)
  BY <1>7 DEF NotesOK, Torn
<1>11. StreamOK(h, c, j, r)
  BY <1>2, <1>7, <1>9 DEF StreamOK, DatabaseOK, CleanOK, QueueOK, WatchOK, Quiet
<1>12. Became(W, W, c, s, k, r)
  BY <1>1, BecameSelf
<1>13. j.stream = s /\ j.persistent = k.persistent /\ Open(W, c) /\ ConnType(r) /\ r.open
  BY <1>2, <1>7
<1> QED
  BY <1>1, <1>6, <1>8, <1>10, <1>11, <1>12, <1>13, <1>h, FreedGood

\* discard() of a block.
LEMMA DiscardBlock ==
  ASSUME NEW W, NEW c \in Client, Open(W, c), W.client[c].mode = {"MULTI"},
         NEW U, NEW X, NEW k, NEW s, NEW r, NEW q, NEW reply, Passed(W, U, c),
         AnswerAt(U, X, c, k, s, r, "DISCARD", reply, q),
         NEW V, V = [free_reply_callbacks(Unwatched(X, c), c) EXCEPT !.client[c].mode = {}]
  PROVE  Well(V, c)
<1>1. /\ Open(U, c) /\ At(U, c, k, s, r) /\ Became(U, X, c, s, k, q) /\ X.ghost = U.ghost
      /\ X.client[c] = k /\ Shape(X) /\ Served1(r, "DISCARD", q, reply) /\ ~r.unread
  BY DEF AnswerAt, RepliedAs
<1>2. /\ SockType(k) /\ StreamOK(U.ghost, c, k, r) /\ NotesOK(U.ghost, c, k)
      /\ k.stream = s /\ k.status = "ready" /\ k.mode = {"MULTI"}
      /\ GhostType(U.ghost) /\ ConnType(r) /\ r.open /\ c \notin U.ghost.mixed /\ Shape(U)
  BY <1>1, PassedMode DEF At, Open
<1>a. PICK k1 : k1 = [k EXCEPT !.watched = FALSE, !.touched = FALSE]
  OBVIOUS
<1>b. PICK k2 : k2 = [k1 EXCEPT !.callbacks = << >>]
  OBVIOUS
<1>j. PICK j : j = [k2 EXCEPT !.mode = {}]
  OBVIOUS
<1>h. PICK h : Freed(U.ghost, h, c, k1)
  BY DEF Freed
<1>Y. PICK Y : Y = Unwatched(X, c)
  OBVIOUS
<1>F. PICK F : F = free_reply_callbacks(Y, c)
  OBVIOUS
<1>3. Alone(X, Y, c, k1)
  BY <1>1, <1>a, <1>Y DEF Alone, Shape, WorldFields, Unwatched
<1>4. Shape(F) /\ F.client[c] = k2
  BY <1>1, <1>2, <1>3, <1>b, <1>F, FreedClientOf
<1>5. Alone(F, V, c, j)
  BY <1>4, <1>j, <1>F, <1>Y DEF Alone, Shape, WorldFields
<1>6. Altered(X, V, c, j, h)
  <2>1. Freed(X.ghost, h, c, k1) /\ GhostType(X.ghost)
    BY <1>1, <1>2, <1>h
  <2> QED
    BY <1>1, <1>3, <1>5, <1>F, <2>1, FreedFrom
<1>7. /\ SockShape(j) /\ j.status = k.status /\ j.stream = k.stream /\ j.persistent = k.persistent
      /\ j.mode = {} /\ j.callbacks = << >> /\ j.pipeline_cmd = k.pipeline_cmd
      /\ j.db = k.db /\ j.watching = k.watching /\ j.watched = FALSE /\ j.touched = FALSE
      /\ k1.pipeline_cmd = k.pipeline_cmd
  BY <1>2, <1>a, <1>b, <1>j DEF SockType, SockShape, SockFields
<1>8. SockType(j)
  <2>1. SockFlags(k) /\ SockNotes(k)
    BY <1>2 DEF SockType
  <2>2. SockFlags(j)
    BY <1>7, <2>1 DEF SockFlags
  <2>3. SockNotes(j)
    BY <1>7, <2>1 DEF SockNotes
  <2> QED
    BY <1>7, <2>2, <2>3 DEF SockType
<1>9. /\ h.mixed = U.ghost.mixed /\ h.unread = U.ghost.unread /\ h.blind = U.ghost.blind
      /\ c \in h.torn <=> c \in U.ghost.torn /\ ~(k1.pipeline_cmd = << >> /\ c \notin U.ghost.mixed)
  <2>1. GhostShape(U.ghost)
    BY <1>2 DEF Shape, GhostShape
  <2> QED
    BY <1>2, <1>h, <2>1, FreedGhostIs
<1>10. NotesOK(h, c, j)
  BY <1>2, <1>7, <1>9 DEF NotesOK, Torn
<1>11. /\ ConnType(q) /\ q.unread = r.unread /\ q.open = r.open /\ q.up = r.up
       /\ q.db = r.db /\ q.watch = "no" /\ q.multi = "no"
  BY <1>1, <1>2, ServeDiscard
<1>12. StreamOK(h, c, j, q)
  BY <1>1, <1>2, <1>7, <1>9, <1>11 DEF StreamOK, DatabaseOK, CleanOK, QueueOK, WatchOK
<1>13. q.open
  BY <1>2, <1>11
<1> QED
  BY <1>1, <1>2, <1>6, <1>7, <1>8, <1>10, <1>11, <1>12, <1>13, <1>h, FreedGood

LEMMA DiscardGood ==
  ASSUME NEW W, NEW c \in Client, Open(W, c), NEW V \in discard(W, c)
  PROVE  Well(V, c)
<1>0. W.client[c].mode \in SUBSET {"MULTI", "PIPELINE"}
  BY DEF Open, Good, ClientsOK, SockType, SockFlags
<1>1. CASE "PIPELINE" \in W.client[c].mode
  <2>Y. PICK Y : Y = [W EXCEPT !.client[c].pipeline_cmd = << >>]
    OBVIOUS
  <2>1. V = [free_reply_callbacks(Y, c) EXCEPT !.client[c].mode = {}]
    BY <1>1, <2>Y, Zenon DEF discard
  <2> QED
    BY <1>1, <2>Y, <2>1, DiscardPipeline
<1>2. CASE "PIPELINE" \notin W.client[c].mode /\ "MULTI" \in W.client[c].mode
  <2>1. PICK x \in Request(W, c, "DISCARD") :
           V = IF x.reply = "ok" THEN [free_reply_callbacks(Unwatched(x.w, c), c) EXCEPT !.client[c].mode = {}]
               ELSE x.w
    BY <1>2, Zenon DEF discard, redis_send_discard
  <2>2. W.client[c].mode = {"MULTI"} /\ "DISCARD" \in Sent
    BY <1>0, <1>2 DEF Sent
  <2>3. CASE x.reply = "none" /\ Fail(W, x.w, c)
    <3>1. V = x.w
      BY <2>1, <2>3
    <3> QED
      BY <2>3, <3>1, FailIsWell
  <2>4. ASSUME NEW U, NEW k, NEW s, NEW r, NEW q, Passed(W, U, c),
               AnswerAt(U, x.w, c, k, s, r, "DISCARD", x.reply, q)
        PROVE  Well(V, c)
    <3>1. ConnType(r) /\ Served1(r, "DISCARD", q, x.reply)
      BY <2>4 DEF AnswerAt, At, RepliedAs
    <3>2. x.reply = "ok"
      BY <3>1, ServeDiscard
    <3>3. V = [free_reply_callbacks(Unwatched(x.w, c), c) EXCEPT !.client[c].mode = {}]
      BY <2>1, <3>2
    <3> QED
      BY <2>2, <2>4, <3>3, DiscardBlock
  <2> QED
    BY <2>2, <2>3, <2>4, RequestAt
<1>3. CASE "PIPELINE" \notin W.client[c].mode /\ "MULTI" \notin W.client[c].mode
  <2>1. V = W
    BY <1>3, Zenon DEF discard
  <2> QED
    BY <2>1, OpenIsWell
<1> QED
  BY <1>1, <1>2, <1>3

LEMMA ResetBlock ==
  ASSUME NEW W, NEW c \in Client, Open(W, c), "PIPELINE" \notin W.client[c].mode,
         NEW U, NEW X, NEW k, NEW s, NEW r, NEW q, NEW reply, Passed(W, U, c),
         AnswerAt(U, X, c, k, s, r, "RESET", reply, q),
         NEW V, V = [free_reply_callbacks(Unwatched(X, c), c) EXCEPT !.client[c] =
                   [@ EXCEPT !.status = "connected", !.mode = {}, !.db = 0, !.watching = FALSE]]
  PROVE  Well(V, c)
<1>1. /\ Open(U, c) /\ At(U, c, k, s, r) /\ Became(U, X, c, s, k, q) /\ X.ghost = U.ghost
      /\ X.client[c] = k /\ Shape(X) /\ Served1(r, "RESET", q, reply) /\ ~r.unread
  BY DEF AnswerAt, RepliedAs
<1>2. /\ SockType(k) /\ StreamOK(U.ghost, c, k, r) /\ NotesOK(U.ghost, c, k)
      /\ k.stream = s /\ k.status = "ready"
      /\ GhostType(U.ghost) /\ ConnType(r) /\ r.open /\ c \notin U.ghost.mixed /\ Shape(U)
  BY <1>1 DEF At, Open
<1>m. "PIPELINE" \notin k.mode
  BY <1>1 DEF Passed, At
<1>a. PICK k1 : k1 = [k EXCEPT !.watched = FALSE, !.touched = FALSE]
  OBVIOUS
<1>b. PICK k2 : k2 = [k1 EXCEPT !.callbacks = << >>]
  OBVIOUS
<1>j. PICK j : j = [k2 EXCEPT !.status = "connected", !.mode = {}, !.db = 0, !.watching = FALSE]
  OBVIOUS
<1>h. PICK h : Freed(U.ghost, h, c, k1)
  BY DEF Freed
<1>Y. PICK Y : Y = Unwatched(X, c)
  OBVIOUS
<1>F. PICK F : F = free_reply_callbacks(Y, c)
  OBVIOUS
<1>3. Alone(X, Y, c, k1)
  BY <1>1, <1>a, <1>Y DEF Alone, Shape, WorldFields, Unwatched
<1>4. Shape(F) /\ F.client[c] = k2
  BY <1>1, <1>2, <1>3, <1>b, <1>F, FreedClientOf
<1>5. Alone(F, V, c, j)
  BY <1>4, <1>j, <1>F, <1>Y DEF Alone, Shape, WorldFields
<1>6. Altered(X, V, c, j, h)
  <2>1. Freed(X.ghost, h, c, k1) /\ GhostType(X.ghost)
    BY <1>1, <1>2, <1>h
  <2> QED
    BY <1>1, <1>3, <1>5, <1>F, <2>1, FreedFrom
<1>7. /\ SockShape(j) /\ j.status = "connected" /\ j.stream = k.stream /\ j.persistent = k.persistent
      /\ j.mode = {} /\ j.callbacks = << >> /\ j.pipeline_cmd = k.pipeline_cmd
      /\ j.db = 0 /\ j.watching = FALSE /\ j.watched = FALSE /\ j.touched = FALSE
      /\ k1.pipeline_cmd = k.pipeline_cmd
  BY <1>2, <1>a, <1>b, <1>j DEF SockType, SockShape, SockFields
<1>8. SockType(j)
  <2>1. SockFlags(k) /\ SockNotes(k)
    BY <1>2 DEF SockType
  <2>2. SockFlags(j)
    BY <1>2, <1>7, <2>1 DEF SockFlags
  <2>3. SockNotes(j)
    BY <1>7, <2>1 DEF SockNotes
  <2> QED
    BY <1>7, <2>2, <2>3 DEF SockType
<1>9. /\ h.mixed = U.ghost.mixed /\ h.unread = U.ghost.unread /\ h.blind = U.ghost.blind
      /\ c \in h.torn <=> c \in U.ghost.torn /\ ~(k1.pipeline_cmd = << >> /\ c \notin U.ghost.mixed)
  <2>1. GhostShape(U.ghost)
    BY <1>2 DEF Shape, GhostShape
  <2> QED
    BY <1>2, <1>h, <2>1, FreedGhostIs
<1>10. NotesOK(h, c, j)
  BY <1>2, <1>7, <1>9, <1>m DEF NotesOK, Torn
<1>11. /\ ConnType(q) /\ q.unread = r.unread /\ q.open = TRUE /\ q.up = TRUE
       /\ q.db = 0 /\ q.watch = "no" /\ q.multi = "no" /\ reply = "ok"
  BY <1>1, <1>2, ServeReset
<1>12. StreamOK(h, c, j, q)
  BY <1>1, <1>2, <1>7, <1>9, <1>11 DEF StreamOK, DatabaseOK, CleanOK, QueueOK, WatchOK
<1> QED
  BY <1>1, <1>2, <1>6, <1>7, <1>8, <1>10, <1>11, <1>12, <1>h, FreedGood

LEMMA ResetReply ==
  ASSUME NEW r, NEW q, NEW reply, Served1(r, "RESET", q, reply)
  PROVE  reply = "ok"
  BY UnfoldReset DEF Served1

LEMMA ResetGood ==
  ASSUME NEW W, NEW c \in Client, Open(W, c), NEW V \in reset(W, c)
  PROVE  Well(V, c)
<1>1. CASE "PIPELINE" \in W.client[c].mode
  <2>1. V = W
    BY <1>1, Zenon DEF reset
  <2> QED
    BY <2>1, OpenIsWell
<1>2. CASE "PIPELINE" \notin W.client[c].mode
  <2>1. PICK x \in Request(W, c, "RESET") :
           V = IF x.reply = "ok"
               THEN [free_reply_callbacks(Unwatched(x.w, c), c) EXCEPT !.client[c] =
                   [@ EXCEPT !.status = "connected", !.mode = {}, !.db = 0, !.watching = FALSE]]
               ELSE x.w
    BY <1>2, Zenon DEF reset
  <2>2. "RESET" \in Sent
    BY DEF Sent
  <2>3. CASE x.reply = "none" /\ Fail(W, x.w, c)
    <3>1. V = x.w
      BY <2>1, <2>3
    <3> QED
      BY <2>3, <3>1, FailIsWell
  <2>4. ASSUME NEW U, NEW k, NEW s, NEW r, NEW q, Passed(W, U, c),
               AnswerAt(U, x.w, c, k, s, r, "RESET", x.reply, q)
        PROVE  Well(V, c)
    <3>1. ConnType(r) /\ Served1(r, "RESET", q, x.reply)
      BY <2>4 DEF AnswerAt, At, RepliedAs
    <3>2. x.reply = "ok"
      BY <3>1, ResetReply
    <3>3. V = [free_reply_callbacks(Unwatched(x.w, c), c) EXCEPT !.client[c] =
                   [@ EXCEPT !.status = "connected", !.mode = {}, !.db = 0, !.watching = FALSE]]
      BY <2>1, <3>2
    <3> QED
      BY <1>2, <2>4, <3>3, ResetBlock
  <2> QED
    BY <2>2, <2>3, <2>4, RequestAt
<1> QED
  BY <1>1, <1>2

---------------------------------------------------------------------------
(* EXEC of a MULTI block.                                                  *)

LEMMA NumbersInduction ==
  ASSUME NEW S, S \subseteq Nat, 0 \in S, \A n \in S : n + 1 \in S
  PROVE  S = Nat
<1> SUFFICES ASSUME Nat \ S # {}
             PROVE  FALSE
  OBVIOUS
<1>1. PICK n \in Nat \ S : \A m \in Nat \ S : <<m, n>> \notin OpToRel(<, Nat)
  BY NatLessThanWellFounded, WFMin
<1>2. \A m \in Nat \ S : ~(m < n)
  BY <1>1 DEF OpToRel
<1>3. n # 0 /\ n - 1 \in Nat /\ n - 1 < n
  OBVIOUS
<1>4. n - 1 \in S /\ n - 1 + 1 = n
  BY <1>2, <1>3
<1> QED
  BY <1>3, <1>4

\* The clients after each reply callback of a list, the first n of them.
Affected(f, k, cmds, n) ==
  f = [i \in 0..n |-> IF i = 0 THEN k ELSE Effect(f[i - 1], cmds[i])]

LEMMA AffectedExists == \A k, cmds : \A n \in Nat : \E f : Affected(f, k, cmds, n)
<1> SUFFICES ASSUME NEW k, NEW cmds
             PROVE  \A n \in Nat : \E f : Affected(f, k, cmds, n)
  OBVIOUS
<1> DEFINE S == {n \in Nat : \E f : Affected(f, k, cmds, n)}
<1>1. 0 \in S
  <2>1. Affected([i \in 0..0 |-> k], k, cmds, 0)
    BY DEF Affected
  <2> QED
    BY <2>1
<1>2. ASSUME NEW n \in S
      PROVE  n + 1 \in S
  <2>0. n \in Nat
    OBVIOUS
  <2>1. PICK f : Affected(f, k, cmds, n)
    OBVIOUS
  <2>2. PICK g : g = [i \in 0..(n + 1) |-> IF i <= n THEN f[i] ELSE Effect(f[n], cmds[n + 1])]
    OBVIOUS
  <2>3. \A i \in 0..n : g[i] = f[i]
    BY <2>0, <2>2
  <2>4. g[n + 1] = Effect(f[n], cmds[n + 1])
    BY <2>0, <2>2
  <2>5. \A i \in 0..(n + 1) : g[i] = IF i = 0 THEN k ELSE Effect(g[i - 1], cmds[i])
    <3> SUFFICES ASSUME NEW i \in 0..(n + 1)
                 PROVE  g[i] = IF i = 0 THEN k ELSE Effect(g[i - 1], cmds[i])
      OBVIOUS
    <3>1. CASE i = n + 1
      <4>1. i - 1 = n /\ g[n] = f[n] /\ i # 0
        BY <2>0, <2>3, <3>1
      <4> QED
        BY <2>4, <3>1, <4>1
    <3>2. CASE i \in 1..n
      <4>1. i - 1 \in 0..n /\ i \in 0..n /\ i # 0
        BY <2>0, <3>2
      <4>2. f[i] = IF i = 0 THEN k ELSE Effect(f[i - 1], cmds[i])
        BY <2>1, <4>1 DEF Affected
      <4> QED
        BY <2>3, <4>1, <4>2
    <3>3. CASE i = 0
      <4>1. 0 \in 0..n
        BY <2>0
      <4>2. f[0] = k
        BY <2>1, <4>1 DEF Affected
      <4> QED
        BY <2>3, <3>3, <4>1, <4>2
    <3> QED
      BY <2>0, <3>1, <3>2, <3>3
  <2>6. g = [i \in 0..(n + 1) |-> g[i]]
    BY <2>2
  <2> HIDE <2>2
  <2>7. g = [i \in 0..(n + 1) |-> IF i = 0 THEN k ELSE Effect(g[i - 1], cmds[i])]
    BY <2>5, <2>6, Zenon
  <2>8. Affected(g, k, cmds, n + 1)
    BY <2>7 DEF Affected
  <2> QED
    BY <2>0, <2>8
<1>3. S \subseteq Nat
  OBVIOUS
<1> HIDE DEF S
<1>4. S = Nat
  BY <1>1, <1>2, <1>3, NumbersInduction
<1> QED
  BY <1>4 DEF S

LEMMA EffectsAre ==
  ASSUME NEW k, NEW S, NEW cmds \in Seq(S)
  PROVE  \E f : Affected(f, k, cmds, Len(cmds)) /\ Effects(k, cmds) = f[Len(cmds)]
<1> DEFINE after == CHOOSE f : f = [i \in 0..Len(cmds) |-> IF i = 0 THEN k ELSE Effect(f[i - 1], cmds[i])]
<1>1. \E f : Affected(f, k, cmds, Len(cmds))
  <2>1. Len(cmds) \in Nat
    OBVIOUS
  <2> QED
    BY <2>1, AffectedExists
<1>2. Affected(after, k, cmds, Len(cmds))
  BY <1>1, Zenon DEF Affected
<1>3. Effects(k, cmds) = after[Len(cmds)]
  BY Zenon DEF Effects
<1> HIDE DEF after
<1> QED
  BY <1>2, <1>3

\* Callbacks that do not watch: the client may have selected database 1.
LEMMA EffectsGood ==
  ASSUME NEW k, SockType(k), ~k.watched, NEW cmds \in Seq(Command \ {"watch"}), NEW e, e = Effects(k, cmds)
  PROVE  /\ SockType(e) /\ e.status = k.status /\ e.stream = k.stream /\ e.persistent = k.persistent
         /\ e.mode = k.mode /\ e.callbacks = k.callbacks /\ e.pipeline_cmd = k.pipeline_cmd
         /\ ~e.watched
         /\ e.db = IF Contains(cmds, "select") THEN 1 ELSE k.db
<1>1. PICK f : Affected(f, k, cmds, Len(cmds)) /\ e = f[Len(cmds)]
  BY EffectsAre
<1>2. Len(cmds) \in Nat
  OBVIOUS
<1>3. f[0] = k /\ \A i \in 0..Len(cmds) : i # 0 => f[i] = Effect(f[i - 1], cmds[i])
  <2>1. ASSUME NEW i \in 0..Len(cmds)
        PROVE  f[i] = IF i = 0 THEN k ELSE Effect(f[i - 1], cmds[i])
    BY <1>1 DEF Affected
  <2>2. 0 \in 0..Len(cmds)
    BY <1>2
  <2> QED
    BY <2>1, <2>2
<1> DEFINE P(n) ==
        LET x == f[n]
        IN  /\ SockType(x) /\ x.status = k.status /\ x.stream = k.stream /\ x.persistent = k.persistent
            /\ x.mode = k.mode /\ x.callbacks = k.callbacks /\ x.pipeline_cmd = k.pipeline_cmd
            /\ ~x.watched
            /\ x.db = IF \E i \in 1..n : cmds[i] = "select" THEN 1 ELSE k.db
<1> DEFINE S == {n \in Nat : n <= Len(cmds) => P(n)}
<1>4. 0 \in S
  BY <1>3
<1>5. ASSUME NEW n \in S
      PROVE  n + 1 \in S
  <2> SUFFICES ASSUME n + 1 <= Len(cmds)
               PROVE  P(n + 1)
    OBVIOUS
  <2>0. n \in Nat
    OBVIOUS
  <2>1. P(n) /\ n + 1 \in 0..Len(cmds) /\ (n + 1) - 1 = n /\ n + 1 # 0 /\ n + 1 \in 1..Len(cmds)
    BY <1>2, <2>0
  <2>2. f[n + 1] = Effect(f[n], cmds[n + 1])
    BY <1>3, <2>1
  <2>x. PICK x : x = f[n]
    OBVIOUS
  <2>y. PICK y : y = f[n + 1]
    OBVIOUS
  <2>z. PICK cmd : cmd = cmds[n + 1]
    OBVIOUS
  <2>3. /\ SockType(x) /\ x.status = k.status /\ x.stream = k.stream /\ x.persistent = k.persistent
        /\ x.mode = k.mode /\ x.callbacks = k.callbacks /\ x.pipeline_cmd = k.pipeline_cmd
        /\ ~x.watched
        /\ x.db = IF \E i \in 1..n : cmds[i] = "select" THEN 1 ELSE k.db
    BY <2>1, <2>x
  <2>4. y = Effect(x, cmd)
    BY <2>2, <2>x, <2>y, <2>z
  <2>c. cmd \in Command \ {"watch"}
    BY <2>1, <2>z
  <2>5. /\ SockType(y) /\ y.status = x.status /\ y.stream = x.stream /\ y.persistent = x.persistent
        /\ y.mode = x.mode /\ y.callbacks = x.callbacks /\ y.pipeline_cmd = x.pipeline_cmd
        /\ y.db = (IF cmd = "select" THEN 1 ELSE x.db)
        /\ cmd = "unwatch" => ~y.watching /\ ~y.watched /\ ~y.touched
        /\ cmd \notin {"watch", "unwatch"} =>
              y.watching = x.watching /\ y.watched = x.watched /\ y.touched = x.touched
    BY <2>3, <2>4, EffectIs
  <2>6. ~y.watched
    BY <2>3, <2>c, <2>5, Zenon
  <2>7. (\E i \in 1..(n + 1) : cmds[i] = "select") <=> (\E i \in 1..n : cmds[i] = "select") \/ cmd = "select"
    BY <2>0, <2>z
  <2>8. y.db = IF \E i \in 1..(n + 1) : cmds[i] = "select" THEN 1 ELSE k.db
    BY <2>3, <2>5, <2>7, Zenon
  <2>9. /\ SockType(y) /\ y.status = k.status /\ y.stream = k.stream /\ y.persistent = k.persistent
        /\ y.mode = k.mode /\ y.callbacks = k.callbacks /\ y.pipeline_cmd = k.pipeline_cmd
    BY <2>3, <2>5, Zenon
  <2> QED
    BY <2>9, <2>6, <2>8, <2>y
<1>6. S \subseteq Nat
  OBVIOUS
<1> HIDE DEF S
<1>7. S = Nat
  BY <1>4, <1>5, <1>6, NumbersInduction
<1>8. P(Len(cmds))
  BY <1>2, <1>7 DEF S
<1>9. Contains(cmds, "select") <=> \E i \in 1..Len(cmds) : cmds[i] = "select"
  BY DEF Contains
<1> QED
  BY <1>1, <1>8, <1>9

\* exec() of a block ends: the callbacks are freed, the mode and the keys forgotten.
Ended(Y, c) ==
  [free_reply_callbacks(Y, c) EXCEPT !.client[c] = BlockOver(@)]

Ends(Y, V, c) == V = Ended(Y, c)

\* What client e is once its block has ended.
EndsAs(Y, V, c, e, j, h) ==
  /\ Altered(Y, V, c, j, h)
  /\ SockType(j) /\ j.status = e.status /\ j.stream = e.stream /\ j.persistent = e.persistent
  /\ j.mode = {} /\ j.callbacks = << >> /\ j.pipeline_cmd = e.pipeline_cmd
  /\ j.db = e.db /\ j.watched = e.watched /\ j.touched = e.touched

\* The client that ends.
LEMMA EndedIs ==
  ASSUME NEW Y, Shape(Y), NEW c \in Client, GhostType(Y.ghost), NEW e, e = Y.client[c], SockType(e),
         e.mode \in {{}, {"MULTI"}}, NEW V, Ends(Y, V, c), NEW h, Freed(Y.ghost, h, c, e)
  PROVE  \E j : EndsAs(Y, V, c, e, j, h)
<1>b. PICK k2 : k2 = [e EXCEPT !.callbacks = << >>]
  OBVIOUS
<1>j. PICK j : j = BlockOver(k2)
  OBVIOUS
<1>F. PICK F : F = free_reply_callbacks(Y, c)
  OBVIOUS
<1>1. Shape(F) /\ F.client[c] = k2
  BY <1>b, <1>F, FreedClient
<1>2. Alone(F, V, c, j)
  <2>1. V = [F EXCEPT !.client[c] = BlockOver(@)]
    BY <1>F DEF Ended, Ends
  <2> QED
    BY <1>1, <1>j, <2>1 DEF Alone, Shape, WorldFields
<1>3. Altered(Y, V, c, j, h)
  BY <1>2, <1>F, FreedThen DEF Freed
<1>4. SockShape(e) /\ SockFlags(e) /\ SockNotes(e)
  BY DEF SockType
<1>5. /\ SockShape(j) /\ j.status = e.status /\ j.stream = e.stream /\ j.persistent = e.persistent
      /\ j.mode = e.mode \ {"MULTI"} /\ j.callbacks = << >> /\ j.pipeline_cmd = e.pipeline_cmd
      /\ j.db = e.db /\ j.watching = FALSE /\ j.watched = e.watched /\ j.touched = e.touched
  BY <1>4, <1>b, <1>j DEF SockShape, SockFields, BlockOver
<1>6. j.mode = {}
  BY <1>5
<1>7. SockFlags(j)
  BY <1>4, <1>5, <1>6 DEF SockFlags
<1>8. SockNotes(j)
  BY <1>4, <1>5 DEF SockNotes
<1> QED
  BY <1>3, <1>5, <1>6, <1>7, <1>8 DEF SockType, EndsAs

\* A client that holds its stream ends a block.
LEMMA EndedGood ==
  ASSUME NEW U, NEW c \in Client, Good(U, c), NEW k, NEW s, NEW r, At(U, c, k, s, r),
         NEW X, NEW q, Became(U, X, c, s, k, q), ConnType(q), q.open,
         NEW Y, NEW e, NEW g, GhostShape(g), GhostType(g), Altered(X, Y, c, e, g),
         g.drift = U.ghost.drift, OthersNoted(U.ghost, g, c),
         SockType(e), e.stream = k.stream, e.persistent = k.persistent, e.mode = {"MULTI"},
         NotesOK(g, c, e), Explained(g, c, e), DatabaseOK(g, c, e, q),
         c \in g.mixed \/ (~e.watched /\ q.multi = "no" /\ q.watch = "no" /\ ~q.unread),
         NEW V, Ends(Y, V, c)
  PROVE  Well(V, c)
<1>1. Shape(X)
  BY DEF Became
<1>2. Shape(Y) /\ Y.client[c] = e /\ Y.ghost = g
  BY <1>1, AlteredShape
<1>h. PICK h : Freed(g, h, c, e)
  BY DEF Freed
<1>p. PICK j : EndsAs(Y, V, c, e, j, h)
  BY <1>2, <1>h, EndedIs
<1>j. /\ Altered(Y, V, c, j, h)
      /\ SockType(j) /\ j.status = e.status /\ j.stream = e.stream /\ j.persistent = e.persistent
      /\ j.mode = {} /\ j.callbacks = << >> /\ j.pipeline_cmd = e.pipeline_cmd
      /\ j.db = e.db /\ j.watched = e.watched /\ j.touched = e.touched
  BY <1>p DEF EndsAs
<1>3. /\ GhostShape(h) /\ GhostType(h) /\ OthersNoted(g, h, c) /\ h.drift = g.drift
      /\ h.mixed = g.mixed /\ h.unread = g.unread /\ h.blind = g.blind /\ h.spurious = g.spurious
      /\ c \in h.torn <=> c \in g.torn /\ ~(e.pipeline_cmd = << >> /\ c \notin g.mixed)
  BY <1>h, FreedGhostIs
<1>4. Became(U, V, c, s, j, q) /\ V.ghost = h
  <2>1. Altered(X, V, c, j, h)
    BY <1>1, <1>j, AlteredTwice
  <2> QED
    BY <1>3, <2>1, AlteredIs
<1>5. OthersNoted(U.ghost, h, c)
  BY <1>3 DEF OthersNoted
<1>6. NotesOK(h, c, j)
  BY <1>3, <1>j DEF NotesOK, Torn
<1>7. Explained(h, c, j)
  BY <1>3, <1>j DEF Explained, Quiet
<1>8. StreamOK(h, c, j, q)
  <2>1. DatabaseOK(h, c, j, q)
    BY <1>3, <1>j DEF DatabaseOK
  <2>2. CleanOK(h, c, j, q)
    BY <1>3 DEF CleanOK
  <2>3. QueueOK(h, c, j, q)
    BY <1>j DEF QueueOK
  <2>4. WatchOK(h, c, j, q)
    <3>1. c \notin g.mixed => ~j.watched /\ ~j.touched
      BY <1>j DEF SockType, SockFlags
    <3> QED
      BY <1>3, <3>1 DEF WatchOK
  <2> QED
    BY <2>1, <2>2, <2>3, <2>4 DEF StreamOK
<1>9. j.stream = s /\ j.persistent = k.persistent
  BY <1>j DEF At
<1> QED
  BY <1>3, <1>4, <1>5, <1>6, <1>7, <1>8, <1>9, <1>j, BecameGood DEF Well

\* One that does not.
LEMMA EndedApart ==
  ASSUME NEW Y, NEW c \in Client, Good(Y, c), Idle(Y.client[c]), ~Held(Y, c), NEW V, Ends(Y, V, c)
  PROVE  Well(V, c)
<1>e. PICK e : e = Y.client[c]
  OBVIOUS
<1>1. /\ Shape(Y) /\ SockType(e) /\ GhostType(Y.ghost) /\ GhostShape(Y.ghost) /\ e.stream = NoStream
      /\ e.mode = {} /\ ~e.watched /\ NotesOK(Y.ghost, c, e) /\ Explained(Y.ghost, c, e)
  BY <1>e DEF Good, ClientsOK, Held, Idle, Shape, GhostShape
<1>h. PICK h : Freed(Y.ghost, h, c, e)
  BY DEF Freed
<1>p. PICK j : EndsAs(Y, V, c, e, j, h)
  BY <1>1, <1>e, <1>h, EndedIs
<1>j. /\ Altered(Y, V, c, j, h)
      /\ SockType(j) /\ j.status = e.status /\ j.stream = e.stream /\ j.persistent = e.persistent
      /\ j.mode = {} /\ j.callbacks = << >> /\ j.pipeline_cmd = e.pipeline_cmd
      /\ j.db = e.db /\ j.watched = e.watched /\ j.touched = e.touched
  BY <1>p DEF EndsAs
<1>3. /\ GhostShape(h) /\ GhostType(h) /\ OthersNoted(Y.ghost, h, c) /\ h.drift = Y.ghost.drift
      /\ h.mixed = Y.ghost.mixed /\ h.unread = Y.ghost.unread /\ h.blind = Y.ghost.blind
      /\ h.spurious = Y.ghost.spurious
      /\ c \in h.torn <=> c \in Y.ghost.torn /\ ~(e.pipeline_cmd = << >> /\ c \notin Y.ghost.mixed)
  BY <1>1, <1>h, FreedGhostIs
<1>4. /\ Shape(V) /\ V.client = [Y.client EXCEPT ![c] = j] /\ V.conn = Y.conn /\ V.pool = Y.pool
      /\ V.nb_active = Y.nb_active /\ V.faults = Y.faults /\ V.ghost = h
  BY <1>1, <1>3, <1>j DEF Altered, Shape, WorldFields, GhostShape
<1>6. NotesOK(h, c, j)
  BY <1>1, <1>3, <1>j DEF NotesOK, Torn
<1>7. Explained(h, c, j)
  BY <1>1, <1>3, <1>j DEF Explained, Quiet
<1>8. GivesUp(Y, V, c)
  BY <1>1, <1>4, <1>e DEF GivesUp
<1>9. NumbersType(V)
  BY <1>3, <1>4 DEF Good, NumbersType
<1>10. Good(V, c)
  BY <1>1, <1>3, <1>4, <1>6, <1>7, <1>8, <1>9, <1>j, Leaves
<1>11. V.client[c] = j
  BY <1>1, <1>4 DEF Shape
<1> QED
  BY <1>1, <1>10, <1>11, <1>j DEF Well, Idle

\* The command that should have ended the block has failed.
LEMMA EndedFailed ==
  ASSUME NEW W, NEW c \in Client, W.client[c].mode = {"MULTI"}, NEW Y, Fail(W, Y, c), NEW V, Ends(Y, V, c)
  PROVE  Well(V, c)
<1>1. Good(Y, c) /\ Idle(Y.client[c])
  BY DEF Fail
<1>2. CASE ~Held(Y, c)
  BY <1>1, <1>2, EndedApart
<1>3. CASE Held(Y, c)
  <2>1. PICK k, s, r : At(Y, c, k, s, r)
    BY <1>1, <1>3, HeldAt
  <2>2. c \in Y.ghost.mixed /\ k.mode = {"MULTI"}
    BY <1>3, <2>1 DEF Fail, At
  <2>3. /\ GhostShape(Y.ghost) /\ GhostType(Y.ghost) /\ SockType(k) /\ NotesOK(Y.ghost, c, k)
        /\ Explained(Y.ghost, c, k) /\ DatabaseOK(Y.ghost, c, k, r) /\ ConnType(r) /\ r.open /\ Shape(Y)
        /\ Y.client[c] = k
    BY <2>1 DEF At, Shape, GhostShape, StreamOK
  <2>4. Altered(Y, Y, c, k, Y.ghost)
    BY <2>3, SelfAlone, AloneToo
  <2>5. Became(Y, Y, c, s, k, r) /\ OthersNoted(Y.ghost, Y.ghost, c)
    BY <2>1, BecameSelf, SameForAll
  <2> QED
    BY <1>1, <2>1, <2>2, <2>3, <2>4, <2>5, EndedGood
<1> QED
  BY <1>2, <1>3

\* The client when an EXEC was judged, and what was noted of it.
Unwatching(k) == [k EXCEPT !.watched = FALSE, !.touched = FALSE]
Judges(g, h, c, k, reply) == h = Verdict(g, c, k, reply)

LEMMA JudgedIs ==
  ASSUME NEW X, Shape(X), NEW c \in Client, NEW k, k = X.client[c], SockShape(k), NEW reply
  PROVE  Altered(X, Judged(X, c, reply), c, Unwatching(k), Verdict(X.ghost, c, k, reply))
<1>u. PICK u : u = IF reply = "array" /\ k.watched /\ k.touched THEN X.ghost.unguarded \cup {c} ELSE X.ghost.unguarded
  OBVIOUS
<1>s. PICK s : s = IF reply = "nil" /\ ~k.watched THEN X.ghost.spurious \cup {c} ELSE X.ghost.spurious
  OBVIOUS
<1>g. PICK g : g = [X.ghost EXCEPT !.unguarded = u, !.spurious = s]
  OBVIOUS
<1>Y. PICK Y : Y = [X EXCEPT !.ghost = g]
  OBVIOUS
<1>1. Verdict(X.ghost, c, k, reply) = g
  BY <1>u, <1>s, <1>g DEF Verdict, Shape, GhostFields
<1>2. Judged(X, c, reply) = Unwatched(Y, c)
  <2>1. Judged(X, c, reply) = Unwatched([X EXCEPT !.ghost = Verdict(X.ghost, c, X.client[c], reply)], c)
    BY Zenon DEF Judged, Verdict
  <2> QED
    BY <1>1, <1>Y, <2>1, Zenon
<1>3. Shape(Y) /\ Y.client = X.client
  BY <1>Y, <1>g DEF Shape, WorldFields, GhostFields
<1>4. Unwatched(Y, c) = [Y EXCEPT !.client[c] = Unwatching(k)]
  BY <1>3 DEF Unwatched, Unwatching
<1>5. [Y EXCEPT !.client[c] = Unwatching(k)] = [X EXCEPT !.client[c] = Unwatching(k), !.ghost = g]
  BY <1>Y DEF Shape, WorldFields
<1> QED
  BY <1>1, <1>2, <1>4, <1>5 DEF Altered

LEMMA UnwatchingIs ==
  ASSUME NEW k, SockType(k), NEW j, j = Unwatching(k)
  PROVE  /\ SockType(j) /\ j.status = k.status /\ j.stream = k.stream /\ j.persistent = k.persistent
         /\ j.db = k.db /\ j.mode = k.mode /\ j.watching = k.watching /\ j.callbacks = k.callbacks
         /\ j.pipeline_cmd = k.pipeline_cmd /\ ~j.watched /\ ~j.touched
<1>1. SockShape(k) /\ SockFlags(k) /\ SockNotes(k)
  BY DEF SockType
<1>2. /\ SockShape(j) /\ j.status = k.status /\ j.stream = k.stream /\ j.persistent = k.persistent
      /\ j.db = k.db /\ j.mode = k.mode /\ j.watching = k.watching /\ j.callbacks = k.callbacks
      /\ j.pipeline_cmd = k.pipeline_cmd /\ j.watched = FALSE /\ j.touched = FALSE
  BY <1>1 DEF Unwatching, SockShape, SockFields
<1>3. SockFlags(j)
  BY <1>1, <1>2 DEF SockFlags
<1>4. SockNotes(j)
  BY <1>1, <1>2 DEF SockNotes
<1> QED
  BY <1>2, <1>3, <1>4 DEF SockType

LEMMA JudgesIs ==
  ASSUME NEW g, GhostShape(g), GhostType(g), NEW c \in Client, NEW k, NEW reply, NEW h,
         Judges(g, h, c, k, reply), reply = "array" => ~(k.watched /\ k.touched)
  PROVE  /\ GhostShape(h) /\ GhostType(h) /\ OthersNoted(g, h, c) /\ h.drift = g.drift
         /\ h.mixed = g.mixed /\ h.unread = g.unread /\ h.blind = g.blind /\ h.torn = g.torn
         /\ c \in h.spurious <=> c \in g.spurious \/ (reply = "nil" /\ ~k.watched)
<1>1. /\ GhostShape(h) /\ h.drift = g.drift /\ h.mixed = g.mixed /\ h.unread = g.unread
      /\ h.blind = g.blind /\ h.torn = g.torn /\ h.unguarded = g.unguarded
      /\ h.spurious = IF reply = "nil" /\ ~k.watched THEN g.spurious \cup {c} ELSE g.spurious
  BY DEF GhostShape, GhostFields, Judges, Verdict
<1>2. GhostType(h)
  BY <1>1 DEF GhostType
<1>3. OthersNoted(g, h, c)
  BY <1>1 DEF OthersNoted
<1> QED
  BY <1>1, <1>2, <1>3

\* The reply to EXEC was an array and the callbacks do not fit it.
MixedGhost(g, c) == [g EXCEPT !.mixed = @ \cup {c}]
LEMMA MixedGhostIs ==
  ASSUME NEW g, GhostShape(g), GhostType(g), NEW c \in Client, NEW h, h = MixedGhost(g, c)
  PROVE  /\ GhostShape(h) /\ GhostType(h) /\ OthersNoted(g, h, c) /\ h.drift = g.drift
         /\ h.mixed = g.mixed \cup {c} /\ h.unread = g.unread /\ h.blind = g.blind
         /\ h.torn = g.torn /\ h.spurious = g.spurious
<1>1. /\ GhostShape(h) /\ h.drift = g.drift /\ h.mixed = g.mixed \cup {c} /\ h.unread = g.unread
      /\ h.blind = g.blind /\ h.torn = g.torn /\ h.unguarded = g.unguarded /\ h.spurious = g.spurious
  BY DEF GhostShape, GhostFields, MixedGhost
<1>2. GhostType(h)
  BY <1>1 DEF GhostType
<1>3. OthersNoted(g, h, c)
  BY <1>1 DEF OthersNoted
<1> QED
  BY <1>1, <1>2, <1>3

LEMMA MixedAltered ==
  ASSUME NEW X, Shape(X), NEW c \in Client, NEW J, NEW j, NEW g, GhostShape(g), Altered(X, J, c, j, g)
  PROVE  /\ Altered(X, MixedWorld(J, c), c, j, MixedGhost(g, c))
         /\ \A e : Altered(X, [J EXCEPT !.client[c] = e], c, e, g)
<1>1. Shape(J) /\ J.client[c] = j /\ J.ghost = g
  BY AlteredShape
<1>m. PICK m : m = g.mixed \cup {c}
  OBVIOUS
<1>2. MixedWorld(J, c) = [J EXCEPT !.ghost.mixed = m] /\ MixedGhost(g, c) = [g EXCEPT !.mixed = m]
  BY <1>1, <1>m DEF MixedWorld, Shape, MixedGhost, WorldFields, GhostFields, GhostShape
<1>3. [J EXCEPT !.ghost.mixed = m] = [J EXCEPT !.ghost = MixedGhost(g, c)]
  BY <1>1, <1>2 DEF Shape, WorldFields
<1>4. [J EXCEPT !.ghost = MixedGhost(g, c)] = [X EXCEPT !.client[c] = j, !.ghost = MixedGhost(g, c)]
  BY DEF Altered, Shape, WorldFields
<1>5. \A e : [J EXCEPT !.client[c] = e] = [X EXCEPT !.client[c] = e, !.ghost = g]
  BY DEF Altered, Shape, WorldFields
<1> QED
  BY <1>2, <1>3, <1>4, <1>5 DEF Altered

LEMMA ExecMultiIs ==
  ASSUME NEW W, NEW c, NEW V \in ExecMulti(W, c)
  PROVE  \E e \in redis_check_eof(W, c) :
            \/ ~e.ok /\ V = e.w
            \/ e.ok /\ \E x \in Answer(e.w, c, "EXEC") :
                 /\ x.reply = "none" => Ends(x.w, V, c)
                 /\ x.reply \in {"nil", "err"} => Ends(Judged(x.w, c, x.reply), V, c)
                 /\ x.reply = "array" /\ c \in W.ghost.torn =>
                       Ends(MixedWorld(Judged(x.w, c, "array"), c), V, c)
                 /\ x.reply = "array" /\ c \notin W.ghost.torn =>
                       Ends([Judged(x.w, c, "array") EXCEPT
                               !.client[c] = Effects(@, e.w.client[c].callbacks)], V, c)
<1>1. PICK e \in redis_check_eof(W, c) :
        V \in IF ~e.ok THEN {e.w}
              ELSE {LET k == e.w.client[c]
                        V0 == CASE x.reply = "none" -> x.w
                                [] x.reply \in {"nil", "err"} -> Judged(x.w, c, x.reply)
                                [] x.reply = "array" ->
                                     LET J == Judged(x.w, c, "array")
                                     IN  IF c \in W.ghost.torn
                                         THEN [J EXCEPT !.ghost.mixed = @ \cup {c}]
                                         ELSE [J EXCEPT !.client[c] = Effects(@, k.callbacks)]
                    IN  [free_reply_callbacks(V0, c) EXCEPT !.client[c] = BlockOver(@)] :
                       x \in Answer(e.w, c, "EXEC")}
  BY Zenon DEF ExecMulti
<1>2. CASE ~e.ok
  <2>1. V = e.w
    BY <1>1, <1>2, Zenon
  <2> QED
    BY <1>2, <2>1, Zenon
<1>3. CASE e.ok
  <2>1. PICK x \in Answer(e.w, c, "EXEC") :
        V = LET k == e.w.client[c]
                V0 == CASE x.reply = "none" -> x.w
                        [] x.reply \in {"nil", "err"} -> Judged(x.w, c, x.reply)
                        [] x.reply = "array" ->
                             LET J == Judged(x.w, c, "array")
                             IN  IF c \in W.ghost.torn
                                 THEN [J EXCEPT !.ghost.mixed = @ \cup {c}]
                                 ELSE [J EXCEPT !.client[c] = Effects(@, k.callbacks)]
            IN  [free_reply_callbacks(V0, c) EXCEPT !.client[c] = BlockOver(@)]
    BY <1>1, <1>3, Zenon
  <2>2. x.reply = "none" => Ends(x.w, V, c)
    BY <2>1, Zenon DEF Ends, Ended
  <2>3. x.reply \in {"nil", "err"} => Ends(Judged(x.w, c, x.reply), V, c)
    BY <2>1, Zenon DEF Ends, Ended
  <2>4. x.reply = "array" /\ c \in W.ghost.torn => Ends(MixedWorld(Judged(x.w, c, "array"), c), V, c)
    BY <2>1, Zenon DEF Ends, Ended, MixedWorld
  <2>5. x.reply = "array" /\ c \notin W.ghost.torn =>
          Ends([Judged(x.w, c, "array") EXCEPT !.client[c] = Effects(@, e.w.client[c].callbacks)], V, c)
    BY <2>1, Zenon DEF Ends, Ended
  <2> QED
    BY <1>3, <2>2, <2>3, <2>4, <2>5, Zenon
<1> QED
  BY <1>2, <1>3, Zenon

\* EXEC was answered: what the client may be before its block ends.
LEMMA ExecEnds ==
  ASSUME NEW W, NEW c \in Client, Open(W, c), W.client[c].mode = {"MULTI"},
         NEW X, NEW k, NEW s, NEW r, NEW q, NEW reply, AnswerAt(W, X, c, k, s, r, "EXEC", reply, q),
         NEW Y, NEW e, NEW g, GhostShape(g), GhostType(g), Altered(X, Y, c, e, g),
         g.drift = W.ghost.drift, OthersNoted(W.ghost, g, c),
         SockType(e), e.stream = k.stream, e.persistent = k.persistent, e.mode = {"MULTI"},
         NotesOK(g, c, e), Explained(g, c, e), DatabaseOK(g, c, e, q), ~e.watched,
         NEW V, Ends(Y, V, c)
  PROVE  Well(V, c)
<1>1. Good(W, c) /\ At(W, c, k, s, r) /\ Served1(r, "EXEC", q, reply) /\ Became(W, X, c, s, k, q) /\ ~r.unread
  BY DEF AnswerAt, RepliedAs, Open
<1>2. ConnType(r) /\ r.open
  BY <1>1 DEF At
<1>3. ConnType(q) /\ q.open /\ q.multi = "no" /\ q.watch = "no" /\ ~q.unread
  BY <1>1, <1>2, ServeExec
<1> QED
  BY <1>1, <1>3, EndedGood

\* What is known when EXEC was answered.
LEMMA ExecJudged ==
  ASSUME NEW W, NEW c \in Client, Open(W, c), W.client[c].mode = {"MULTI"},
         NEW X, NEW k, NEW s, NEW r, NEW q, NEW reply, r.up, AnswerAt(W, X, c, k, s, r, "EXEC", reply, q),
         NEW g, Judges(W.ghost, g, c, k, reply)
  PROVE  /\ GhostShape(g) /\ GhostType(g) /\ OthersNoted(W.ghost, g, c) /\ g.drift = W.ghost.drift
         /\ g.mixed = W.ghost.mixed /\ g.unread = W.ghost.unread /\ g.blind = W.ghost.blind
         /\ g.torn = W.ghost.torn /\ Explained(g, c, k) /\ NotesOK(g, c, k)
<1>1. /\ At(W, c, k, s, r) /\ Served1(r, "EXEC", q, reply) /\ ~r.unread /\ c \notin W.ghost.mixed
  BY DEF AnswerAt, RepliedAs, Open
<1>2. /\ ConnType(r) /\ GhostType(W.ghost) /\ GhostShape(W.ghost) /\ SockType(k) /\ WatchOK(W.ghost, c, k, r)
      /\ Explained(W.ghost, c, k) /\ NotesOK(W.ghost, c, k)
  BY <1>1 DEF At, StreamOK, Shape, GhostShape
<1>3. /\ k.touched => r.watch = "dirty"
      /\ ~k.watched /\ ~k.persistent => r.watch = "no"
  BY <1>1, <1>2 DEF WatchOK
<1>4. /\ reply = "array" => r.watch # "dirty"
      /\ reply = "nil" => r.watch = "dirty"
  BY <1>1, <1>2, ServeExec
<1>5. reply = "array" => ~(k.watched /\ k.touched)
  BY <1>3, <1>4
<1>6. /\ GhostShape(g) /\ GhostType(g) /\ OthersNoted(W.ghost, g, c) /\ g.drift = W.ghost.drift
      /\ g.mixed = W.ghost.mixed /\ g.unread = W.ghost.unread /\ g.blind = W.ghost.blind /\ g.torn = W.ghost.torn
      /\ c \in g.spurious <=> c \in W.ghost.spurious \/ (reply = "nil" /\ ~k.watched)
  BY <1>2, <1>5, JudgesIs
<1>7. k.persistent \in BOOLEAN
  BY <1>2 DEF SockType, SockFlags
<1>8. Explained(g, c, k)
  BY <1>2, <1>3, <1>4, <1>6, <1>7 DEF Explained, Quiet
<1>9. NotesOK(g, c, k)
  BY <1>2, <1>6 DEF NotesOK
<1> QED
  BY <1>6, <1>8, <1>9

\* The notes of a block stay what they were.
LEMMA SameNotes ==
  ASSUME NEW g, NEW h, NEW c, NEW k, NEW e, e.mode = k.mode, e.callbacks = k.callbacks,
         e.pipeline_cmd = k.pipeline_cmd, e.persistent = k.persistent,
         h.torn = g.torn, h.unread = g.unread, h.spurious = g.spurious,
         h.mixed = g.mixed \/ (h.mixed = g.mixed \cup {c} /\ c \in g.torn)
  PROVE  /\ NotesOK(g, c, k) => NotesOK(h, c, e)
         /\ Explained(g, c, k) => Explained(h, c, e)
<1>1. NotesOK(g, c, k) => NotesOK(h, c, e)
  BY DEF NotesOK, Torn
<1>2. Explained(g, c, k) => Explained(h, c, e)
  BY DEF Explained, Quiet
<1> QED
  BY <1>1, <1>2

LEMMA ServeRefused ==
  ASSUME NEW r, ConnType(r), NEW q, NEW reply, Served1(r, "EXEC", q, reply), reply # "array"
  PROVE  q.db = r.db /\ q.up = r.up
  BY ServeExec

LEMMA ServeTaken ==
  ASSUME NEW r, ConnType(r), NEW q, NEW reply, Served1(r, "EXEC", q, reply), reply = "array"
  PROVE  /\ r.multi = "queue" /\ q.up = r.up
         /\ q.db = IF Contains(r.queue, "select") THEN 1 ELSE r.db
  BY ServeExec

\* EXEC was refused.
LEMMA ExecRefused ==
  ASSUME NEW W, NEW c \in Client, Open(W, c), W.client[c].mode = {"MULTI"},
         NEW X, NEW k, NEW s, NEW r, NEW q, NEW reply, r.up, AnswerAt(W, X, c, k, s, r, "EXEC", reply, q),
         reply # "array", NEW V, Ends(Judged(X, c, reply), V, c)
  PROVE  Well(V, c)
<1>1. /\ At(W, c, k, s, r) /\ Served1(r, "EXEC", q, reply) /\ X.client[c] = k /\ Shape(X) /\ X.ghost = W.ghost
  BY DEF AnswerAt, RepliedAs
<1>2. SockType(k) /\ W.client[c] = k /\ DatabaseOK(W.ghost, c, k, r) /\ ConnType(r)
  BY <1>1 DEF At, StreamOK
<1>g. PICK g : Judges(W.ghost, g, c, k, reply)
  BY DEF Judges
<1>e. PICK e : e = Unwatching(k)
  OBVIOUS
<1>Y. PICK Y : Y = Judged(X, c, reply)
  OBVIOUS
<1>3. Altered(X, Y, c, e, g)
  <2>1. SockShape(k)
    BY <1>2 DEF SockType
  <2>2. Altered(X, Judged(X, c, reply), c, Unwatching(k), Verdict(X.ghost, c, k, reply))
    BY <1>1, <2>1, JudgedIs
  <2> QED
    BY <1>1, <1>g, <1>e, <1>Y, <2>2, Zenon DEF Judges
<1>4. /\ GhostShape(g) /\ GhostType(g) /\ OthersNoted(W.ghost, g, c) /\ g.drift = W.ghost.drift
      /\ g.mixed = W.ghost.mixed /\ g.unread = W.ghost.unread /\ g.blind = W.ghost.blind
      /\ g.torn = W.ghost.torn /\ Explained(g, c, k) /\ NotesOK(g, c, k)
  BY <1>g, ExecJudged, Zenon
<1>5. /\ SockType(e) /\ e.status = k.status /\ e.stream = k.stream /\ e.persistent = k.persistent
      /\ e.db = k.db /\ e.mode = k.mode /\ e.watching = k.watching /\ e.callbacks = k.callbacks
      /\ e.pipeline_cmd = k.pipeline_cmd /\ ~e.watched /\ ~e.touched
  BY <1>2, <1>e, UnwatchingIs
<1>6. NotesOK(g, c, e) /\ Explained(g, c, e)
  <2>1. NotesOK(g, c, k) => NotesOK(g, c, e)
    BY <1>5 DEF NotesOK, Torn
  <2>2. Explained(g, c, k) => Explained(g, c, e)
    BY <1>5 DEF Explained
  <2> QED
    BY <1>4, <2>1, <2>2
<1>7. q.db = r.db /\ q.up = r.up
  <2>1. ConnType(r) /\ Served1(r, "EXEC", q, reply)
    BY <1>1, <1>2
  <2> QED
    BY <2>1, ServeRefused
<1>8. DatabaseOK(g, c, e, q)
  BY <1>2, <1>4, <1>5, <1>7 DEF DatabaseOK
<1>9. e.mode = {"MULTI"}
  BY <1>2, <1>5
<1>10. Ends(Y, V, c)
  BY <1>Y
<1> QED
  BY <1>3, <1>4, <1>5, <1>6, <1>8, <1>9, <1>10, ExecEnds

\* EXEC was run, and the client's callbacks are not those of the block.
LEMMA ExecTorn ==
  ASSUME NEW W, NEW c \in Client, Open(W, c), W.client[c].mode = {"MULTI"}, c \in W.ghost.torn,
         NEW X, NEW k, NEW s, NEW r, NEW q, NEW reply, r.up, AnswerAt(W, X, c, k, s, r, "EXEC", reply, q),
         NEW V, Ends(MixedWorld(Judged(X, c, reply), c), V, c)
  PROVE  Well(V, c)
<1>1. /\ At(W, c, k, s, r) /\ Served1(r, "EXEC", q, reply) /\ X.client[c] = k /\ Shape(X) /\ X.ghost = W.ghost
  BY DEF AnswerAt, RepliedAs
<1>2. SockType(k) /\ W.client[c] = k
  BY <1>1 DEF At
<1>g. PICK g : Judges(W.ghost, g, c, k, reply)
  BY DEF Judges
<1>h. PICK h : h = MixedGhost(g, c)
  OBVIOUS
<1>e. PICK e : e = Unwatching(k)
  OBVIOUS
<1>J. PICK J : J = Judged(X, c, reply)
  OBVIOUS
<1>Y. PICK Y : Y = MixedWorld(J, c)
  OBVIOUS
<1>3. Altered(X, J, c, e, g)
  <2>1. SockShape(k)
    BY <1>2 DEF SockType
  <2>2. Altered(X, Judged(X, c, reply), c, Unwatching(k), Verdict(X.ghost, c, k, reply))
    BY <1>1, <2>1, JudgedIs
  <2> QED
    BY <1>1, <1>g, <1>e, <1>J, <2>2, Zenon DEF Judges
<1>4. /\ GhostShape(g) /\ GhostType(g) /\ OthersNoted(W.ghost, g, c) /\ g.drift = W.ghost.drift
      /\ g.mixed = W.ghost.mixed /\ g.unread = W.ghost.unread /\ g.blind = W.ghost.blind
      /\ g.torn = W.ghost.torn /\ Explained(g, c, k) /\ NotesOK(g, c, k)
  BY <1>g, ExecJudged, Zenon
<1>5. /\ GhostShape(h) /\ GhostType(h) /\ OthersNoted(g, h, c) /\ h.drift = g.drift
      /\ h.mixed = g.mixed \cup {c} /\ h.unread = g.unread /\ h.blind = g.blind
      /\ h.torn = g.torn /\ h.spurious = g.spurious
  BY <1>4, <1>h, MixedGhostIs
<1>6. /\ SockType(e) /\ e.status = k.status /\ e.stream = k.stream /\ e.persistent = k.persistent
      /\ e.db = k.db /\ e.mode = k.mode /\ e.watching = k.watching /\ e.callbacks = k.callbacks
      /\ e.pipeline_cmd = k.pipeline_cmd /\ ~e.watched /\ ~e.touched
  BY <1>2, <1>e, UnwatchingIs
<1>7. NotesOK(h, c, e) /\ Explained(h, c, e)
  BY <1>4, <1>5, <1>6, SameNotes
<1>8. OthersNoted(W.ghost, h, c)
  BY <1>4, <1>5 DEF OthersNoted
<1>9. Altered(X, Y, c, e, h)
  <2>1. Altered(X, MixedWorld(J, c), c, e, MixedGhost(g, c))
    BY <1>1, <1>3, <1>4, MixedAltered
  <2> QED
    BY <2>1, <1>Y, <1>h, Zenon
<1>10. DatabaseOK(h, c, e, q)
  BY <1>5 DEF DatabaseOK
<1>11. Ends(Y, V, c)
  BY <1>Y, <1>J
<1>12. e.mode = {"MULTI"} /\ h.drift = W.ghost.drift
  BY <1>2, <1>4, <1>5, <1>6
<1> QED
  BY <1>5, <1>6, <1>7, <1>8, <1>9, <1>10, <1>11, <1>12, ExecEnds

\* EXEC was run: each reply has its callback.
LEMMA ExecRun ==
  ASSUME NEW W, NEW c \in Client, Open(W, c), W.client[c].mode = {"MULTI"}, c \notin W.ghost.torn,
         NEW X, NEW k, NEW s, NEW r, NEW q, NEW reply, r.up, reply = "array",
         AnswerAt(W, X, c, k, s, r, "EXEC", reply, q),
         NEW V, Ends([Judged(X, c, reply) EXCEPT !.client[c] = Effects(@, W.client[c].callbacks)], V, c)
  PROVE  Well(V, c)
<1>1. /\ At(W, c, k, s, r) /\ Served1(r, "EXEC", q, reply) /\ X.client[c] = k /\ Shape(X) /\ X.ghost = W.ghost
      /\ c \notin W.ghost.mixed
  BY DEF AnswerAt, RepliedAs, Open
<1>2. SockType(k) /\ W.client[c] = k /\ DatabaseOK(W.ghost, c, k, r) /\ ConnType(r) /\ QueueOK(W.ghost, c, k, r)
  BY <1>1 DEF At, StreamOK
<1>g. PICK g : Judges(W.ghost, g, c, k, reply)
  BY DEF Judges
<1>u. PICK u : u = Unwatching(k)
  OBVIOUS
<1>e. PICK e : e = Effects(u, k.callbacks)
  OBVIOUS
<1>J. PICK J : J = Judged(X, c, reply)
  OBVIOUS
<1>Y. PICK Y : Y = [J EXCEPT !.client[c] = e]
  OBVIOUS
<1>3. Altered(X, J, c, u, g)
  <2>1. SockShape(k)
    BY <1>2 DEF SockType
  <2>2. Altered(X, Judged(X, c, reply), c, Unwatching(k), Verdict(X.ghost, c, k, reply))
    BY <1>1, <2>1, JudgedIs
  <2> QED
    BY <1>1, <1>g, <1>u, <1>J, <2>2, Zenon DEF Judges
<1>4. /\ GhostShape(g) /\ GhostType(g) /\ OthersNoted(W.ghost, g, c) /\ g.drift = W.ghost.drift
      /\ g.mixed = W.ghost.mixed /\ g.unread = W.ghost.unread /\ g.blind = W.ghost.blind
      /\ g.torn = W.ghost.torn /\ Explained(g, c, k) /\ NotesOK(g, c, k)
  BY <1>g, ExecJudged, Zenon
<1>5. /\ SockType(u) /\ u.status = k.status /\ u.stream = k.stream /\ u.persistent = k.persistent
      /\ u.db = k.db /\ u.mode = k.mode /\ u.watching = k.watching /\ u.callbacks = k.callbacks
      /\ u.pipeline_cmd = k.pipeline_cmd /\ ~u.watched /\ ~u.touched
  BY <1>2, <1>u, UnwatchingIs
<1>6. /\ r.multi = "queue" /\ q.up = r.up
      /\ q.db = IF Contains(r.queue, "select") THEN 1 ELSE r.db
  <2>1. ConnType(r) /\ Served1(r, "EXEC", q, reply) /\ reply = "array"
    BY <1>1, <1>2
  <2> QED
    BY <2>1, ServeTaken
<1>7. k.callbacks = r.queue /\ k.callbacks \in Seq(Command \ {"watch"})
  BY <1>2, <1>6 DEF QueueOK, ConnType, ConnQueue
<1>8. /\ SockType(e) /\ e.status = u.status /\ e.stream = u.stream /\ e.persistent = u.persistent
      /\ e.mode = u.mode /\ e.callbacks = u.callbacks /\ e.pipeline_cmd = u.pipeline_cmd
      /\ ~e.watched /\ e.db = IF Contains(k.callbacks, "select") THEN 1 ELSE u.db
  BY <1>5, <1>7, <1>e, EffectsGood
<1>9. e.mode = k.mode /\ e.callbacks = k.callbacks /\ e.pipeline_cmd = k.pipeline_cmd /\ e.persistent = k.persistent
      /\ e.stream = k.stream /\ e.status = k.status
  BY <1>5, <1>8
<1>10. NotesOK(g, c, e) /\ Explained(g, c, e)
  BY <1>4, <1>9, SameNotes
<1>11. Altered(X, Y, c, e, g)
  BY <1>1, <1>3, <1>4, <1>Y, MixedAltered
<1>12. DatabaseOK(g, c, e, q)
  <2>1. e.db = IF Contains(k.callbacks, "select") THEN 1 ELSE k.db
    BY <1>5, <1>8
  <2>2. q.db = IF Contains(k.callbacks, "select") THEN 1 ELSE r.db
    BY <1>6, <1>7
  <2> QED
    BY <1>2, <1>4, <1>6, <1>9, <2>1, <2>2 DEF DatabaseOK
<1>13. Ends(Y, V, c)
  <2>1. J.client[c] = u
    BY <1>1, <1>3, <1>4, AlteredShape
  <2>2. [J EXCEPT !.client[c] = Effects(J.client[c], W.client[c].callbacks)] = Y
    BY <1>2, <2>1, <1>e, <1>Y
  <2> QED
    BY <1>J, <2>2, Zenon
<1>14. e.mode = {"MULTI"}
  BY <1>2, <1>9
<1> QED
  BY <1>4, <1>8, <1>9, <1>10, <1>11, <1>12, <1>13, <1>14, ExecEnds

\* EXEC of a MULTI block, once the connection has been found alive.
LEMMA ExecSentGood ==
  ASSUME NEW W, NEW c \in Client, Open(W, c), W.client[c].mode = {"MULTI"}, NEW V,
         NEW x \in Request(W, c, "EXEC"),
         /\ x.reply = "none" => Ends(x.w, V, c)
         /\ x.reply \in {"nil", "err"} => Ends(Judged(x.w, c, x.reply), V, c)
         /\ x.reply = "array" /\ c \in W.ghost.torn =>
               Ends(MixedWorld(Judged(x.w, c, "array"), c), V, c)
         /\ x.reply = "array" /\ c \notin W.ghost.torn =>
               Ends([Judged(x.w, c, "array") EXCEPT !.client[c] = Effects(@, W.client[c].callbacks)], V, c)
  PROVE  Well(V, c)
<1>2. CASE x.reply = "none" /\ Fail(W, x.w, c)
  BY <1>2, EndedFailed
<1>3. CASE \E U, k, s, r, q : Passed(W, U, c) /\ AnswerAt(U, x.w, c, k, s, r, "EXEC", x.reply, q)
  <2>1. PICK U, k, s, r, q : Passed(W, U, c) /\ AnswerAt(U, x.w, c, k, s, r, "EXEC", x.reply, q)
    BY <1>3
  <2>2. At(U, c, k, s, r) /\ Served1(r, "EXEC", q, x.reply)
    BY <2>1 DEF AnswerAt, RepliedAs
  <2>3. U = W /\ r.up
    BY <2>1, <2>2, PassedMode
  <2>4. AnswerAt(W, x.w, c, k, s, r, "EXEC", x.reply, q) /\ ConnType(r)
    BY <2>1, <2>2, <2>3 DEF At
  <2>5. x.reply \in {"array", "nil", "err"}
    BY <2>2, <2>4, ServeExec
  <2>6. CASE x.reply # "array"
    <3>1. Ends(Judged(x.w, c, x.reply), V, c)
      BY <2>5, <2>6
    <3> QED
      BY <2>3, <2>4, <2>6, <3>1, ExecRefused
  <2>7. CASE x.reply = "array" /\ c \in W.ghost.torn
    <3>1. Ends(MixedWorld(Judged(x.w, c, x.reply), c), V, c)
      BY <2>7
    <3> QED
      BY <2>3, <2>4, <2>7, <3>1, ExecTorn
  <2>8. CASE x.reply = "array" /\ c \notin W.ghost.torn
    <3>1. Ends([Judged(x.w, c, x.reply) EXCEPT !.client[c] = Effects(@, W.client[c].callbacks)], V, c)
      BY <2>8
    <3> QED
      BY <2>3, <2>4, <2>8, <3>1, ExecRun
  <2> QED
    BY <2>6, <2>7, <2>8
<1>4. "EXEC" \in Sent
  BY DEF Sent
<1> QED
  BY <1>2, <1>3, <1>4, RequestAt

LEMMA ExecMultiGood ==
  ASSUME NEW W, NEW c \in Client, Open(W, c), W.client[c].mode = {"MULTI"}, NEW V \in ExecMulti(W, c)
  PROVE  Well(V, c)
<1>1. PICK e \in redis_check_eof(W, c) :
            \/ ~e.ok /\ V = e.w
            \/ e.ok /\ \E x \in Answer(e.w, c, "EXEC") :
                 /\ x.reply = "none" => Ends(x.w, V, c)
                 /\ x.reply \in {"nil", "err"} => Ends(Judged(x.w, c, x.reply), V, c)
                 /\ x.reply = "array" /\ c \in W.ghost.torn =>
                       Ends(MixedWorld(Judged(x.w, c, "array"), c), V, c)
                 /\ x.reply = "array" /\ c \notin W.ghost.torn =>
                       Ends([Judged(x.w, c, "array") EXCEPT
                               !.client[c] = Effects(@, e.w.client[c].callbacks)], V, c)
  BY ExecMultiIs
<1>2. IF e.ok THEN Passed(W, e.w, c) ELSE Fail(W, e.w, c) /\ ~Held(e.w, c)
  BY EofGood DEF Open
<1>3. CASE ~e.ok
  <2>1. V = e.w /\ Fail(W, e.w, c)
    BY <1>1, <1>2, <1>3
  <2> QED
    BY <2>1, FailIsWell
<1>4. CASE e.ok
  <2>1. PICK x \in Answer(e.w, c, "EXEC") :
                 /\ x.reply = "none" => Ends(x.w, V, c)
                 /\ x.reply \in {"nil", "err"} => Ends(Judged(x.w, c, x.reply), V, c)
                 /\ x.reply = "array" /\ c \in W.ghost.torn =>
                       Ends(MixedWorld(Judged(x.w, c, "array"), c), V, c)
                 /\ x.reply = "array" /\ c \notin W.ghost.torn =>
                       Ends([Judged(x.w, c, "array") EXCEPT
                               !.client[c] = Effects(@, e.w.client[c].callbacks)], V, c)
    BY <1>1, <1>4
  <2>2. x \in Request(W, c, "EXEC")
    BY <1>4, <2>1 DEF Request
  <2>3. e.w = W
    BY <1>2, <1>4 DEF Passed
  <2> QED
    BY <2>1, <2>2, <2>3, ExecSentGood
<1> QED
  BY <1>3, <1>4

---------------------------------------------------------------------------
(* EXEC of a pipeline: what the server makes of the commands, what the object*)
(* reads of the answers, and that both come to the same.                   *)

\* The connection after each command of a pipeline, the first n of them.
Answering(f, r, cmds, n) ==
  f = [i \in 0..n |-> IF i = 0 THEN r ELSE Serve(f[i - 1], cmds[i]).r]

LEMMA AnsweringExists == \A r, cmds : \A n \in Nat : \E f : Answering(f, r, cmds, n)
<1> SUFFICES ASSUME NEW r, NEW cmds
             PROVE  \A n \in Nat : \E f : Answering(f, r, cmds, n)
  OBVIOUS
<1> DEFINE S == {n \in Nat : \E f : Answering(f, r, cmds, n)}
<1>1. 0 \in S
  <2>1. Answering([i \in 0..0 |-> r], r, cmds, 0)
    BY DEF Answering
  <2> QED
    BY <2>1
<1>2. ASSUME NEW n \in S
      PROVE  n + 1 \in S
  <2>0. n \in Nat
    OBVIOUS
  <2>1. PICK f : Answering(f, r, cmds, n)
    OBVIOUS
  <2>2. PICK g : g = [i \in 0..(n + 1) |-> IF i <= n THEN f[i] ELSE Serve(f[n], cmds[n + 1]).r]
    OBVIOUS
  <2>3. \A i \in 0..n : g[i] = f[i]
    BY <2>0, <2>2
  <2>4. g[n + 1] = Serve(f[n], cmds[n + 1]).r
    BY <2>0, <2>2
  <2>5. \A i \in 0..(n + 1) : g[i] = IF i = 0 THEN r ELSE Serve(g[i - 1], cmds[i]).r
    <3> SUFFICES ASSUME NEW i \in 0..(n + 1)
                 PROVE  g[i] = IF i = 0 THEN r ELSE Serve(g[i - 1], cmds[i]).r
      OBVIOUS
    <3>1. CASE i = n + 1
      <4>1. i - 1 = n /\ g[n] = f[n] /\ i # 0
        BY <2>0, <2>3, <3>1
      <4> QED
        BY <2>4, <3>1, <4>1
    <3>2. CASE i \in 1..n
      <4>1. i - 1 \in 0..n /\ i \in 0..n /\ i # 0
        BY <2>0, <3>2
      <4>2. f[i] = IF i = 0 THEN r ELSE Serve(f[i - 1], cmds[i]).r
        BY <2>1, <4>1 DEF Answering
      <4> QED
        BY <2>3, <4>1, <4>2
    <3>3. CASE i = 0
      <4>1. 0 \in 0..n
        BY <2>0
      <4>2. f[0] = r
        BY <2>1, <4>1 DEF Answering
      <4> QED
        BY <2>3, <3>3, <4>1, <4>2
    <3> QED
      BY <2>0, <3>1, <3>2, <3>3
  <2>6. g = [i \in 0..(n + 1) |-> g[i]]
    BY <2>2
  <2> HIDE <2>2
  <2>7. g = [i \in 0..(n + 1) |-> IF i = 0 THEN r ELSE Serve(g[i - 1], cmds[i]).r]
    BY <2>5, <2>6, Zenon
  <2>8. Answering(g, r, cmds, n + 1)
    BY <2>7 DEF Answering
  <2> QED
    BY <2>0, <2>8
<1>3. S \subseteq Nat
  OBVIOUS
<1> HIDE DEF S
<1>4. S = Nat
  BY <1>1, <1>2, <1>3, NumbersInduction
<1> QED
  BY <1>4 DEF S

LEMMA ServedAre ==
  ASSUME NEW r, NEW S, NEW cmds \in Seq(S)
  PROVE  \E f : /\ Answering(f, r, cmds, Len(cmds)) /\ Served(r, cmds).r = f[Len(cmds)]
               /\ \A i \in 1..Len(cmds) : Served(r, cmds).replies[i] = Serve(f[i - 1], cmds[i]).reply
<1> DEFINE after == CHOOSE f : f = [i \in 0..Len(cmds) |-> IF i = 0 THEN r ELSE Serve(f[i - 1], cmds[i]).r]
<1>1. \E f : Answering(f, r, cmds, Len(cmds))
  <2>1. Len(cmds) \in Nat
    OBVIOUS
  <2> QED
    BY <2>1, AnsweringExists
<1>2. Answering(after, r, cmds, Len(cmds))
  BY <1>1, Zenon DEF Answering
<1>3. Served(r, cmds) = [r |-> after[Len(cmds)],
                         replies |-> [i \in 1..Len(cmds) |-> Serve(after[i - 1], cmds[i]).reply]]
  BY Zenon DEF Served
<1> HIDE DEF after
<1>z. PICK q : q = after[Len(cmds)]
  OBVIOUS
<1>y. PICK replies : replies = [i \in 1..Len(cmds) |-> Serve(after[i - 1], cmds[i]).reply]
  OBVIOUS
<1>v. Served(r, cmds) = [r |-> q, replies |-> replies]
  BY <1>3, <1>z, <1>y, Zenon
<1>4. Served(r, cmds).r = after[Len(cmds)]
  BY <1>v, <1>z
<1>5. Served(r, cmds).replies = [i \in 1..Len(cmds) |-> Serve(after[i - 1], cmds[i]).reply]
  <2>1. Served(r, cmds).replies = replies
    BY <1>v
  <2> QED
    BY <2>1, <1>y, Zenon
<1>6. \A i \in 1..Len(cmds) : Served(r, cmds).replies[i] = Serve(after[i - 1], cmds[i]).reply
  BY <1>5, Zenon
<1> QED
  BY <1>2, <1>4, <1>6

\* What the client makes of one answer.
Collect(B, c, cmd, reply) ==
  IF cmd = "EXEC" THEN Judged(B, c, reply)
  ELSE IF reply = "ok" THEN [B EXCEPT !.client[c] = Effect(@, cmd)] ELSE B

Collecting(f, X, c, cmds, replies, n) ==
  f = [i \in 0..n |-> IF i = 0 THEN X ELSE Collect(f[i - 1], c, cmds[i], replies[i])]

\* SELECT is run in the MULTI of a pipeline.
BlindWorld(W, c, cmds) ==
  [W EXCEPT !.ghost.blind = IF \E i \in DOMAIN cmds : cmds[i] = "select" /\ InMulti(cmds, i)
                            THEN @ \cup {c} ELSE @]

LEMMA CollectingExists == \A X, c, cmds, replies : \A n \in Nat : \E f : Collecting(f, X, c, cmds, replies, n)
<1> SUFFICES ASSUME NEW X, NEW c, NEW cmds, NEW replies
             PROVE  \A n \in Nat : \E f : Collecting(f, X, c, cmds, replies, n)
  OBVIOUS
<1> DEFINE S == {n \in Nat : \E f : Collecting(f, X, c, cmds, replies, n)}
<1>1. 0 \in S
  <2>1. Collecting([i \in 0..0 |-> X], X, c, cmds, replies, 0)
    BY DEF Collecting
  <2> QED
    BY <2>1
<1>2. ASSUME NEW n \in S
      PROVE  n + 1 \in S
  <2>0. n \in Nat
    OBVIOUS
  <2>1. PICK f : Collecting(f, X, c, cmds, replies, n)
    OBVIOUS
  <2>2. PICK g : g = [i \in 0..(n + 1) |-> IF i <= n THEN f[i] ELSE Collect(f[n], c, cmds[n + 1], replies[n + 1])]
    OBVIOUS
  <2>3. \A i \in 0..n : g[i] = f[i]
    BY <2>0, <2>2
  <2>4. g[n + 1] = Collect(f[n], c, cmds[n + 1], replies[n + 1])
    BY <2>0, <2>2
  <2>5. \A i \in 0..(n + 1) : g[i] = IF i = 0 THEN X ELSE Collect(g[i - 1], c, cmds[i], replies[i])
    <3> SUFFICES ASSUME NEW i \in 0..(n + 1)
                 PROVE  g[i] = IF i = 0 THEN X ELSE Collect(g[i - 1], c, cmds[i], replies[i])
      OBVIOUS
    <3>1. CASE i = n + 1
      <4>1. i - 1 = n /\ g[n] = f[n] /\ i # 0
        BY <2>0, <2>3, <3>1
      <4> QED
        BY <2>4, <3>1, <4>1
    <3>2. CASE i \in 1..n
      <4>1. i - 1 \in 0..n /\ i \in 0..n /\ i # 0
        BY <2>0, <3>2
      <4>2. f[i] = IF i = 0 THEN X ELSE Collect(f[i - 1], c, cmds[i], replies[i])
        BY <2>1, <4>1 DEF Collecting
      <4> QED
        BY <2>3, <4>1, <4>2
    <3>3. CASE i = 0
      <4>1. 0 \in 0..n
        BY <2>0
      <4>2. f[0] = X
        BY <2>1, <4>1 DEF Collecting
      <4> QED
        BY <2>3, <3>3, <4>1, <4>2
    <3> QED
      BY <2>0, <3>1, <3>2, <3>3
  <2>6. g = [i \in 0..(n + 1) |-> g[i]]
    BY <2>2
  <2> HIDE <2>2
  <2>7. g = [i \in 0..(n + 1) |-> IF i = 0 THEN X ELSE Collect(g[i - 1], c, cmds[i], replies[i])]
    BY <2>5, <2>6, Zenon
  <2>8. Collecting(g, X, c, cmds, replies, n + 1)
    BY <2>7 DEF Collecting
  <2> QED
    BY <2>0, <2>8
<1>3. S \subseteq Nat
  OBVIOUS
<1> HIDE DEF S
<1>4. S = Nat
  BY <1>1, <1>2, <1>3, NumbersInduction
<1> QED
  BY <1>4 DEF S

LEMMA CollectedAre ==
  ASSUME NEW W, NEW c, NEW cmds, NEW replies, NEW n \in Nat
  PROVE  \E f : /\ Collecting(f, BlindWorld(W, c, cmds), c, cmds, replies, n)
               /\ Collected(W, c, cmds, replies, n) = f[n]
<1>X. PICK X : X = BlindWorld(W, c, cmds)
  OBVIOUS
<1> DEFINE after == CHOOSE f : f = [i \in 0..n |-> IF i = 0 THEN BlindWorld(W, c, cmds) ELSE Collect(f[i - 1], c, cmds[i], replies[i])]
<1>1. \E f : Collecting(f, BlindWorld(W, c, cmds), c, cmds, replies, n)
  BY CollectingExists
<1>2. Collecting(after, BlindWorld(W, c, cmds), c, cmds, replies, n)
  BY <1>1, Zenon DEF Collecting
<1>3. Collected(W, c, cmds, replies, n) = after[n]
  BY Zenon DEF Collected, BlindWorld, Collect
<1> HIDE DEF after
<1> QED
  BY <1>2, <1>3

Piped == Command \cup {"MULTI", "EXEC"}

\* What the client knows of its stream while the answers come in; `seen' when
\* no SELECT has escaped it.
Matches(k, r, seen) ==
  /\ k.watched => k.watching
  /\ k.watched => r.watch # "no"
  /\ k.touched => r.watch = "dirty"
  /\ ~k.watched /\ ~k.persistent => r.watch = "no"
  /\ seen => /\ k.db = 1 => r.db = 1
             /\ k.db = 0 /\ ~k.persistent => r.db = 0
             /\ ~Contains(r.queue, "select")

\* What no answer changes of the client.
Kin(k, j) ==
  /\ SockType(j) /\ j.status = k.status /\ j.stream = k.stream /\ j.persistent = k.persistent
  /\ j.mode = k.mode /\ j.callbacks = k.callbacks /\ j.pipeline_cmd = k.pipeline_cmd

\* What no answer changes of the stream, and when it is in a block.
Next1(r, q, cmd) ==
  /\ ConnType(q) /\ q.open = r.open /\ q.up = r.up /\ q.unread = r.unread
  /\ q.multi # "no" => cmd = "MULTI" \/ (r.multi # "no" /\ cmd # "EXEC")

Collected1(k, cmd, reply) ==
  IF cmd = "EXEC" THEN Unwatching(k) ELSE IF reply = "ok" THEN Effect(k, cmd) ELSE k

LEMMA NothingContained == ~Contains(<< >>, "select")
  BY DEF Contains

LEMMA ContainsAppend ==
  ASSUME NEW S, NEW q \in Seq(S), NEW x \in S, x # "select", ~Contains(q, "select")
  PROVE  ~Contains(Append(q, x), "select")
  BY DEF Contains

LEMMA ExecMatches ==
  ASSUME NEW k, SockType(k), NEW r, ConnType(r), NEW seen \in BOOLEAN, Matches(k, r, seen),
         NEW q, NEW reply, Served1(r, "EXEC", q, reply), NEW j, j = Unwatching(k)
  PROVE  Matches(j, q, seen) /\ Kin(k, j) /\ Next1(r, q, "EXEC")
<1>1. /\ ConnType(q) /\ q.unread = r.unread /\ q.open = r.open /\ q.up = r.up
      /\ q.watch = "no" /\ q.multi = "no" /\ q.queue = << >>
      /\ q.db = IF reply = "array" /\ Contains(r.queue, "select") THEN 1 ELSE r.db
  BY ServeExec
<1>2. /\ SockType(j) /\ j.status = k.status /\ j.stream = k.stream /\ j.persistent = k.persistent
      /\ j.db = k.db /\ j.mode = k.mode /\ j.watching = k.watching /\ j.callbacks = k.callbacks
      /\ j.pipeline_cmd = k.pipeline_cmd /\ ~j.watched /\ ~j.touched
  BY UnwatchingIs
<1>3. seen => q.db = r.db /\ ~Contains(q.queue, "select")
  BY <1>1, NothingContained DEF Matches
<1>4. Matches(j, q, seen)
  BY <1>1, <1>2, <1>3 DEF Matches
<1> QED
  BY <1>1, <1>2, <1>4 DEF Kin, Next1

LEMMA MultiMatches ==
  ASSUME NEW k, SockType(k), NEW r, ConnType(r), NEW seen \in BOOLEAN, Matches(k, r, seen),
         NEW q, NEW reply, Served1(r, "MULTI", q, reply)
  PROVE  Matches(k, q, seen) /\ Kin(k, k) /\ Next1(r, q, "MULTI")
<1>1. /\ ConnType(q) /\ q.unread = r.unread /\ q.open = r.open /\ q.up = r.up
      /\ q.db = r.db /\ q.watch = r.watch /\ (q.queue = << >> \/ q = r)
  BY ServeMulti DEF ConnType, ConnFlags
<1>2. seen => ~Contains(q.queue, "select")
  BY <1>1, NothingContained DEF Matches
<1>3. Matches(k, q, seen)
  BY <1>1, <1>2 DEF Matches
<1> QED
  BY <1>1, <1>3 DEF Kin, Next1

LEMMA QueuedMatches ==
  ASSUME NEW k, SockType(k), NEW r, ConnType(r), NEW seen \in BOOLEAN, Matches(k, r, seen),
         NEW cmd \in Command, r.multi # "no", seen => cmd # "select",
         NEW q, NEW reply, Served1(r, cmd, q, reply)
  PROVE  Matches(k, q, seen) /\ Kin(k, k) /\ Next1(r, q, cmd) /\ reply # "ok"
<1>1. /\ ConnType(q) /\ q.unread = r.unread /\ q.open = r.open /\ q.up = r.up
      /\ q.db = r.db /\ q.watch = r.watch /\ q.multi # "no" /\ reply # "ok"
  BY ServeQueued
<1>2. cmd # "EXEC" /\ cmd # "MULTI"
  BY DEF Command
<1>3. seen => ~Contains(q.queue, "select")
  <2>1. CASE cmd \in {"bad", "watch"}
    <3>1. Serve(r, cmd).r = [r EXCEPT !.multi = "aborted"]
      BY <2>1, UnfoldQueued
    <3>2. q.queue = r.queue
      BY <3>1 DEF Served1, ConnType, ConnShape, ConnFields
    <3> QED
      BY <3>2 DEF Matches
  <2>2. CASE cmd \notin {"bad", "watch"}
    <3>1. q.queue = Append(r.queue, cmd)
      BY <2>2, ServeQueued
    <3>2. r.queue \in Seq(Command) /\ cmd \in Command
      BY DEF ConnType, ConnQueue
    <3> QED
      BY <3>1, <3>2, ContainsAppend DEF Matches
  <2> QED
    BY <2>1, <2>2
<1>4. Matches(k, q, seen)
  BY <1>1, <1>3 DEF Matches
<1> QED
  BY <1>1, <1>2, <1>4 DEF Kin, Next1

LEMMA PlainMatches ==
  ASSUME NEW k, SockType(k), NEW r, ConnType(r), NEW seen \in BOOLEAN, Matches(k, r, seen),
         NEW cmd \in Command, r.multi = "no",
         NEW q, NEW reply, Served1(r, cmd, q, reply), NEW j, j = IF reply = "ok" THEN Effect(k, cmd) ELSE k
  PROVE  Matches(j, q, seen) /\ Kin(k, j) /\ Next1(r, q, cmd)
<1>1. /\ ConnType(q) /\ q.unread = r.unread /\ q.open = r.open /\ q.up = r.up
      /\ q.multi = "no" /\ reply = (IF cmd = "bad" THEN "err" ELSE "ok")
      /\ q.db = (IF cmd = "select" THEN 1 ELSE r.db)
      /\ cmd = "watch" => q.watch = IF r.watch = "no" THEN "clean" ELSE r.watch
      /\ cmd = "unwatch" => q.watch = "no"
      /\ cmd \notin {"watch", "unwatch"} => q.watch = r.watch
  BY ServePlain
<1>2. ~Contains(q.queue, "select")
  <2>1. q.queue = << >>
    BY <1>1 DEF ConnType, ConnQueue
  <2> QED
    BY <2>1, NothingContained
<1>3. CASE cmd = "bad"
  <2>1. j = k /\ q.db = r.db /\ q.watch = r.watch
    BY <1>1, <1>3
  <2>2. Matches(j, q, seen)
    BY <1>2, <2>1 DEF Matches
  <2> QED
    BY <1>1, <2>1, <2>2 DEF Kin, Next1
<1>4. CASE cmd # "bad"
  <2>1. j = Effect(k, cmd)
    BY <1>1, <1>4
  <2>2. /\ SockType(j) /\ j.status = k.status /\ j.stream = k.stream /\ j.persistent = k.persistent
        /\ j.mode = k.mode /\ j.callbacks = k.callbacks /\ j.pipeline_cmd = k.pipeline_cmd
        /\ j.db = (IF cmd = "select" THEN 1 ELSE k.db)
        /\ cmd = "watch" => j.watching /\ j.watched /\ j.touched = k.touched
        /\ cmd = "unwatch" => ~j.watching /\ ~j.watched /\ ~j.touched
        /\ cmd \notin {"watch", "unwatch"} =>
             j.watching = k.watching /\ j.watched = k.watched /\ j.touched = k.touched
    BY <2>1, EffectIs
  <2>3. seen => /\ j.db = 1 => q.db = 1
                /\ j.db = 0 /\ ~j.persistent => q.db = 0
    BY <1>1, <2>2 DEF Matches
  <2>4. Matches(j, q, seen)
    <3>1. CASE cmd = "watch"
      BY <1>1, <1>2, <2>2, <2>3, <3>1 DEF Matches
    <3>2. CASE cmd = "unwatch"
      BY <1>1, <1>2, <2>2, <2>3, <3>2 DEF Matches
    <3>3. CASE cmd \notin {"watch", "unwatch"}
      BY <1>1, <1>2, <2>2, <2>3, <3>3 DEF Matches
    <3> QED
      BY <3>1, <3>2, <3>3
  <2> QED
    BY <1>1, <2>2, <2>4 DEF Kin, Next1
<1> QED
  BY <1>3, <1>4

\* One command of a pipeline, and what the client makes of its answer.
LEMMA PipedMatches ==
  ASSUME NEW k, SockType(k), NEW r, ConnType(r), NEW seen \in BOOLEAN, Matches(k, r, seen),
         NEW cmd \in Piped, seen /\ cmd = "select" => r.multi = "no",
         NEW q, NEW reply, Served1(r, cmd, q, reply), NEW j, j = Collected1(k, cmd, reply)
  PROVE  Matches(j, q, seen) /\ Kin(k, j) /\ Next1(r, q, cmd)
<1>1. CASE cmd = "EXEC"
  BY <1>1, ExecMatches DEF Collected1
<1>2. CASE cmd = "MULTI"
  <2>1. Effect(k, "MULTI") = k
    BY Zenon DEF Effect
  <2>2. j = k
    BY <1>2, <2>1 DEF Collected1
  <2> QED
    BY <1>2, <2>2, MultiMatches
<1>3. CASE cmd \in Command /\ r.multi # "no"
  <2>1. Matches(k, q, seen) /\ Kin(k, k) /\ Next1(r, q, cmd) /\ reply # "ok"
    BY <1>3, QueuedMatches
  <2>2. j = k
    BY <1>3, <2>1 DEF Collected1, Command
  <2> QED
    BY <2>1, <2>2
<1>4. CASE cmd \in Command /\ r.multi = "no"
  <2>1. j = IF reply = "ok" THEN Effect(k, cmd) ELSE k
    BY <1>4 DEF Collected1, Command
  <2> QED
    BY <1>4, <2>1, PlainMatches
<1> QED
  BY <1>1, <1>2, <1>3, <1>4 DEF Piped

\* What the answers of a pipeline may add to the notes.
SeenGhost(g, h, c, persistent) ==
  /\ GhostShape(h) /\ GhostType(h) /\ OthersNoted(g, h, c) /\ h.drift = g.drift /\ h.mixed = g.mixed
  /\ h.unread = g.unread /\ h.blind = g.blind /\ h.torn = g.torn
  /\ c \in h.spurious => c \in g.spurious \/ persistent

Follows(X, B, c, k, g, j, h) ==
  /\ Altered(X, B, c, j, h) /\ Kin(k, j) /\ SeenGhost(g, h, c, k.persistent)

Collects(B, C, c, cmd, reply) == C = Collect(B, c, cmd, reply)

LEMMA KinKin ==
  ASSUME NEW k, NEW j, NEW i, Kin(k, j), Kin(j, i)
  PROVE  Kin(k, i)
  BY DEF Kin

LEMMA CollectFollows ==
  ASSUME NEW X, Shape(X), NEW c \in Client, NEW B, NEW k, NEW g, NEW j, NEW h, Follows(X, B, c, k, g, j, h),
         NEW r, ConnType(r), NEW seen \in BOOLEAN, Matches(j, r, seen),
         NEW cmd \in Piped, seen /\ cmd = "select" => r.multi = "no",
         NEW q, NEW reply, Served1(r, cmd, q, reply), NEW C, Collects(B, C, c, cmd, reply)
  PROVE  /\ \E i, e : Follows(X, C, c, k, g, i, e) /\ Matches(i, q, seen)
         /\ Next1(r, q, cmd)
<1>i. PICK i : i = Collected1(j, cmd, reply)
  OBVIOUS
<1>1. /\ Altered(X, B, c, j, h) /\ Kin(k, j) /\ SeenGhost(g, h, c, k.persistent) /\ SockType(j)
      /\ GhostShape(h) /\ GhostType(h) /\ j.persistent = k.persistent
  BY DEF Follows, Kin, SeenGhost
<1>2. Matches(i, q, seen) /\ Kin(j, i) /\ Next1(r, q, cmd)
  BY <1>1, <1>i, PipedMatches
<1>3. Kin(k, i)
  BY <1>1, <1>2, KinKin
<1>4. Shape(B) /\ B.client[c] = j /\ B.ghost = h
  BY <1>1, AlteredShape
<1>5. CASE cmd = "EXEC"
  <2>1. i = Unwatching(j) /\ C = Judged(B, c, reply)
    BY <1>i, <1>5 DEF Collected1, Collects, Collect
  <2>e. PICK e : Judges(h, e, c, j, reply)
    BY DEF Judges
  <2>2. Altered(B, C, c, i, e)
    <3>1. SockShape(j)
      BY <1>1 DEF SockType
    <3>2. Altered(B, Judged(B, c, reply), c, Unwatching(j), Verdict(B.ghost, c, j, reply))
      BY <1>4, <3>1, JudgedIs
    <3> QED
      BY <1>4, <2>1, <2>e, <3>2, Zenon DEF Judges
  <2>3. Altered(X, C, c, i, e)
    BY <1>1, <2>2, AlteredTwice
  <2>4. /\ reply = "array" => r.watch # "dirty"
        /\ reply = "nil" => r.watch = "dirty"
    BY <1>5, ServeExec
  <2>5. /\ reply = "array" => ~(j.watched /\ j.touched)
        /\ reply = "nil" /\ ~j.watched => j.persistent
    BY <2>4 DEF Matches
  <2>6. /\ GhostShape(e) /\ GhostType(e) /\ OthersNoted(h, e, c) /\ e.drift = h.drift
        /\ e.mixed = h.mixed /\ e.unread = h.unread /\ e.blind = h.blind /\ e.torn = h.torn
        /\ c \in e.spurious <=> c \in h.spurious \/ (reply = "nil" /\ ~j.watched)
    BY <1>1, <2>5, <2>e, JudgesIs
  <2>7. OthersNoted(g, e, c)
    BY <1>1, <2>6 DEF OthersNoted, SeenGhost
  <2>8. SeenGhost(g, e, c, k.persistent)
    BY <1>1, <2>5, <2>6, <2>7 DEF SeenGhost
  <2> QED
    BY <1>2, <1>3, <2>3, <2>8 DEF Follows
<1>6. CASE cmd # "EXEC" /\ reply = "ok"
  <2>1. i = Effect(j, cmd) /\ C = [B EXCEPT !.client[c] = Effect(j, cmd)]
    BY <1>i, <1>4, <1>6 DEF Collected1, Collects, Collect
  <2>2. Altered(X, [B EXCEPT !.client[c] = i], c, i, h)
    BY <1>1, MixedAltered
  <2>3. Altered(X, C, c, i, h)
    BY <2>1, <2>2
  <2> QED
    BY <1>1, <1>2, <1>3, <2>3 DEF Follows
<1>7. CASE cmd # "EXEC" /\ reply # "ok"
  <2>1. i = j /\ C = B
    BY <1>i, <1>7 DEF Collected1, Collects, Collect
  <2> QED
    BY <1>1, <1>2, <1>3, <2>1 DEF Follows
<1> QED
  BY <1>2, <1>5, <1>6, <1>7

\* After the first i commands a MULTI is open.
OpenAt(cmds, i) == \E j \in 1..i : cmds[j] = "MULTI" /\ \A l \in j..i : cmds[l] # "EXEC"

\* The stream after some commands of a pipeline.
Along(r, q, cmds, i) ==
  /\ ConnType(q) /\ q.open = r.open /\ q.up = r.up /\ q.unread = r.unread
  /\ q.multi # "no" => OpenAt(cmds, i)

LEMMA AlongNext ==
  ASSUME NEW r, NEW q, NEW cmds, NEW i \in Nat, Along(r, q, cmds, i), NEW p, Next1(q, p, cmds[i + 1])
  PROVE  Along(r, p, cmds, i + 1)
<1>1. /\ ConnType(p) /\ p.open = r.open /\ p.up = r.up /\ p.unread = r.unread
      /\ p.multi # "no" => cmds[i + 1] = "MULTI" \/ (q.multi # "no" /\ cmds[i + 1] # "EXEC")
  BY DEF Along, Next1
<1>2. ASSUME p.multi # "no"
      PROVE  OpenAt(cmds, i + 1)
  <2>1. CASE cmds[i + 1] = "MULTI"
    <3>1. i + 1 \in 1..(i + 1) /\ \A l \in (i + 1)..(i + 1) : l = i + 1
      OBVIOUS
    <3> QED
      BY <2>1, <3>1 DEF OpenAt
  <2>2. CASE q.multi # "no" /\ cmds[i + 1] # "EXEC"
    <3>1. PICK j \in 1..i : cmds[j] = "MULTI" /\ \A l \in j..i : cmds[l] # "EXEC"
      BY <2>2 DEF Along, OpenAt
    <3>2. j \in 1..(i + 1) /\ \A l \in j..(i + 1) : l \in j..i \/ l = i + 1
      OBVIOUS
    <3> QED
      BY <2>2, <3>1, <3>2 DEF OpenAt
  <2> QED
    BY <1>1, <1>2, <2>1, <2>2
<1> QED
  BY <1>1, <1>2 DEF Along

\* SELECT outside the MULTI of a pipeline is run at once.
LEMMA SelectAtOnce ==
  ASSUME NEW r, NEW q, NEW cmds, NEW i \in Nat, Along(r, q, cmds, i), cmds[i + 1] = "select",
         ~InMulti(cmds, i + 1)
  PROVE  q.multi = "no"
<1> SUFFICES ASSUME q.multi # "no"
             PROVE  FALSE
  OBVIOUS
<1>1. PICK j \in 1..i : cmds[j] = "MULTI" /\ \A l \in j..i : cmds[l] # "EXEC"
  BY DEF Along, OpenAt
<1>2. j \in 1..((i + 1) - 1) /\ \A l \in j..(i + 1) : l \in j..i \/ l = i + 1
  OBVIOUS
<1> QED
  BY <1>1, <1>2 DEF InMulti

\* Of any command.
LEMMA ServeNext ==
  ASSUME NEW r, ConnType(r), NEW cmd \in Piped, NEW q, NEW reply, Served1(r, cmd, q, reply)
  PROVE  Next1(r, q, cmd)
<1>1. CASE cmd = "EXEC"
  BY <1>1, ServeExec DEF Next1
<1>2. CASE cmd = "MULTI"
  BY <1>2, ServeMulti DEF Next1
<1>3. CASE cmd \in Command /\ r.multi # "no"
  <2>1. cmd # "EXEC"
    BY <1>3 DEF Command
  <2> QED
    BY <1>3, <2>1, ServeQueued DEF Next1
<1>4. CASE cmd \in Command /\ r.multi = "no"
  BY <1>4, ServePlain DEF Next1
<1> QED
  BY <1>1, <1>2, <1>3, <1>4 DEF Piped

\* The stream after each command of a pipeline.
LEMMA AnsweringAlong ==
  ASSUME NEW r, ConnType(r), r.multi = "no", NEW cmds \in Seq(Piped), NEW f, Answering(f, r, cmds, Len(cmds)),
         NEW m \in 0..Len(cmds)
  PROVE  Along(r, f[m], cmds, m)
<1>1. Len(cmds) \in Nat
  OBVIOUS
<1>2. f[0] = r /\ \A i \in 0..Len(cmds) : i # 0 => f[i] = Serve(f[i - 1], cmds[i]).r
  <2>1. ASSUME NEW i \in 0..Len(cmds)
        PROVE  f[i] = IF i = 0 THEN r ELSE Serve(f[i - 1], cmds[i]).r
    BY DEF Answering
  <2>2. 0 \in 0..Len(cmds)
    BY <1>1
  <2> QED
    BY <2>1, <2>2
<1> DEFINE S == {n \in Nat : n <= Len(cmds) => Along(r, f[n], cmds, n)}
<1>3. 0 \in S
  BY <1>2 DEF Along
<1>4. ASSUME NEW n \in S
      PROVE  n + 1 \in S
  <2> SUFFICES ASSUME n + 1 <= Len(cmds)
               PROVE  Along(r, f[n + 1], cmds, n + 1)
    OBVIOUS
  <2>0. n \in Nat
    OBVIOUS
  <2>1. Along(r, f[n], cmds, n) /\ n + 1 \in 0..Len(cmds) /\ (n + 1) - 1 = n /\ n + 1 # 0 /\ n + 1 \in 1..Len(cmds)
    BY <1>1, <2>0
  <2>2. f[n + 1] = Serve(f[n], cmds[n + 1]).r
    BY <1>2, <2>1
  <2>p. PICK p : p = f[n + 1]
    OBVIOUS
  <2>q. PICK q : q = f[n]
    OBVIOUS
  <2>c. PICK cmd \in Piped : cmd = cmds[n + 1]
    BY <2>1
  <2>y. PICK reply : Served1(q, cmd, p, reply)
    BY <2>2, <2>p, <2>q, <2>c DEF Served1
  <2>3. ConnType(q)
    BY <2>1, <2>q DEF Along
  <2>4. Next1(q, p, cmd)
    BY <2>3, <2>y, ServeNext
  <2> QED
    BY <2>0, <2>1, <2>4, <2>p, <2>q, <2>c, AlongNext
<1>5. S \subseteq Nat
  OBVIOUS
<1> HIDE DEF S
<1>6. S = Nat
  BY <1>3, <1>4, <1>5, NumbersInduction
<1> QED
  BY <1>1, <1>6 DEF S

\* Nothing has been answered yet.
LEMMA NoneFollows ==
  ASSUME NEW X, Shape(X), NEW c \in Client, NEW k, k = X.client[c], SockType(k), GhostType(X.ghost)
  PROVE  Follows(X, X, c, k, X.ghost, k, X.ghost)
<1>1. Altered(X, X, c, k, X.ghost)
  BY SelfAlone, AloneToo
<1>2. GhostShape(X.ghost)
  BY DEF Shape, GhostShape
<1> QED
  BY <1>1, <1>2, SameForAll DEF Follows, Kin, SeenGhost

\* The client after the first n answers of a pipeline.
LEMMA CollectingFollows ==
  ASSUME NEW X, Shape(X), NEW c \in Client, NEW k, k = X.client[c], SockType(k), GhostType(X.ghost),
         NEW r, ConnType(r), r.multi = "no", NEW seen \in BOOLEAN, Matches(k, r, seen),
         NEW cmds \in Seq(Piped), NEW f, Answering(f, r, cmds, Len(cmds)),
         seen => \A i \in 1..Len(cmds) : cmds[i] = "select" => ~InMulti(cmds, i),
         NEW replies, \A i \in 1..Len(cmds) : replies[i] = Serve(f[i - 1], cmds[i]).reply,
         NEW n \in 0..Len(cmds), NEW b, Collecting(b, X, c, cmds, replies, n)
  PROVE  \E j, h : Follows(X, b[n], c, k, X.ghost, j, h) /\ Matches(j, f[n], seen)
<1>g. PICK g : g = X.ghost
  OBVIOUS
<1>1. Len(cmds) \in Nat /\ n \in Nat /\ n <= Len(cmds)
  OBVIOUS
<1>2. f[0] = r /\ \A i \in 0..Len(cmds) : i # 0 => f[i] = Serve(f[i - 1], cmds[i]).r
  <2>1. ASSUME NEW i \in 0..Len(cmds)
        PROVE  f[i] = IF i = 0 THEN r ELSE Serve(f[i - 1], cmds[i]).r
    BY DEF Answering
  <2>2. 0 \in 0..Len(cmds)
    BY <1>1
  <2> QED
    BY <2>1, <2>2
<1>3. b[0] = X /\ \A i \in 0..n : i # 0 => b[i] = Collect(b[i - 1], c, cmds[i], replies[i])
  <2>1. ASSUME NEW i \in 0..n
        PROVE  b[i] = IF i = 0 THEN X ELSE Collect(b[i - 1], c, cmds[i], replies[i])
    BY DEF Collecting
  <2>2. 0 \in 0..n
    BY <1>1
  <2> QED
    BY <2>1, <2>2
<1> DEFINE P(m) == \E j, h : Follows(X, b[m], c, k, g, j, h) /\ Matches(j, f[m], seen)
<1> DEFINE S == {m \in Nat : m <= n => P(m)}
<1>4. 0 \in S
  <2>1. Follows(X, X, c, k, g, k, g)
    BY <1>g, NoneFollows
  <2>2. P(0)
    BY <1>2, <1>3, <2>1
  <2> QED
    BY <2>2
<1>5. ASSUME NEW m \in S
      PROVE  m + 1 \in S
  <2> SUFFICES ASSUME m + 1 <= n
               PROVE  P(m + 1)
    OBVIOUS
  <2>0. m \in Nat
    OBVIOUS
  <2>1. /\ P(m) /\ m + 1 \in 0..Len(cmds) /\ (m + 1) - 1 = m /\ m + 1 # 0 /\ m + 1 \in 1..Len(cmds)
        /\ m + 1 \in 0..n /\ m \in 0..Len(cmds)
    BY <1>1, <2>0
  <2>2. /\ f[m + 1] = Serve(f[m], cmds[m + 1]).r
        /\ b[m + 1] = Collect(b[m], c, cmds[m + 1], replies[m + 1])
        /\ replies[m + 1] = Serve(f[m], cmds[m + 1]).reply
    BY <1>2, <1>3, <2>1
  <2>p. PICK p : p = f[m + 1]
    OBVIOUS
  <2>q. PICK q : q = f[m]
    OBVIOUS
  <2>B. PICK B : B = b[m]
    OBVIOUS
  <2>C. PICK C : C = b[m + 1]
    OBVIOUS
  <2>c. PICK cmd \in Piped : cmd = cmds[m + 1]
    BY <2>1
  <2>y. PICK reply : reply = replies[m + 1]
    OBVIOUS
  <2>3. Served1(q, cmd, p, reply)
    BY <2>2, <2>p, <2>q, <2>c, <2>y DEF Served1
  <2>4. Collects(B, C, c, cmd, reply)
    BY <2>2, <2>B, <2>C, <2>c, <2>y DEF Collects
  <2>5. PICK j, h : Follows(X, B, c, k, g, j, h) /\ Matches(j, q, seen)
    BY <2>1, <2>B, <2>q
  <2>6. Along(r, q, cmds, m)
    BY <2>1, <2>q, AnsweringAlong
  <2>7. ConnType(q)
    BY <2>6 DEF Along
  <2>8. seen /\ cmd = "select" => q.multi = "no"
    BY <2>0, <2>1, <2>6, <2>c, SelectAtOnce
  <2>9. \E i, e : Follows(X, C, c, k, g, i, e) /\ Matches(i, p, seen)
    BY <2>3, <2>4, <2>5, <2>7, <2>8, CollectFollows
  <2> QED
    BY <2>9, <2>C, <2>p
<1>6. S \subseteq Nat
  OBVIOUS
<1> HIDE DEF S
<1>7. S = Nat
  BY <1>4, <1>5, <1>6, NumbersInduction
<1> QED
  BY <1>1, <1>7, <1>g DEF S

\* All that a pipeline's replies are read with.
Collectable(X, c, k, r, seen, cmds, f, replies, n, b) ==
  /\ Shape(X) /\ k = X.client[c] /\ SockType(k) /\ GhostType(X.ghost)
  /\ ConnType(r) /\ r.multi = "no" /\ seen \in BOOLEAN /\ Matches(k, r, seen)
  /\ cmds \in Seq(Piped) /\ Answering(f, r, cmds, Len(cmds))
  /\ seen => \A i \in 1..Len(cmds) : cmds[i] = "select" => ~InMulti(cmds, i)
  /\ \A i \in 1..Len(cmds) : replies[i] = Serve(f[i - 1], cmds[i]).reply
  /\ n \in 0..Len(cmds) /\ Collecting(b, X, c, cmds, replies, n)

LEMMA CollectableFollows ==
  ASSUME NEW X, NEW c \in Client, NEW k, NEW r, NEW seen, NEW cmds, NEW f, NEW replies, NEW n, NEW b,
         Collectable(X, c, k, r, seen, cmds, f, replies, n, b)
  PROVE  \E j, h : Follows(X, b[n], c, k, X.ghost, j, h) /\ Matches(j, f[n], seen)
  BY CollectingFollows, Zenon DEF Collectable

LEMMA ConsumedIs ==
  ASSUME NEW cmds \in Seq(Piped), NEW replies
  PROVE  Consumed(cmds, replies) \in 0..Len(cmds)
<1> DEFINE refused == {i \in DOMAIN cmds : \/ InMulti(cmds, i) /\ ~redis_response_enqueued(replies[i])
                                           \/ cmds[i] = "MULTI" /\ replies[i] # "ok"}
<1>1. /\ refused \subseteq DOMAIN cmds
      /\ Consumed(cmds, replies) = IF refused = {} THEN Len(cmds)
                                   ELSE CHOOSE i \in refused : \A j \in refused : i <= j
  BY Zenon DEF Consumed
<1> HIDE DEF refused
<1>2. DOMAIN cmds = 1..Len(cmds) /\ Len(cmds) \in Nat
  OBVIOUS
<1>3. CASE refused = {}
  BY <1>1, <1>2, <1>3
<1>4. CASE refused # {}
  <2>1. refused \subseteq Nat
    BY <1>1, <1>2
  <2>2. \E i \in refused : \A j \in refused : i <= j
    BY <1>4, <2>1, LeastExists
  <2>3. Consumed(cmds, replies) \in refused
    BY <1>1, <1>4, <2>2, Zenon
  <2> QED
    BY <1>1, <1>2, <2>3
<1> QED
  BY <1>3, <1>4

\* The commands were sent and `left' answers stay on the stream.
Left(q, left) == [q EXCEPT !.unread = left > 0]
FlushWorld(W, c, s, q, left) ==
  [W EXCEPT !.conn[s] = Left(q, left), !.ghost.unread = IF left > 0 THEN @ \cup {c} ELSE @]

Flushes(W, V, c, s, k, a, n) ==
  /\ ~W.conn[s].unread /\ W.conn[s].multi = "no" /\ (c \in W.ghost.torn => k.callbacks = << >>)
  /\ \/ k.callbacks = << >> /\ n = 0
     \/ k.callbacks # << >> /\ n = Consumed(k.pipeline_cmd, a.replies)
  /\ V = Collected(FlushWorld(W, c, s, a.r, Len(k.pipeline_cmd) - n), c, k.pipeline_cmd, a.replies, n)

LEMMA FlushedIs ==
  ASSUME NEW W, NEW c, NEW k, k = W.client[c], NEW s, s = k.stream, NEW V \in Flushed(W, c)
  PROVE  \/ /\ V = MixedWorld(W, c)
            /\ W.conn[s].unread \/ W.conn[s].multi # "no" \/ (c \in W.ghost.torn /\ k.callbacks # << >>)
         \/ MayFail(W) /\ V = Fault(Lost(W, c))
         \/ \E n : Flushes(W, V, c, s, k, Served(W.conn[s], k.pipeline_cmd), n)
<1>k. PICK cmds : cmds = k.pipeline_cmd
  OBVIOUS
<1>a. PICK a : a = Served(W.conn[s], cmds)
  OBVIOUS
<1>n. PICK n : n = IF k.callbacks = << >> THEN 0 ELSE Consumed(cmds, a.replies)
  OBVIOUS
<1>1. V \in IF W.conn[s].unread \/ W.conn[s].multi # "no" \/ (c \in W.ghost.torn /\ k.callbacks # << >>)
            THEN {MixedWorld(W, c)}
            ELSE {Collected(FlushWorld(W, c, s, a.r, Len(cmds) - n), c, cmds, a.replies, n)} \cup
                 (IF MayFail(W) /\ n > 0 THEN {Fault(Lost(W, c))} ELSE {})
  BY <1>k, <1>a, <1>n, Zenon DEF Flushed, MixedWorld, FlushWorld, Left
<1>2. CASE W.conn[s].unread \/ W.conn[s].multi # "no" \/ (c \in W.ghost.torn /\ k.callbacks # << >>)
  BY <1>1, <1>2
<1>3. CASE ~(W.conn[s].unread \/ W.conn[s].multi # "no" \/ (c \in W.ghost.torn /\ k.callbacks # << >>))
  <2>1. \/ MayFail(W) /\ V = Fault(Lost(W, c))
        \/ V = Collected(FlushWorld(W, c, s, a.r, Len(cmds) - n), c, cmds, a.replies, n)
    BY <1>1, <1>3, Zenon
  <2>2. V = Collected(FlushWorld(W, c, s, a.r, Len(cmds) - n), c, cmds, a.replies, n)
        => Flushes(W, V, c, s, k, a, n)
    BY <1>k, <1>n, <1>3, Zenon DEF Flushes
  <2> QED
    BY <1>a, <1>k, <2>1, <2>2, Zenon
<1> QED
  BY <1>2, <1>3

LeavesOn(q, r, n) == q = Left(r, n)

StillOn(q, r, n) ==
  /\ ConnType(q) /\ q.open = r.open /\ q.up = r.up /\ q.db = r.db /\ q.multi = r.multi
  /\ q.watch = r.watch /\ q.queue = r.queue /\ (q.unread <=> n > 0)

LEMMA LeftIs ==
  ASSUME NEW r, ConnType(r), ~r.unread, NEW left \in Int, NEW q, LeavesOn(q, r, left)
  PROVE  StillOn(q, r, left)
<1>u. PICK u \in BOOLEAN : u = (left > 0)
  <2>1. (left > 0) \in BOOLEAN
    OBVIOUS
  <2> QED
    BY <2>1, Zenon
<1>1. q = [r EXCEPT !.unread = u]
  BY <1>u DEF Left, LeavesOn
<1> QED
  BY <1>1, <1>u DEF ConnType, ConnShape, ConnFlags, ConnQueue, ConnFields, StillOn

\* The world before the first answer is read.
Flushing(g, h, c, left, blind) ==
  h = [g EXCEPT !.unread = IF left THEN @ \cup {c} ELSE @, !.blind = IF blind THEN @ \cup {c} ELSE @]

FlushNotes(g, h, c, left, blind) ==
  /\ GhostShape(h) /\ GhostType(h) /\ OthersNoted(g, h, c) /\ h.drift = g.drift
  /\ h.mixed = g.mixed /\ h.torn = g.torn /\ h.spurious = g.spurious
  /\ h.unread = (IF left THEN g.unread \cup {c} ELSE g.unread)
  /\ h.blind = (IF blind THEN g.blind \cup {c} ELSE g.blind)

LEMMA FlushingIs ==
  ASSUME NEW g, GhostShape(g), GhostType(g), NEW c \in Client, NEW left \in BOOLEAN, NEW blind \in BOOLEAN,
         NEW h, Flushing(g, h, c, left, blind)
  PROVE  FlushNotes(g, h, c, left, blind)
<1>1. /\ GhostShape(h) /\ h.drift = g.drift /\ h.mixed = g.mixed /\ h.torn = g.torn
      /\ h.spurious = g.spurious /\ h.unguarded = g.unguarded
      /\ h.unread = (IF left THEN g.unread \cup {c} ELSE g.unread)
      /\ h.blind = (IF blind THEN g.blind \cup {c} ELSE g.blind)
  BY DEF GhostShape, GhostFields, Flushing
<1>2. GhostType(h)
  BY <1>1 DEF GhostType
<1>3. OthersNoted(g, h, c)
  BY <1>1 DEF OthersNoted
<1> QED
  BY <1>1, <1>2, <1>3 DEF FlushNotes

SomeLeft(left, n) == left = (n > 0)
SomeBlind(blind, cmds) == blind = \E i \in DOMAIN cmds : cmds[i] = "select" /\ InMulti(cmds, i)
Flushed1(W, X, c, s, r, n, cmds) == X = BlindWorld(FlushWorld(W, c, s, r, n), c, cmds)

LEMMA FlushWorldIs ==
  ASSUME NEW W, Shape(W), NEW c \in Client, NEW k, W.client[c] = k, NEW s \in Streams,
         NEW r, NEW n, NEW q, LeavesOn(q, r, n), NEW left \in BOOLEAN, SomeLeft(left, n), NEW cmds,
         NEW blind \in BOOLEAN, SomeBlind(blind, cmds),
         NEW X, Flushed1(W, X, c, s, r, n, cmds)
  PROVE  /\ Became(W, X, c, s, k, q) /\ X.client[c] = k
         /\ Flushing(W.ghost, X.ghost, c, left, blind)
<1>u. PICK u : u = IF left THEN W.ghost.unread \cup {c} ELSE W.ghost.unread
  OBVIOUS
<1>b. PICK b : b = IF blind THEN W.ghost.blind \cup {c} ELSE W.ghost.blind
  OBVIOUS
<1>F. PICK F : F = [W EXCEPT !.conn[s] = q, !.ghost.unread = u]
  OBVIOUS
<1>1. FlushWorld(W, c, s, r, n) = F
  BY <1>u, <1>F DEF FlushWorld, Shape, GhostFields, LeavesOn, SomeLeft
<1>2. F.ghost = [W.ghost EXCEPT !.unread = u] /\ F.ghost.blind = W.ghost.blind
      /\ F.conn = [W.conn EXCEPT ![s] = q] /\ F.client = W.client /\ F.pool = W.pool
      /\ F.nb_active = W.nb_active /\ F.faults = W.faults /\ Shape(F)
  BY <1>F DEF Shape, WorldFields, GhostFields
<1>3. X = [F EXCEPT !.ghost.blind = b]
  BY <1>1, <1>2, <1>b DEF BlindWorld, SomeBlind, Flushed1
<1>4. X.ghost = [F.ghost EXCEPT !.blind = b] /\ X.conn = F.conn /\ X.client = F.client /\ X.pool = F.pool
      /\ X.nb_active = F.nb_active /\ X.faults = F.faults /\ Shape(X)
  BY <1>2, <1>3 DEF Shape, WorldFields, GhostFields
<1>5. X.client = [W.client EXCEPT ![c] = k]
  BY <1>2, <1>4 DEF Shape
<1>6. Flushing(W.ghost, X.ghost, c, left, blind)
  BY <1>2, <1>4, <1>u, <1>b DEF Flushing, Shape, GhostFields
<1> QED
  BY <1>2, <1>4, <1>5, <1>6 DEF Became

\* A client about to send its pipeline.
Sending(W, c) ==
  /\ Open(W, c) /\ W.conn[W.client[c].stream].up
  /\ W.client[c].mode \in {{}, {"PIPELINE"}} /\ W.client[c].pipeline_cmd # << >>

\* Before the first answer the client knows its stream.
LEMMA MatchesFirst ==
  ASSUME NEW g, NEW c, NEW k, NEW r, SockType(k), ConnType(r), StreamOK(g, c, k, r), c \notin g.mixed,
         k.status = "ready", r.up, ~r.unread, r.multi = "no",
         NEW seen \in BOOLEAN, seen => c \notin g.unread /\ c \notin g.blind
  PROVE  Matches(k, r, seen)
<1>1. /\ k.watched => k.watching
      /\ k.watched => r.watch # "no"
      /\ k.touched => r.watch = "dirty"
      /\ ~k.watched /\ ~k.persistent => r.watch = "no"
  BY DEF StreamOK, WatchOK
<1>2. seen => /\ k.db = 1 => r.db = 1
              /\ k.db = 0 /\ ~k.persistent => r.db = 0
  BY DEF StreamOK, DatabaseOK
<1>3. ~Contains(r.queue, "select")
  <2>1. r.queue = << >>
    BY DEF ConnType, ConnQueue
  <2> QED
    BY <2>1, NothingContained
<1> QED
  BY <1>1, <1>2, <1>3 DEF Matches

\* After the last one it still does.
LEMMA MatchesLast ==
  ASSUME NEW h, NEW c, NEW j, NEW r, NEW seen \in BOOLEAN, Matches(j, r, seen), NEW q,
         q.db = r.db, q.watch = r.watch,
         c \in h.mixed \/ c \in h.unread \/ c \in h.blind \/ seen, c \notin h.unread => ~q.unread,
         j.mode # {"MULTI"}, c \notin h.unread => q.multi = "no"
  PROVE  StreamOK(h, c, j, q)
<1>1. DatabaseOK(h, c, j, q)
  BY DEF DatabaseOK, Matches
<1>2. CleanOK(h, c, j, q)
  BY DEF CleanOK, Quiet
<1>3. QueueOK(h, c, j, q)
  BY DEF QueueOK
<1>4. WatchOK(h, c, j, q)
  BY DEF WatchOK, Matches
<1> QED
  BY <1>1, <1>2, <1>3, <1>4 DEF StreamOK

\* Not all answers were read.
LEMMA MatchesLeft ==
  ASSUME NEW h, NEW c, NEW j, NEW r, NEW seen \in BOOLEAN, Matches(j, r, seen), NEW q,
         q.unread, c \in h.unread, j.mode # {"MULTI"}
  PROVE  StreamOK(h, c, j, q)
  BY DEF StreamOK, DatabaseOK, CleanOK, Quiet, QueueOK, WatchOK, Matches

\* A pipeline that was sent whole, and whose answers were all read, ends in no block.
LEMMA BlockClosed ==
  ASSUME NEW g, NEW c, NEW k, NotesOK(g, c, k), k.mode \in {{}, {"PIPELINE"}}, k.pipeline_cmd # << >>,
         c \in g.torn => k.callbacks = << >>, NEW n, NEW m \in Nat,
         Len(k.pipeline_cmd) = n, n \in Nat, n # 0,
         k.callbacks = << >> => m = 0, m = n
  PROVE  ~OpenAt(k.pipeline_cmd, n)
<1>1. c \notin g.torn
  OBVIOUS
<1>2. ~Torn(k) /\ ("PIPELINE" \in k.mode /\ OpenEnd(k.pipeline_cmd) => "MULTI" \in k.mode)
  BY <1>1 DEF NotesOK
<1>3. k.mode = {"PIPELINE"}
  BY <1>2 DEF Torn
<1>4. ~OpenEnd(k.pipeline_cmd)
  BY <1>2, <1>3
<1> QED
  BY <1>4 DEF OpenEnd, OpenAt

LEMMA CollectedGood ==
  ASSUME NEW W, NEW c \in Client, Sending(W, c), NEW k, NEW s, NEW r, At(W, c, k, s, r),
         NEW n, NEW V, Flushes(W, V, c, s, k, Served(r, k.pipeline_cmd), n)
  PROVE  Well(V, c) /\ V.client[c].mode = W.client[c].mode
<1>1. /\ Good(W, c) /\ c \notin W.ghost.mixed /\ W.client[c] = k /\ W.conn[s] = r /\ k.stream = s /\ s \in Streams
      /\ k.status = "ready" /\ r.up /\ r.open /\ k.mode \in {{}, {"PIPELINE"}} /\ k.pipeline_cmd # << >>
      /\ SockType(k) /\ ConnType(r) /\ Shape(W) /\ GhostType(W.ghost) /\ GhostShape(W.ghost)
      /\ NotesOK(W.ghost, c, k) /\ Explained(W.ghost, c, k) /\ StreamOK(W.ghost, c, k, r)
  BY DEF Sending, Open, At, Shape, GhostShape
<1>c. PICK cmds \in Seq(Piped) : cmds = k.pipeline_cmd
  BY <1>1 DEF SockType, SockNotes, Piped
<1>a. PICK a : a = Served(r, cmds)
  OBVIOUS
<1>m. PICK len \in Nat : len = Len(cmds)
  BY <1>c
<1>2. /\ ~r.unread /\ r.multi = "no" /\ (c \in W.ghost.torn => k.callbacks = << >>)
      /\ n \in 0..len /\ (k.callbacks = << >> => n = 0)
      /\ V = Collected(FlushWorld(W, c, s, a.r, len - n), c, cmds, a.replies, n)
  <2>1. Consumed(cmds, a.replies) \in 0..len
    BY <1>m, ConsumedIs
  <2>2. 0 \in 0..len
    OBVIOUS
  <2> QED
    BY <1>1, <1>c, <1>a, <1>m, <2>1, <2>2 DEF Flushes
<1>f. PICK f : /\ Answering(f, r, cmds, len) /\ a.r = f[len]
               /\ \A i \in 1..len : a.replies[i] = Serve(f[i - 1], cmds[i]).reply
  BY <1>a, <1>m, ServedAre
<1>d. PICK d \in Int : d = len - n
  BY <1>2
<1>l. PICK left \in BOOLEAN : SomeLeft(left, d)
  <2>1. (d > 0) \in BOOLEAN
    OBVIOUS
  <2> QED
    BY <2>1, Zenon DEF SomeLeft
<1>q. PICK q : LeavesOn(q, a.r, d)
  BY DEF LeavesOn
<1>b. PICK blind \in BOOLEAN : SomeBlind(blind, cmds)
  BY DEF SomeBlind
<1>X. PICK X : Flushed1(W, X, c, s, a.r, d, cmds)
  BY DEF Flushed1
<1>s. PICK seen \in BOOLEAN : seen <=> c \notin X.ghost.unread /\ c \notin X.ghost.blind
  OBVIOUS
<1>3. Became(W, X, c, s, k, q) /\ X.client[c] = k /\ Flushing(W.ghost, X.ghost, c, left, blind)
  <2>1. Shape(W) /\ W.client[c] = k /\ s \in Streams
    BY <1>1
  <2> QED
    BY <1>q, <1>l, <1>b, <1>X, <2>1, FlushWorldIs
<1>4. /\ GhostShape(X.ghost) /\ GhostType(X.ghost) /\ OthersNoted(W.ghost, X.ghost, c)
      /\ X.ghost.drift = W.ghost.drift
      /\ X.ghost.mixed = W.ghost.mixed /\ X.ghost.torn = W.ghost.torn /\ X.ghost.spurious = W.ghost.spurious
      /\ X.ghost.unread = (IF left THEN W.ghost.unread \cup {c} ELSE W.ghost.unread)
      /\ X.ghost.blind = (IF blind THEN W.ghost.blind \cup {c} ELSE W.ghost.blind)
  <2>1. GhostShape(W.ghost) /\ GhostType(W.ghost)
    BY <1>1
  <2>2. FlushNotes(W.ghost, X.ghost, c, left, blind)
    BY <1>3, <2>1, FlushingIs
  <2> QED
    BY <2>2 DEF FlushNotes
<1>5. seen => c \notin W.ghost.unread /\ c \notin W.ghost.blind /\ ~blind
  BY <1>4, <1>s
<1>6. Matches(k, r, seen)
  BY <1>1, <1>2, <1>5, MatchesFirst
<1>7. seen => \A i \in 1..len : cmds[i] = "select" => ~InMulti(cmds, i)
  <2>1. DOMAIN cmds = 1..len
    BY <1>m
  <2> QED
    BY <1>5, <1>b, <2>1 DEF SomeBlind
<1>g. PICK b : Collecting(b, X, c, cmds, a.replies, n) /\ V = b[n]
  <2>1. n \in Nat
    BY <1>2
  <2> QED
    BY <1>2, <1>d, <1>X, <2>1, CollectedAre DEF Flushed1
<1>8. PICK j, h : Follows(X, V, c, k, X.ghost, j, h) /\ Matches(j, f[n], seen)
  <2>1. Shape(X) /\ k = X.client[c] /\ SockType(k) /\ GhostType(X.ghost)
    BY <1>1, <1>3, <1>4 DEF Became
  <2>2. ConnType(r) /\ r.multi = "no" /\ n \in 0..Len(cmds) /\ Answering(f, r, cmds, Len(cmds))
    BY <1>1, <1>2, <1>f, <1>m
  <2>3. /\ seen => \A i \in 1..Len(cmds) : cmds[i] = "select" => ~InMulti(cmds, i)
        /\ \A i \in 1..Len(cmds) : a.replies[i] = Serve(f[i - 1], cmds[i]).reply
    BY <1>7, <1>f, <1>m
  <2>4. Collecting(b, X, c, cmds, a.replies, n) /\ cmds \in Seq(Piped)
    BY <1>c, <1>g
  <2>5. Collectable(X, c, k, r, seen, cmds, f, a.replies, n, b)
    BY <1>6, <2>1, <2>2, <2>3, <2>4, Zenon DEF Collectable
  <2>6. \E j, h : Follows(X, b[n], c, k, X.ghost, j, h) /\ Matches(j, f[n], seen)
    BY <2>5, CollectableFollows, Zenon
  <2> QED
    BY <1>g, <2>6
<1>9. /\ Altered(X, V, c, j, h) /\ Kin(k, j) /\ SeenGhost(X.ghost, h, c, k.persistent) /\ GhostShape(h) /\ GhostType(h)
      /\ h.drift = W.ghost.drift /\ h.mixed = W.ghost.mixed /\ h.torn = W.ghost.torn
      /\ h.unread = X.ghost.unread /\ h.blind = X.ghost.blind
      /\ c \in h.spurious => c \in W.ghost.spurious \/ k.persistent
  BY <1>4, <1>8 DEF Follows, SeenGhost
<1>10. OthersNoted(W.ghost, h, c)
  BY <1>4, <1>9 DEF OthersNoted, SeenGhost
<1>11. Became(W, V, c, s, j, q) /\ V.ghost = h /\ V.client[c] = j
  <2>1. At(W, c, k, s, r)
    OBVIOUS
  <2> QED
    BY <1>3, <1>9, <2>1, AlteredIs
<1>12. /\ SockType(j) /\ j.stream = s /\ j.persistent = k.persistent /\ j.mode = k.mode
       /\ j.callbacks = k.callbacks /\ j.pipeline_cmd = k.pipeline_cmd
  BY <1>1, <1>9 DEF Kin
<1>13. NotesOK(h, c, j)
  BY <1>1, <1>9, <1>12 DEF NotesOK, Torn
<1>14. Explained(h, c, j)
  BY <1>1, <1>9, <1>12 DEF Explained
<1>15. Along(r, f[len], cmds, len)
  BY <1>1, <1>2, <1>f, <1>m, AnsweringAlong
<1>16. /\ ConnType(q) /\ q.open /\ q.db = f[len].db /\ q.watch = f[len].watch /\ q.multi = f[len].multi
       /\ (q.unread <=> left)
  <2>1. ConnType(f[len]) /\ f[len].open /\ ~f[len].unread
    BY <1>1, <1>2, <1>15 DEF Along
  <2>2. /\ ConnType(q) /\ q.open = a.r.open /\ q.db = a.r.db /\ q.multi = a.r.multi
        /\ q.watch = a.r.watch /\ (q.unread <=> d > 0)
    <3>1. ConnType(a.r) /\ ~a.r.unread
      BY <1>f, <2>1
    <3>2. StillOn(q, a.r, d)
      BY <1>q, <3>1, LeftIs
    <3> QED
      BY <3>2 DEF StillOn
  <2>3. q.unread <=> left
    BY <1>l, <2>2, Zenon DEF SomeLeft
  <2> QED
    BY <2>1, <2>2, <2>3, <1>f
<1>17. StreamOK(h, c, j, q)
  <2>1. j.mode # {"MULTI"}
    BY <1>1, <1>12
  <2>2. CASE left
    BY <1>4, <1>8, <1>9, <1>16, <2>1, <2>2, MatchesLeft
  <2>3. CASE ~left
    <3>1. n = len
      <4>1. ~(d > 0)
        BY <1>l, <2>3, Zenon DEF SomeLeft
      <4> QED
        BY <1>2, <1>d, <4>1
    <3>2. len # 0
      BY <1>1, <1>c, <1>m
    <3>3. ~OpenAt(cmds, len)
      BY <1>1, <1>2, <1>c, <1>m, <3>1, <3>2, BlockClosed
    <3>4. q.multi = "no"
      BY <1>15, <1>16, <3>3 DEF Along
    <3>5. ~q.unread
      BY <1>16, <2>3
    <3>6. c \in h.unread \/ c \in h.blind \/ seen
      BY <1>9, <1>s
    <3> QED
      BY <1>8, <1>16, <2>1, <3>1, <3>4, <3>5, <3>6, MatchesLast
  <2> QED
    BY <2>2, <2>3
<1> QED
  BY <1>1, <1>9, <1>10, <1>11, <1>12, <1>13, <1>14, <1>16, <1>17, BecameGood DEF Well

\* A reply is taken for another's, and it is known why.
LEMMA MixedWell ==
  ASSUME NEW W, NEW c \in Client, Open(W, c), c \in W.ghost.torn \/ ~Quiet(W.ghost, c),
         NEW V, V = MixedWorld(W, c)
  PROVE  Well(V, c) /\ V.client[c] = W.client[c]
<1>1. PICK k, s, r : At(W, c, k, s, r)
  BY HeldAt DEF Open
<1>2. /\ Good(W, c) /\ Shape(W) /\ W.client[c] = k /\ W.conn[s] = r /\ GhostType(W.ghost) /\ GhostShape(W.ghost)
      /\ SockType(k) /\ ConnType(r) /\ r.open /\ k.stream = s
      /\ NotesOK(W.ghost, c, k) /\ Explained(W.ghost, c, k) /\ StreamOK(W.ghost, c, k, r)
  BY <1>1 DEF At, Shape, GhostShape, Open
<1>h. PICK h : h = MixedGhost(W.ghost, c)
  OBVIOUS
<1>3. /\ GhostShape(h) /\ GhostType(h) /\ OthersNoted(W.ghost, h, c) /\ h.drift = W.ghost.drift
      /\ h.mixed = W.ghost.mixed \cup {c} /\ h.unread = W.ghost.unread /\ h.blind = W.ghost.blind
      /\ h.torn = W.ghost.torn /\ h.spurious = W.ghost.spurious
  BY <1>2, <1>h, MixedGhostIs
<1>4. Altered(W, V, c, k, h)
  <2>1. Altered(W, W, c, k, W.ghost)
    BY <1>2, SelfAlone, AloneToo
  <2>2. Altered(W, MixedWorld(W, c), c, k, MixedGhost(W.ghost, c))
    BY <1>2, <2>1, MixedAltered
  <2> QED
    BY <1>h, <2>2
<1>5. Became(W, V, c, s, k, r) /\ V.ghost = h /\ V.client[c] = k
  BY <1>1, <1>3, <1>4, BecameSelf, AlteredIs
<1>6. NotesOK(h, c, k)
  BY <1>2, <1>3 DEF NotesOK
<1>7. Explained(h, c, k)
  BY <1>2, <1>3 DEF Explained, Quiet
<1>8. StreamOK(h, c, k, r)
  BY <1>2, <1>3 DEF StreamOK, DatabaseOK, CleanOK, QueueOK, WatchOK
<1> QED
  BY <1>1, <1>2, <1>3, <1>5, <1>6, <1>7, <1>8, BecameGood DEF Well

LEMMA FlushedGood ==
  ASSUME NEW W, NEW c \in Client, Sending(W, c), NEW V \in Flushed(W, c)
  PROVE  Well(V, c) /\ V.client[c].mode \in {{}, {"PIPELINE"}}
<1>1. PICK k, s, r : At(W, c, k, s, r)
  BY HeldAt DEF Sending, Open
<1>2. /\ Open(W, c) /\ Good(W, c) /\ W.client[c] = k /\ W.conn[s] = r /\ k.stream = s
      /\ k.mode \in {{}, {"PIPELINE"}} /\ StreamOK(W.ghost, c, k, r) /\ c \notin W.ghost.mixed
  BY <1>1 DEF At, Sending, Open
<1>3. \/ /\ V = MixedWorld(W, c)
         /\ W.conn[s].unread \/ W.conn[s].multi # "no" \/ (c \in W.ghost.torn /\ k.callbacks # << >>)
      \/ MayFail(W) /\ V = Fault(Lost(W, c))
      \/ \E n : Flushes(W, V, c, s, k, Served(W.conn[s], k.pipeline_cmd), n)
  BY <1>2, FlushedIs
<1>4. CASE /\ V = MixedWorld(W, c)
           /\ W.conn[s].unread \/ W.conn[s].multi # "no" \/ (c \in W.ghost.torn /\ k.callbacks # << >>)
  <2>1. c \in W.ghost.torn \/ ~Quiet(W.ghost, c)
    BY <1>2, <1>4 DEF StreamOK, CleanOK
  <2> QED
    BY <1>2, <1>4, <2>1, MixedWell
<1>5. CASE MayFail(W) /\ V = Fault(Lost(W, c))
  <2>L. PICK L : L = Lost(W, c)
    OBVIOUS
  <2>1. Gone(W, L, c) /\ L.faults = W.faults
    BY <1>2, <2>L, LostGood
  <2>2. Gone(W, V, c)
    BY <1>5, <2>L, <2>1, FaultedGone
  <2> QED
    BY <2>2 DEF Gone, Well
<1>6. CASE \E n : Flushes(W, V, c, s, k, Served(W.conn[s], k.pipeline_cmd), n)
  BY <1>1, <1>2, <1>6, CollectedGood
<1> QED
  BY <1>3, <1>4, <1>5, <1>6

\* A client between two methods changes its notes.
LEMMA AlteredWell ==
  ASSUME NEW Y, NEW c \in Client, Well(Y, c), NEW e, Y.client[c] = e,
         NEW j, SockType(j), j.stream = e.stream, j.persistent = e.persistent, Idle(j),
         NEW h, GhostShape(h), GhostType(h), OthersNoted(Y.ghost, h, c), h.drift = Y.ghost.drift,
         NotesOK(h, c, j), Explained(h, c, j),
         \A r : StreamOK(Y.ghost, c, e, r) => StreamOK(h, c, j, r),
         NEW V, Altered(Y, V, c, j, h)
  PROVE  Well(V, c)
<1>1. Good(Y, c) /\ Shape(Y) /\ SockType(e)
  BY DEF Well, Good, ClientsOK
<1>2. CASE Held(Y, c)
  <2>1. PICK k, s, r : At(Y, c, k, s, r)
    BY <1>1, <1>2, HeldAt
  <2>2. k = e /\ e.stream = s /\ ConnType(r) /\ r.open /\ StreamOK(h, c, j, r)
    BY <2>1 DEF At
  <2>3. Became(Y, V, c, s, j, r) /\ V.ghost = h
    BY <2>1, BecameSelf, AlteredIs
  <2> QED
    BY <1>1, <2>1, <2>2, <2>3, BecameGood DEF Well
<1>3. CASE ~Held(Y, c)
  <2>1. e.stream = NoStream
    BY <1>3 DEF Held
  <2>2. /\ Shape(V) /\ V.client = [Y.client EXCEPT ![c] = j] /\ V.conn = Y.conn /\ V.pool = Y.pool
        /\ V.nb_active = Y.nb_active /\ V.faults = Y.faults /\ V.ghost = h
    BY <1>1 DEF Altered, Shape, WorldFields, GhostShape
  <2>3. GivesUp(Y, V, c)
    BY <2>1, <2>2 DEF GivesUp
  <2>4. NumbersType(V)
    BY <1>1, <2>2 DEF Good, NumbersType
  <2>5. Good(V, c)
    BY <1>1, <2>1, <2>2, <2>3, <2>4, Leaves
  <2>6. V.client[c] = j
    BY <1>1, <2>2 DEF Shape
  <2> QED
    BY <2>5, <2>6 DEF Well
<1> QED
  BY <1>2, <1>3

\* exec() of a pipeline ends: what was buffered is forgotten, and the mode.
Emptied(Y, c) == [Y EXCEPT !.client[c].pipeline_cmd = << >>]
PipeEnded(Y, V, c) == V = [free_reply_callbacks(Emptied(Y, c), c) EXCEPT !.client[c].mode = @ \ {"PIPELINE"}]

LEMMA PipelineEnded ==
  ASSUME NEW W, NEW c \in Client, Well(W, c), W.client[c].mode \in {{}, {"PIPELINE"}},
         NEW V, PipeEnded(W, V, c)
  PROVE  Well(V, c)
<1>k. PICK k : k = W.client[c]
  OBVIOUS
<1>2. /\ SockType(k) /\ NotesOK(W.ghost, c, k) /\ Shape(W) /\ Idle(k) /\ Explained(W.ghost, c, k)
      /\ GhostType(W.ghost) /\ GhostShape(W.ghost) /\ k.mode \in {{}, {"PIPELINE"}}
  BY <1>k DEF Well, Good, ClientsOK, Shape, GhostShape
<1>a. PICK k1 : k1 = [k EXCEPT !.pipeline_cmd = << >>]
  OBVIOUS
<1>b. PICK k2 : k2 = [k1 EXCEPT !.callbacks = << >>]
  OBVIOUS
<1>j. PICK j : j = [k2 EXCEPT !.mode = @ \ {"PIPELINE"}]
  OBVIOUS
<1>h. PICK h : Freed(W.ghost, h, c, k1)
  BY DEF Freed
<1>Y. PICK Y : Y = Emptied(W, c)
  OBVIOUS
<1>F. PICK F : F = free_reply_callbacks(Y, c)
  OBVIOUS
<1>3. Alone(W, Y, c, k1)
  BY <1>2, <1>a, <1>k, <1>Y DEF Alone, Shape, WorldFields, Emptied
<1>4. Shape(F) /\ F.client[c] = k2
  BY <1>2, <1>3, <1>b, <1>F, FreedClientOf
<1>5. Alone(F, V, c, j)
  <2>1. V = [F EXCEPT !.client[c].mode = @ \ {"PIPELINE"}]
    BY <1>Y, <1>F DEF PipeEnded
  <2> QED
    BY <1>4, <1>j, <2>1 DEF Alone, Shape, WorldFields
<1>6. Altered(W, V, c, j, h)
  BY <1>2, <1>3, <1>5, <1>F, <1>h, FreedFrom
<1>7. /\ SockShape(j) /\ j.status = k.status /\ j.stream = k.stream /\ j.persistent = k.persistent
      /\ j.mode = k.mode \ {"PIPELINE"} /\ j.callbacks = << >> /\ j.pipeline_cmd = << >>
      /\ j.db = k.db /\ j.watching = k.watching /\ j.watched = k.watched /\ j.touched = k.touched
  BY <1>2, <1>a, <1>b, <1>j DEF SockType, SockShape, SockFields
<1>8. j.mode = {}
  BY <1>2, <1>7
<1>9. SockType(j)
  <2>1. SockFlags(j)
    BY <1>2, <1>7, <1>8 DEF SockType, SockFlags
  <2>2. SockNotes(j)
    BY <1>7 DEF SockNotes
  <2> QED
    BY <1>7, <2>1, <2>2 DEF SockType
<1>10. /\ GhostShape(h) /\ GhostType(h) /\ OthersNoted(W.ghost, h, c) /\ h.drift = W.ghost.drift
       /\ h.mixed = W.ghost.mixed /\ h.unread = W.ghost.unread /\ h.blind = W.ghost.blind
       /\ h.spurious = W.ghost.spurious
       /\ c \in h.torn <=> c \in W.ghost.torn /\ ~(k1.pipeline_cmd = << >> /\ c \notin W.ghost.mixed)
  BY <1>2, <1>h, FreedGhostIs
<1>11. NotesOK(h, c, j)
  BY <1>7, <1>8 DEF NotesOK, Torn
<1>12. Explained(h, c, j)
  BY <1>2, <1>7, <1>10 DEF Explained, Quiet
<1>13. Idle(j)
  BY <1>2, <1>7, <1>8 DEF Idle
<1>14. ASSUME NEW r, StreamOK(W.ghost, c, k, r)
       PROVE  StreamOK(h, c, j, r)
  BY <1>2, <1>7, <1>8, <1>10, <1>14 DEF StreamOK, DatabaseOK, CleanOK, QueueOK, WatchOK, Quiet
<1>15. W.client[c] = k
  BY <1>k
<1> QED
  BY <1>6, <1>7, <1>9, <1>10, <1>11, <1>12, <1>13, <1>14, <1>15, AlteredWell

LEMMA ExecPipelineGood ==
  ASSUME NEW W, NEW c \in Client, Open(W, c), W.client[c].mode = {"PIPELINE"}, NEW V \in ExecPipeline(W, c)
  PROVE  Well(V, c)
<1>1. PICK Y \in IF W.client[c].pipeline_cmd = << >> THEN {W}
                 ELSE UNION {IF e.ok THEN Flushed(e.w, c) ELSE {e.w} : e \in redis_check_eof(W, c)} :
         PipeEnded(Y, V, c)
  BY Zenon DEF ExecPipeline, PipeEnded, Emptied
<1>2. CASE W.client[c].pipeline_cmd = << >>
  <2>1. Well(W, c)
    BY OpenIsWell
  <2> QED
    BY <1>1, <1>2, <2>1, PipelineEnded
<1>3. CASE W.client[c].pipeline_cmd # << >>
  <2>1. PICK e \in redis_check_eof(W, c) : Y \in IF e.ok THEN Flushed(e.w, c) ELSE {e.w}
    BY <1>1, <1>3, Zenon
  <2>2. IF e.ok THEN Passed(W, e.w, c) ELSE Fail(W, e.w, c) /\ ~Held(e.w, c)
    BY EofGood DEF Open
  <2>3. CASE e.ok
    <3>1. Sending(e.w, c)
      BY <1>3, <2>2, <2>3 DEF Passed, Sending, Open
    <3>2. Well(Y, c) /\ Y.client[c].mode \in {{}, {"PIPELINE"}}
      BY <2>1, <2>3, <3>1, FlushedGood
    <3> QED
      BY <1>1, <3>2, PipelineEnded
  <2>4. CASE ~e.ok
    <3>1. Y = e.w
      BY <2>1, <2>4
    <3>2. Well(Y, c) /\ Y.client[c].mode \in {{}, {"PIPELINE"}}
      BY <2>2, <2>4, <3>1 DEF Fail, Well, Idle, Held
    <3> QED
      BY <1>1, <3>2, PipelineEnded
  <2> QED
    BY <2>3, <2>4
<1> QED
  BY <1>2, <1>3

LEMMA ExecIs ==
  ASSUME NEW W, NEW c, NEW V \in exec(W, c)
  PROVE  \/ /\ W.client[c].mode = {"MULTI", "PIPELINE"}
            /\ V = [Enqueue(W, c, "EXEC", "null") EXCEPT !.client[c].mode = {"PIPELINE"}]
         \/ W.client[c].mode = {"MULTI"} /\ V \in ExecMulti(W, c)
         \/ W.client[c].mode = {"PIPELINE"} /\ V \in ExecPipeline(W, c)
         \/ V = W
<1>1. /\ {"MULTI", "PIPELINE"} # {"MULTI"} /\ {"MULTI", "PIPELINE"} # {"PIPELINE"}
      /\ {"MULTI"} # {"PIPELINE"}
  OBVIOUS
<1>2. CASE W.client[c].mode = {"MULTI", "PIPELINE"}
  BY <1>1, <1>2, Zenon DEF exec
<1>3. CASE W.client[c].mode = {"MULTI"}
  BY <1>1, <1>3, Zenon DEF exec
<1>4. CASE W.client[c].mode = {"PIPELINE"}
  BY <1>1, <1>4, Zenon DEF exec
<1>5. CASE W.client[c].mode \notin {{"MULTI", "PIPELINE"}, {"MULTI"}, {"PIPELINE"}}
  BY <1>5, Zenon DEF exec
<1> QED
  BY <1>2, <1>3, <1>4, <1>5, Zenon

LEMMA ExecGood ==
  ASSUME NEW W, NEW c \in Client, Open(W, c), NEW V \in exec(W, c)
  PROVE  Well(V, c)
<1>1. CASE /\ W.client[c].mode = {"MULTI", "PIPELINE"}
           /\ V = [Enqueue(W, c, "EXEC", "null") EXCEPT !.client[c].mode = {"PIPELINE"}]
  <2>1. "PIPELINE" \in W.client[c].mode
    BY <1>1
  <2> QED
    BY <1>1, <2>1, EnqueueExec
<1>2. CASE W.client[c].mode = {"MULTI"} /\ V \in ExecMulti(W, c)
  BY <1>2, ExecMultiGood
<1>3. CASE W.client[c].mode = {"PIPELINE"} /\ V \in ExecPipeline(W, c)
  BY <1>3, ExecPipelineGood
<1>4. CASE V = W
  BY <1>4, OpenIsWell
<1> QED
  BY <1>1, <1>2, <1>3, <1>4, ExecIs

---------------------------------------------------------------------------
(* A RedisSock freed and replaced: connect() and the destructor.           *)

\* No Redis object, and one with no stream yet.
NoSock == [redis_sock_create(FALSE) EXCEPT !.status = "none"]

Fresh(k, persistent) ==
  /\ SockType(k) /\ k.stream = NoStream /\ k.persistent = persistent /\ k.mode = {} /\ ~k.watched
  /\ k.pipeline_cmd = << >> /\ k.callbacks = << >> /\ k.db = 0 /\ k.status \in {"none", "disconnected"}

LEMMA CreatedIs ==
  ASSUME NEW persistent \in BOOLEAN
  PROVE  Fresh(redis_sock_create(persistent), persistent)
<1>k. PICK k : k = redis_sock_create(persistent)
  OBVIOUS
<1>1. /\ SockShape(k) /\ k.stream = NoStream /\ k.persistent = persistent /\ k.mode = {} /\ k.watched = FALSE
      /\ k.touched = FALSE /\ k.watching = FALSE
      /\ k.pipeline_cmd = << >> /\ k.callbacks = << >> /\ k.db = 0 /\ k.status = "disconnected"
  BY <1>k DEF redis_sock_create, SockShape, SockFields
<1>2. SockFlags(k)
  BY <1>1, SockAssumption DEF SockFlags, Streams, NoStream
<1>3. SockNotes(k)
  BY <1>1 DEF SockNotes
<1> QED
  BY <1>1, <1>2, <1>3, <1>k DEF Fresh, SockType

LEMMA NoSockIs == Fresh(NoSock, FALSE)
<1>k. PICK k : k = NoSock
  OBVIOUS
<1>1. /\ SockShape(k) /\ k.stream = NoStream /\ k.persistent = FALSE /\ k.mode = {} /\ k.watched = FALSE
      /\ k.touched = FALSE /\ k.watching = FALSE
      /\ k.pipeline_cmd = << >> /\ k.callbacks = << >> /\ k.db = 0 /\ k.status = "none"
  BY <1>k DEF NoSock, redis_sock_create, SockShape, SockFields
<1>2. SockFlags(k)
  BY <1>1, SockAssumption DEF SockFlags, Streams, NoStream
<1>3. SockNotes(k)
  BY <1>1 DEF SockNotes
<1> QED
  BY <1>1, <1>2, <1>3, <1>k DEF Fresh, SockType

\* A new RedisSock has nothing noted of it.
LEMMA FreshNotes ==
  ASSUME NEW k, NEW p, Fresh(k, p), NEW g, NEW c, c \notin g.spurious, c \in g.mixed => ~Quiet(g, c)
  PROVE  NotesOK(g, c, k) /\ Explained(g, c, k) /\ Idle(k)
  BY DEF Fresh, NotesOK, Torn, Explained, Idle

\* A client without a stream gets a new RedisSock, and its notes go.
Forgets(W, V, c, k) == V = [W EXCEPT !.client[c] = k, !.ghost = Forgotten(@, c)]

LEMMA ForgottenIs ==
  ASSUME NEW g, GhostShape(g), GhostType(g), NEW c \in Client, NEW h, h = Forgotten(g, c)
  PROVE  /\ GhostShape(h) /\ GhostType(h) /\ OthersNoted(g, h, c) /\ h.drift = g.drift
         /\ h.mixed = g.mixed /\ h.unread = g.unread /\ h.spurious = g.spurious
<1>1. /\ GhostShape(h) /\ h.drift = g.drift /\ h.mixed = g.mixed /\ h.unread = g.unread
      /\ h.blind = g.blind \ {c} /\ h.torn = g.torn \ {c} /\ h.unguarded = g.unguarded /\ h.spurious = g.spurious
  BY DEF GhostShape, GhostFields, Forgotten
<1>2. GhostType(h)
  BY <1>1 DEF GhostType
<1>3. OthersNoted(g, h, c)
  BY <1>1 DEF OthersNoted
<1> QED
  BY <1>1, <1>2, <1>3

\* The client has a RedisSock of its own and no stream.
Renewed(V, c, k) ==
  /\ Good(V, c) /\ ~Held(V, c) /\ V.client[c] = k

LEMMA ForgetsGood ==
  ASSUME NEW W, NEW c \in Client, Good(W, c), ~Held(W, c), c \notin W.ghost.spurious,
         c \in W.ghost.mixed => ~Quiet(W.ghost, c),
         NEW k, NEW p \in BOOLEAN, Fresh(k, p), NEW V, Forgets(W, V, c, k)
  PROVE  /\ Renewed(V, c, k) /\ c \notin V.ghost.spurious
         /\ c \in V.ghost.mixed => ~Quiet(V.ghost, c)
<1>h. PICK h : h = Forgotten(W.ghost, c)
  OBVIOUS
<1>1. Shape(W) /\ GhostShape(W.ghost) /\ GhostType(W.ghost)
  BY DEF Good, Shape, GhostShape
<1>2. /\ GhostShape(h) /\ GhostType(h) /\ OthersNoted(W.ghost, h, c) /\ h.drift = W.ghost.drift
      /\ h.mixed = W.ghost.mixed /\ h.unread = W.ghost.unread /\ h.spurious = W.ghost.spurious
  BY <1>1, <1>h, ForgottenIs
<1>3. V = [W EXCEPT !.client[c] = k, !.ghost = h]
  BY <1>1, <1>h DEF Forgets, Shape, WorldFields
<1>4. /\ Shape(V) /\ V.client = [W.client EXCEPT ![c] = k] /\ V.conn = W.conn /\ V.pool = W.pool
      /\ V.nb_active = W.nb_active /\ V.faults = W.faults /\ V.ghost = h /\ V.client[c] = k
  BY <1>1, <1>2, <1>3 DEF Shape, WorldFields, GhostShape
<1>5. c \notin h.spurious /\ (c \in h.mixed => ~Quiet(h, c))
  BY <1>2 DEF Quiet
<1>6. NotesOK(h, c, k) /\ Explained(h, c, k) /\ Idle(k)
  BY <1>5, FreshNotes
<1>7. SockType(k) /\ k.stream = NoStream
  BY DEF Fresh
<1>8. GivesUp(W, V, c)
  <2>1. W.client[c].stream = NoStream
    BY DEF Held
  <2> QED
    BY <1>4, <2>1 DEF GivesUp
<1>9. NumbersType(V)
  BY <1>2, <1>4 DEF Good, NumbersType
<1>10. Good(V, c)
  BY <1>2, <1>4, <1>6, <1>7, <1>8, <1>9, Leaves
<1> QED
  BY <1>4, <1>5, <1>7, <1>10 DEF Renewed, Held

\* redis_free_socket, by a client whose replies are its own or whose block is open.
LEMMA FreeGood ==
  ASSUME NEW W, NEW c \in Client, Good(W, c), c \notin W.ghost.spurious,
         c \in W.ghost.mixed => ~Quiet(W.ghost, c),
         W.client[c].mode # {} \/ c \notin W.ghost.mixed \/ ~Held(W, c),
         NEW V, V = redis_free_socket(W, c)
  PROVE  /\ Renewed(V, c, NoSock) /\ c \notin V.ghost.spurious
         /\ c \in V.ghost.mixed => ~Quiet(V.ghost, c)
<1>D. PICK D : D = redis_sock_disconnect(W, c, FALSE, TRUE)
  OBVIOUS
<1>1. PartsWell(W, D, c, TRUE)
  BY <1>D, DisconnectGood
<1>2. /\ Good(D, c) /\ ~Held(D, c) /\ SameNoted(W.ghost, D.ghost)
  BY <1>1 DEF PartsWell, Parted, Held
<1>3. c \notin D.ghost.spurious /\ (c \in D.ghost.mixed => ~Quiet(D.ghost, c))
  BY <1>2 DEF SameNoted, Quiet
<1>4. Forgets(D, V, c, NoSock)
  BY <1>D DEF redis_free_socket, NoSock, Forgets
<1> QED
  BY <1>2, <1>3, <1>4, NoSockIs, ForgetsGood

LEMMA RenewedWell ==
  ASSUME NEW V, NEW c, NEW k, NEW p, Fresh(k, p), Renewed(V, c, k)
  PROVE  Well(V, c)
  BY DEF Renewed, Fresh, Well, Idle

\* The stream of a block that was discarded is closed with it.
LEMMA DiscardedFree ==
  ASSUME NEW W, NEW c \in Client, Good(W, c), W.ghost.mixed = {}, W.ghost.spurious = {},
         NEW k, NEW s, NEW r, At(W, c, k, s, r), k.mode = {"MULTI"},
         NEW Y, NEW q, Became(W, Y, c, s, k, q), Y.ghost = W.ghost,
         NEW V, V = redis_free_socket(Y, c)
  PROVE  Well(V, c)
<1>1. /\ Shape(W) /\ Shape(Y) /\ SockType(k) /\ k.stream = s /\ s # NoStream /\ W.client[c] = k /\ s \in Streams
      /\ GhostType(Y.ghost) /\ GhostShape(Y.ghost) /\ Y.client = [W.client EXCEPT ![c] = k] /\ Y.client[c] = k
      /\ Y.conn = [W.conn EXCEPT ![s] = q] /\ Y.pool = W.pool /\ Y.nb_active = W.nb_active /\ Y.faults = W.faults
  BY DEF At, Became, Shape, GhostShape
<1>2. SockShape(k) /\ SockBits(k) /\ SockNotes(k)
  BY <1>1 DEF SockType, SockFlags, SockBits
<1>D. PICK D : D = redis_sock_disconnect(Y, c, FALSE, TRUE)
  OBVIOUS
<1>p. PICK p : Disconnected(Y, D, c, k, p, FALSE, TRUE)
  BY <1>1, <1>2, <1>D, DisconnectIs
<1>g. PICK g : g = D.ghost
  OBVIOUS
<1>t. PICK t : t = IF Torn(p) THEN Y.ghost.torn \cup {c} ELSE Y.ghost.torn
  OBVIOUS
<1>3. /\ Shape(D) /\ D.client = [Y.client EXCEPT ![c] = p] /\ D.faults = Y.faults
      /\ D.conn = [Y.conn EXCEPT ![s] = Closed] /\ D.pool = Y.pool
      /\ D.nb_active = IF k.persistent THEN Y.nb_active - 1 ELSE Y.nb_active
  BY <1>1, <1>p DEF Disconnected
<1>4. g = [Y.ghost EXCEPT !.torn = t]
  BY <1>p, <1>g, <1>t DEF Disconnected
<1>5. /\ GhostShape(g) /\ g.drift = Y.ghost.drift /\ GhostType(g) /\ SameNoted(Y.ghost, g) /\ OthersNoted(Y.ghost, g, c)
  <2>1. t \in {Y.ghost.torn, Y.ghost.torn \cup {c}}
    BY <1>t
  <2> QED
    BY <1>1, <1>4, <2>1, GhostTorn DEF GhostShape
<1>h. PICK h : h = Forgotten(g, c)
  OBVIOUS
<1>6. /\ GhostShape(h) /\ GhostType(h) /\ OthersNoted(g, h, c) /\ h.drift = g.drift
      /\ h.mixed = g.mixed /\ h.unread = g.unread /\ h.spurious = g.spurious
  BY <1>5, <1>h, ForgottenIs
<1>7. V = [D EXCEPT !.client[c] = NoSock, !.ghost = h]
  BY <1>3, <1>D, <1>g, <1>h DEF redis_free_socket, NoSock, Shape, WorldFields
<1>8. /\ Shape(V) /\ V.client = [W.client EXCEPT ![c] = NoSock] /\ V.conn = [W.conn EXCEPT ![s] = Closed]
      /\ V.pool = W.pool /\ V.nb_active = (IF k.persistent THEN W.nb_active - 1 ELSE W.nb_active)
      /\ V.faults = W.faults /\ V.ghost = h /\ V.client[c] = NoSock
  <2>1. /\ Shape(V) /\ V.client = [D.client EXCEPT ![c] = NoSock] /\ V.conn = D.conn /\ V.pool = D.pool
        /\ V.nb_active = D.nb_active /\ V.faults = D.faults /\ V.ghost = h /\ V.client[c] = NoSock
    BY <1>3, <1>6, <1>7 DEF Shape, WorldFields, GhostShape
  <2>2. V.client = [W.client EXCEPT ![c] = NoSock]
    <3>1. PICK n : n = NoSock
      OBVIOUS
    <3>2. Y.client = W.client
      BY <1>1 DEF Shape
    <3>3. V.client = [D.client EXCEPT ![c] = n] /\ D.client = [W.client EXCEPT ![c] = p]
      BY <1>3, <2>1, <3>1, <3>2
    <3>4. V.client = [W.client EXCEPT ![c] = n]
      BY <3>3
    <3> QED
      BY <3>1, <3>4
  <2>3. V.conn = [W.conn EXCEPT ![s] = Closed]
    BY <1>1, <1>3, <2>1 DEF Shape
  <2> QED
    BY <1>1, <1>3, <2>1, <2>2, <2>3
<1>9. OthersNoted(W.ghost, h, c) /\ h.drift = W.ghost.drift /\ h.mixed = {} /\ h.spurious = {}
  BY <1>5, <1>6 DEF OthersNoted, SameNoted
<1>10. NotesOK(h, c, NoSock) /\ Explained(h, c, NoSock) /\ Idle(NoSock)
  BY <1>9, NoSockIs, FreshNotes
<1>11. GivesUp(W, V, c)
  BY <1>1, <1>8 DEF GivesUp
<1>12. NumbersType(V)
  <2>1. NumbersType(W)
    BY DEF Good
  <2>2. V.nb_active \in Int /\ V.nb_active <= W.nb_active
    BY <1>8, <2>1 DEF NumbersType
  <2> QED
    BY <1>8, <1>9, <2>1, <2>2, SockAssumption DEF NumbersType
<1>13. Good(V, c)
  BY <1>6, <1>8, <1>9, <1>10, <1>11, <1>12, NoSockIs, Leaves DEF Fresh
<1> QED
  BY <1>8, <1>10, <1>13 DEF Well

LEMMA DestructGood ==
  ASSUME NEW W, NEW c \in Client, Well(W, c), W.ghost.mixed = {}, W.ghost.spurious = {},
         NEW V \in destruct(W, c)
  PROVE  Well(V, c)
<1>1. PICK Y \in IF W.client[c].mode = {"MULTI"} /\ W.client[c].stream # NoStream
                 THEN {x.w : x \in redis_send_discard(W, c)} ELSE {W} : V = redis_free_socket(Y, c)
  BY Zenon DEF destruct
<1>2. CASE ~(W.client[c].mode = {"MULTI"} /\ W.client[c].stream # NoStream)
  <2>1. Y = W
    BY <1>1, <1>2
  <2> QED
    BY <1>1, <2>1, FreeGood, NoSockIs, RenewedWell DEF Well
<1>3. CASE W.client[c].mode = {"MULTI"} /\ W.client[c].stream # NoStream
  <2>1. PICK x \in Request(W, c, "DISCARD") : Y = x.w
    BY <1>1, <1>3, Zenon DEF redis_send_discard
  <2>2. Good(W, c) /\ Held(W, c) /\ c \notin W.ghost.mixed /\ SockType(W.client[c])
    BY <1>3 DEF Well, Held, Good, ClientsOK
  <2>3. W.client[c].status = "ready"
    BY <1>3, <2>2 DEF SockType, SockFlags
  <2>4. Open(W, c)
    BY <2>2, <2>3 DEF Open
  <2>5. "DISCARD" \in Sent
    BY DEF Sent
  <2>6. CASE x.reply = "none" /\ Fail(W, x.w, c)
    <3>1. /\ Good(Y, c) /\ Y.ghost.spurious = {} /\ (c \in Y.ghost.mixed => ~Quiet(Y.ghost, c))
          /\ Y.client[c].mode # {} \/ ~Held(Y, c)
      BY <1>3, <2>1, <2>6 DEF Fail, NotedSince
    <3> QED
      BY <1>1, <3>1, FreeGood, NoSockIs, RenewedWell
  <2>7. CASE \E U, k, s, r, q : Passed(W, U, c) /\ AnswerAt(U, x.w, c, k, s, r, "DISCARD", x.reply, q)
    <3>1. PICK U, k, s, r, q : Passed(W, U, c) /\ AnswerAt(U, x.w, c, k, s, r, "DISCARD", x.reply, q)
      BY <2>7
    <3>2. At(U, c, k, s, r) /\ RepliedAs(U, Y, c, k, s, r, "DISCARD", x.reply, q)
      BY <2>1, <3>1 DEF AnswerAt
    <3>3. U = W /\ r.up
      BY <1>3, <3>1, <3>2, PassedMode
    <3>4. /\ Served1(r, "DISCARD", q, x.reply) /\ Became(W, Y, c, s, k, q) /\ Y.ghost = W.ghost
          /\ ConnType(r) /\ r.open /\ SockType(k) /\ k.stream = s /\ W.client[c] = k /\ At(W, c, k, s, r)
      BY <3>2, <3>3 DEF RepliedAs, At
    <3> QED
      BY <1>1, <1>3, <2>2, <3>4, DiscardedFree DEF Well
  <2> QED
    BY <2>1, <2>4, <2>5, <2>6, <2>7, RequestAt
<1> QED
  BY <1>2, <1>3

\* The notes of c leave nothing to explain for a new RedisSock.
Unmixed(g, c) == c \notin g.spurious /\ (c \in g.mixed => ~Quiet(g, c))

LEMMA Replacing ==
  ASSUME NEW W, NEW c \in Client, Good(W, c), ~Held(W, c), Unmixed(W.ghost, c),
         NEW k, NEW p, Fresh(k, p), NEW V, Alone(W, V, c, k)
  PROVE  Good(V, c) /\ V.client[c] = k /\ V.ghost = W.ghost /\ Well(V, c)
<1>1. SockType(k) /\ k.stream = NoStream /\ Idle(k)
  BY DEF Fresh, Idle
<1>2. NotesOK(W.ghost, c, k) /\ Explained(W.ghost, c, k)
  BY FreshNotes DEF Unmixed
<1>3. Good(V, c) /\ V.client[c] = k /\ V.ghost = W.ghost
  BY <1>1, <1>2, Apart
<1> QED
  BY <1>1, <1>3 DEF Well

\* connect(): the old RedisSock is freed and a new one opened, or none is left.
Opening(F, N, c, persistent) == Alone(F, N, c, redis_sock_create(persistent))

Connecting(W, F, N, V, c, persistent) ==
  /\ F = redis_free_socket(W, c) /\ Opening(F, N, c, persistent)
  /\ \E a \in redis_sock_connect(N, c) : \/ a.ok /\ V = a.w
                                         \/ ~a.ok /\ Alone(a.w, V, c, NoSock)

LEMMA ConnectionIs ==
  ASSUME NEW W, NEW c, NEW persistent, NEW V \in redis_connect(W, c, persistent)
  PROVE  \E F, N : Connecting(W, F, N, V, c, persistent)
<1>F. PICK F : F = redis_free_socket(W, c)
  OBVIOUS
<1>1. PICK N : N = [redis_free_socket(W, c) EXCEPT !.client[c] = redis_sock_create(persistent)]
  OBVIOUS
<1>2. PICK a \in redis_sock_connect(N, c) :
        V = IF a.ok THEN a.w ELSE [a.w EXCEPT !.client[c] = [redis_sock_create(FALSE) EXCEPT !.status = "none"]]
  BY <1>1, Zenon DEF redis_connect
<1>3. \/ a.ok /\ V = a.w
      \/ ~a.ok /\ Alone(a.w, V, c, NoSock)
  BY <1>2, Zenon DEF Alone, NoSock
<1>4. Opening(F, N, c, persistent)
  BY <1>1, <1>F, Zenon DEF Opening, Alone
<1> QED
  BY <1>F, <1>2, <1>3, <1>4, Zenon DEF Connecting

LEMMA NewConnection ==
  ASSUME NEW W, NEW c \in Client, Well(W, c), W.ghost.mixed = {}, W.ghost.spurious = {},
         NEW persistent \in BOOLEAN, NEW V \in redis_connect(W, c, persistent)
  PROVE  Well(V, c)
<1>0. PICK F, N : Connecting(W, F, N, V, c, persistent)
  BY ConnectionIs, Zenon
<1>1. /\ F = redis_free_socket(W, c) /\ Opening(F, N, c, persistent)
      /\ \E a \in redis_sock_connect(N, c) : \/ a.ok /\ V = a.w
                                             \/ ~a.ok /\ Alone(a.w, V, c, NoSock)
  BY <1>0, Zenon DEF Connecting
<1>2. Renewed(F, c, NoSock) /\ Unmixed(F.ghost, c)
  BY <1>1, FreeGood DEF Well, Unmixed
<1>k. PICK k : k = redis_sock_create(persistent)
  OBVIOUS
<1>3. Fresh(k, persistent)
  BY <1>k, CreatedIs
<1>4. Good(F, c) /\ ~Held(F, c) /\ Alone(F, N, c, k)
  BY <1>1, <1>2, <1>k, Zenon DEF Renewed, Opening
<1>5. Good(N, c) /\ N.client[c] = k /\ N.ghost = F.ghost
  BY <1>2, <1>3, <1>4, Replacing
<1>6. Wanting(N, c) /\ Unmixed(N.ghost, c)
  BY <1>2, <1>3, <1>5 DEF Wanting, Fresh, Held
<1>7. PICK a \in redis_sock_connect(N, c) :
        \/ a.ok /\ V = a.w
        \/ ~a.ok /\ Alone(a.w, V, c, NoSock)
  BY <1>1
<1>8. Connected(N, a.w, c, a.ok)
  BY <1>6, ConnectGood
<1>9. CASE a.ok /\ V = a.w
  BY <1>8, <1>9 DEF Connected, Well, Idle, Held
<1>10. CASE ~a.ok /\ Alone(a.w, V, c, NoSock)
  <2>1. Good(a.w, c) /\ ~Held(a.w, c) /\ SameNoted(N.ghost, a.w.ghost)
    BY <1>8, <1>10 DEF Connected
  <2>2. Unmixed(a.w.ghost, c)
    BY <1>6, <2>1 DEF Unmixed, SameNoted, Quiet
  <2> QED
    BY <1>10, <2>1, <2>2, NoSockIs, Replacing
<1> QED
  BY <1>7, <1>9, <1>10

---------------------------------------------------------------------------
(* Every action keeps the invariant.                                       *)

LEMMA AllWell ==
  ASSUME NEW W, NEW c \in Client
  PROVE  AllGood(W) <=> Well(W, c)
  BY DEF AllGood, Well, Good

\* A step to a good world keeps the invariant.
LEMMA Becomes ==
  ASSUME NEW V, AllGood(V), Become(V), ini \in Ini
  PROVE  SockInv'
<1>1. World' = V
  BY DEF AllGood, Shape, WorldFields, Become, World
<1>2. ini' = ini
  BY DEF Become
<1>3. AllGood(World)'
  BY <1>1, <1>2 DEF AllGood, ClientsOK, Explained, StreamOK, CleanOK, Quiet,
       Shape, GhostType, NumbersType, Owned, Counted, PoolClean, Keepers, Held, Idle
<1> QED
  BY <1>2, <1>3 DEF SockInv

\* What a method finds when the connection is opened for it.
Finds(W, c, a) ==
  /\ a.ok => Open(a.w, c)
  /\ ~a.ok => Well(Told(a.w, c), c)

LEMMA OpensWell ==
  ASSUME NEW W, AllGood(W), NEW c \in Client, W.ghost.mixed = {}, NEW a \in redis_sock_server_open(W, c)
  PROVE  Finds(W, c, a)
<1>1. Good(W, c) /\ Idle(W.client[c]) /\ c \notin W.ghost.mixed
  BY AllWell DEF Well
<1>2. IF a.ok THEN Open(a.w, c) ELSE Good(Told(a.w, c), c) /\ Idle(Told(a.w, c).client[c])
  BY <1>1, OpenGood
<1> QED
  BY <1>2, Zenon DEF Finds, Well


\* The end of every method's step.
LEMMA MethodKeeps ==
  ASSUME SockInv, NEW c \in Client, Followed(c), NEW a \in redis_sock_server_open(World, c),
         \/ a.ok /\ \E V : Become(V) /\ (Open(a.w, c) => Well(V, c))
         \/ ~a.ok /\ Become(Told(a.w, c))
  PROVE  SockInv'
<1>W. PICK W : W = World
  OBVIOUS
<1>1. AllGood(W) /\ ini \in Ini /\ a \in redis_sock_server_open(W, c)
  BY <1>W DEF SockInv
<1>2. W.ghost.mixed = {}
  BY <1>W DEF Followed, World
<1>3. Finds(W, c, a)
  BY <1>1, <1>2, OpensWell
<1>4. CASE a.ok /\ \E V : Become(V) /\ (Open(a.w, c) => Well(V, c))
  <2>1. PICK V : Become(V) /\ (Open(a.w, c) => Well(V, c))
    BY <1>4
  <2>2. Well(V, c)
    BY <1>3, <1>4, <2>1 DEF Finds
  <2> QED
    BY <1>1, <2>1, <2>2, AllWell, Becomes
<1>5. CASE ~a.ok /\ Become(Told(a.w, c))
  <2>1. PICK V : V = Told(a.w, c)
    OBVIOUS
  <2>2. Well(V, c) /\ Become(V)
    BY <1>3, <1>5, <2>1 DEF Finds
  <2> QED
    BY <1>1, <2>2, AllWell, Becomes
<1> QED
  BY <1>4, <1>5

LEMMA CallKeeps ==
  ASSUME SockInv, NEW c \in Client, Call(c)
  PROVE  SockInv'
<1>1. PICK cmd \in IF c \in Busy THEN Command \ {"cmd"} ELSE {"cmd"},
           a \in redis_sock_server_open(World, c) :
        /\ Followed(c)
        /\ IF a.ok THEN \E V \in CommandSent(a.w, c, cmd) : Become(V) ELSE Become(Told(a.w, c))
  BY Zenon DEF Call, Opened
<1>2. cmd \in Command
  BY DEF Command
<1>3. CASE a.ok
  <2>1. PICK V \in CommandSent(a.w, c, cmd) : Become(V)
    BY <1>1, <1>3
  <2>2. Open(a.w, c) => Well(V, c)
    BY <1>2, CommandGood
  <2> QED
    BY <1>1, <1>3, <2>1, <2>2, MethodKeeps
<1> QED
  BY <1>1, <1>3, MethodKeeps

LEMMA MultiKeeps ==
  ASSUME SockInv, NEW c \in Client, Multi(c)
  PROVE  SockInv'
<1>1. PICK a \in redis_sock_server_open(World, c) :
        /\ Followed(c)
        /\ IF a.ok THEN \E V \in multi(a.w, c) : Become(V) ELSE Become(Told(a.w, c))
  BY Zenon DEF Multi, Opened
<1>2. ASSUME NEW V \in multi(a.w, c), Open(a.w, c)
      PROVE  Well(V, c)
  BY <1>2, MultiGood
<1> QED
  BY <1>1, <1>2, MethodKeeps

LEMMA PipelineKeeps ==
  ASSUME SockInv, NEW c \in Client, Pipeline(c)
  PROVE  SockInv'
<1>1. PICK a \in redis_sock_server_open(World, c) :
        /\ Followed(c)
        /\ IF a.ok THEN \E V \in pipeline(a.w, c) : Become(V) ELSE Become(Told(a.w, c))
  BY Zenon DEF Pipeline, Opened
<1>2. ASSUME NEW V \in pipeline(a.w, c), Open(a.w, c)
      PROVE  Well(V, c)
  BY <1>2, PipelineGood
<1> QED
  BY <1>1, <1>2, MethodKeeps

LEMMA DiscardKeeps ==
  ASSUME SockInv, NEW c \in Client, Discard(c)
  PROVE  SockInv'
<1>1. PICK a \in redis_sock_server_open(World, c) :
        /\ Followed(c)
        /\ IF a.ok THEN \E V \in discard(a.w, c) : Become(V) ELSE Become(Told(a.w, c))
  BY Zenon DEF Discard, Opened
<1>2. ASSUME NEW V \in discard(a.w, c), Open(a.w, c)
      PROVE  Well(V, c)
  BY <1>2, DiscardGood
<1> QED
  BY <1>1, <1>2, MethodKeeps

LEMMA ExecKeeps ==
  ASSUME SockInv, NEW c \in Client, Exec(c)
  PROVE  SockInv'
<1>1. PICK a \in redis_sock_server_open(World, c) :
        /\ Followed(c)
        /\ IF a.ok THEN \E V \in exec(a.w, c) : Become(V) ELSE Become(Told(a.w, c))
  BY Zenon DEF Exec, Opened
<1>2. ASSUME NEW V \in exec(a.w, c), Open(a.w, c)
      PROVE  Well(V, c)
  BY <1>2, ExecGood
<1> QED
  BY <1>1, <1>2, MethodKeeps

LEMMA ResetKeeps ==
  ASSUME SockInv, NEW c \in Client, Reset(c)
  PROVE  SockInv'
<1>1. PICK a \in redis_sock_server_open(World, c) :
        /\ Followed(c)
        /\ IF a.ok THEN \E V \in reset(a.w, c) : Become(V) ELSE Become(Told(a.w, c))
  BY Zenon DEF Reset, Opened
<1>2. ASSUME NEW V \in reset(a.w, c), Open(a.w, c)
      PROVE  Well(V, c)
  BY <1>2, ResetGood
<1> QED
  BY <1>1, <1>2, MethodKeeps

LEMMA CloseKeeps ==
  ASSUME SockInv, NEW c \in Client, Close(c)
  PROVE  SockInv'
<1>1. PICK a \in redis_sock_server_open(World, c) :
        /\ Followed(c)
        /\ IF a.ok THEN \E V \in close(a.w, c) : Become(V) ELSE Become(Told(a.w, c))
  BY Zenon DEF Close, Opened
<1>2. ASSUME NEW V \in close(a.w, c), Open(a.w, c)
      PROVE  Well(V, c)
  BY <1>2, CloseGood
<1> QED
  BY <1>1, <1>2, MethodKeeps

\* The steps that need no connection.
LEMMA AtRest ==
  ASSUME SockInv, NEW c \in Client, Followed(c), NEW W, W = World
  PROVE  Well(W, c) /\ W.ghost.mixed = {} /\ W.ghost.spurious = {} /\ ini \in Ini
<1>1. AllGood(W) /\ ini \in Ini
  BY DEF SockInv
<1>2. W.ghost.mixed = {} /\ W.ghost.spurious = {}
  BY DEF Followed, World
<1> QED
  BY <1>1, <1>2, AllWell

LEMMA ConnectKeeps ==
  ASSUME SockInv, NEW c \in Client, Connect(c)
  PROVE  SockInv'
<1>W. PICK W : W = World
  OBVIOUS
<1>1. PICK persistent \in IF c \in Busy THEN BOOLEAN ELSE {TRUE} :
        \E V \in redis_connect(World, c, persistent) : Become(V)
  BY Zenon DEF Connect
<1>2. persistent \in BOOLEAN /\ Followed(c)
  BY DEF Connect
<1>3. PICK V \in redis_connect(W, c, persistent) : Become(V)
  BY <1>1, <1>W
<1>4. Well(V, c) /\ ini \in Ini
  BY <1>2, <1>3, <1>W, AtRest, NewConnection
<1> QED
  BY <1>3, <1>4, AllWell, Becomes

LEMMA DestructKeeps ==
  ASSUME SockInv, NEW c \in Client, Destruct(c)
  PROVE  SockInv'
<1>W. PICK W : W = World
  OBVIOUS
<1>1. PICK V \in destruct(World, c) : Become(V)
  BY Zenon DEF Destruct
<1>2. Followed(c) /\ V \in destruct(W, c)
  BY <1>W DEF Destruct
<1>3. Well(V, c) /\ ini \in Ini
  BY <1>2, <1>W, AtRest, DestructGood
<1> QED
  BY <1>1, <1>3, AllWell, Becomes

\* The server closes a stream.
LEMMA StreamDropped ==
  ASSUME NEW g, NEW d, NEW k, NEW r, NEW q, StreamOK(g, d, k, r),
         q.up = FALSE, q.db = 0, q.multi = "no", q.unread = FALSE
  PROVE  StreamOK(g, d, k, q)
  BY DEF StreamOK, DatabaseOK, CleanOK, QueueOK, WatchOK

Dropping(W, V, s, q) == V = [Fault(W) EXCEPT !.conn[s] = q]

LEMMA DropGood ==
  ASSUME NEW W, AllGood(W), NEW s \in Streams, W.faults < MaxFaults, W.conn[s].up, NEW q,
         ConnType(q) /\ q.open = TRUE /\ q.up = FALSE /\ q.db = 0 /\ q.multi = "no" /\ q.unread = FALSE,
         NEW V, Dropping(W, V, s, q)
  PROVE  AllGood(V)
<1>1. Shape(W)
  BY DEF AllGood
<1>2. /\ Shape(V) /\ V.client = W.client /\ V.conn = [W.conn EXCEPT ![s] = q]
      /\ V.pool = W.pool /\ V.nb_active = W.nb_active
      /\ V.faults = W.faults + 1 /\ V.ghost = W.ghost
  BY <1>1 DEF Shape, WorldFields, Fault, Dropping
<1>3. V.conn[s] = q /\ \A x \in Streams \ {s} : V.conn[x] = W.conn[x]
  BY <1>1, <1>2 DEF Shape
<1>4. GhostType(V.ghost) /\ \A x \in Streams : ConnType(V.conn[x])
  BY <1>2, <1>3 DEF AllGood
<1>5. NumbersType(V)
  <2>1. W.faults \in 0..MaxFaults /\ W.ghost.drift <= W.faults /\ W.ghost.drift \in Nat /\ MaxFaults \in Nat
    BY SockAssumption DEF AllGood, NumbersType, GhostType
  <2>2. V.faults \in 0..MaxFaults /\ V.ghost.drift <= V.faults
    BY <1>2, <2>1
  <2> QED
    BY <1>2, <2>2 DEF AllGood, NumbersType
<1>6. \A d \in Client : Held(V, d) = Held(W, d)
  BY <1>2 DEF Held
<1>7. \A i \in 1..Len(W.pool) : W.pool[i] \in Streams
  BY DEF AllGood, Owned
<1>8. \A d \in Client : Held(W, d) => W.client[d].stream \in Streams
  BY DEF AllGood, ClientsOK, SockType, SockFlags, Held
<1>9. Owned(V)
  BY <1>2, <1>3, <1>6, <1>7, <1>8 DEF AllGood, Owned
<1>10. Counted(V)
  <2>1. Keepers(V) = Keepers(W)
    BY <1>2, <1>6 DEF Keepers
  <2> QED
    BY <1>2, <2>1 DEF AllGood, Counted
<1>11. PoolClean(V)
  BY <1>2, <1>3, <1>7 DEF AllGood, PoolClean
<1>12. ClientsOK(V)
  <2> SUFFICES ASSUME NEW d \in Client
               PROVE  /\ SockType(V.client[d]) /\ NotesOK(V.ghost, d, V.client[d])
                      /\ Explained(V.ghost, d, V.client[d])
                      /\ Held(V, d) => StreamOK(V.ghost, d, V.client[d], V.conn[V.client[d].stream])
    BY DEF ClientsOK
  <2>1. /\ SockType(W.client[d]) /\ NotesOK(W.ghost, d, W.client[d]) /\ Explained(W.ghost, d, W.client[d])
        /\ Held(W, d) => StreamOK(W.ghost, d, W.client[d], W.conn[W.client[d].stream])
    BY DEF AllGood, ClientsOK
  <2>2. CASE ~Held(W, d) \/ W.client[d].stream # s
    <3>1. V.client[d] = W.client[d] /\ V.ghost = W.ghost
      BY <1>2
    <3>2. ASSUME Held(V, d)
          PROVE  V.conn[V.client[d].stream] = W.conn[W.client[d].stream] /\ Held(W, d)
      <4>1. Held(W, d) /\ W.client[d].stream \in Streams \ {s}
        BY <1>6, <1>8, <2>2, <3>2
      <4> QED
        BY <1>3, <3>1, <4>1
    <3> QED
      BY <2>1, <3>1, <3>2
  <2>3. CASE Held(W, d) /\ W.client[d].stream = s
    <3>1. StreamOK(W.ghost, d, W.client[d], W.conn[s])
      BY <2>1, <2>3
    <3>2. StreamOK(W.ghost, d, W.client[d], q)
      BY <3>1, StreamDropped
    <3> QED
      BY <1>2, <1>3, <2>1, <2>3, <3>2
  <2> QED
    BY <2>2, <2>3
<1>13. \A d \in Client : Idle(V.client[d])
  BY <1>2 DEF AllGood
<1> QED
  BY <1>2, <1>4, <1>5, <1>9, <1>10, <1>11, <1>12, <1>13 DEF AllGood

LEMMA DropKeeps ==
  ASSUME SockInv, NEW s \in Streams, Drop(s)
  PROVE  SockInv'
<1>W. PICK W : W = World
  OBVIOUS
<1>q. PICK q : q = [Closed EXCEPT !.open = TRUE]
  OBVIOUS
<1>V. PICK V : V = [Fault(World) EXCEPT !.conn[s] = [Closed EXCEPT !.open = TRUE]]
  OBVIOUS
<1>1. Become(V)
  BY <1>V, Zenon DEF Drop
<1>2. Dropping(W, V, s, q)
  BY <1>W, <1>q, <1>V DEF Dropping
<1>3. AllGood(W) /\ W.faults < MaxFaults /\ W.conn[s].up /\ ini \in Ini
  BY <1>W DEF SockInv, Drop, World
<1>4. ConnType(q) /\ q.open = TRUE /\ q.up = FALSE /\ q.db = 0 /\ q.multi = "no" /\ q.unread = FALSE
  BY <1>q, DroppedIs
<1>5. AllGood(V)
  BY <1>2, <1>3, <1>4, DropGood
<1> QED
  BY <1>1, <1>3, <1>5, Becomes

\* Another client writes to the watched keys.
DirtiedConn(r, q) == q = IF r.watch = "clean" THEN [r EXCEPT !.watch = "dirty"] ELSE r

Dirty(r, q) ==
  /\ ConnType(q) /\ q.open = r.open /\ q.up = r.up /\ q.db = r.db /\ q.multi = r.multi
  /\ q.queue = r.queue /\ q.unread = r.unread
  /\ q.watch = IF r.watch = "clean" THEN "dirty" ELSE r.watch

LEMMA TouchedConn ==
  ASSUME NEW r, ConnType(r), NEW q, DirtiedConn(r, q)
  PROVE  Dirty(r, q)
<1>1. CASE r.watch = "clean"
  <2>1. q = [r EXCEPT !.watch = "dirty"]
    BY <1>1 DEF DirtiedConn
  <2>2. ConnShape(q)
    BY <2>1 DEF ConnType, ConnShape, ConnFields
  <2>3. /\ q.open = r.open /\ q.up = r.up /\ q.db = r.db /\ q.multi = r.multi
        /\ q.queue = r.queue /\ q.unread = r.unread /\ q.watch = "dirty"
    BY <2>1 DEF ConnType, ConnShape, ConnFields
  <2> QED
    BY <1>1, <2>2, <2>3 DEF ConnType, ConnFlags, ConnQueue, Dirty
<1>2. CASE r.watch # "clean"
  BY <1>2 DEF DirtiedConn, Dirty
<1> QED
  BY <1>1, <1>2

ToldTouched(k, p) == p = [k EXCEPT !.touched = k.watched]

Touched(k, p) ==
  /\ SockType(p) /\ p.status = k.status /\ p.stream = k.stream /\ p.persistent = k.persistent
  /\ p.db = k.db /\ p.mode = k.mode /\ p.watching = k.watching /\ p.callbacks = k.callbacks
  /\ p.pipeline_cmd = k.pipeline_cmd /\ p.watched = k.watched /\ p.touched = k.watched

LEMMA TouchedSock ==
  ASSUME NEW k, SockType(k), NEW p, ToldTouched(k, p)
  PROVE  Touched(k, p)
<1>1. /\ SockShape(p) /\ p.status = k.status /\ p.stream = k.stream /\ p.persistent = k.persistent
      /\ p.db = k.db /\ p.mode = k.mode /\ p.watching = k.watching /\ p.callbacks = k.callbacks
      /\ p.pipeline_cmd = k.pipeline_cmd /\ p.watched = k.watched /\ p.touched = k.watched
  BY DEF SockType, SockShape, SockFields, ToldTouched
<1>2. SockFlags(p)
  BY <1>1 DEF SockType, SockFlags
<1>3. SockNotes(p)
  BY <1>1 DEF SockType, SockNotes
<1> QED
  BY <1>1, <1>2, <1>3 DEF SockType, Touched

\* Every stream watched has changed keys, and every program that watches one.
Touching(W, V) ==
  /\ Shape(V) /\ V.pool = W.pool /\ V.nb_active = W.nb_active /\ V.faults = W.faults /\ V.ghost = W.ghost
  /\ \A x \in Streams : DirtiedConn(W.conn[x], V.conn[x])
  /\ \A d \in Client : ToldTouched(W.client[d], V.client[d])

LEMMA TouchGood ==
  ASSUME NEW W, AllGood(W), NEW V, Touching(W, V)
  PROVE  AllGood(V)
<1>1. \A x \in Streams :
         /\ ConnType(V.conn[x]) /\ V.conn[x].open = W.conn[x].open /\ V.conn[x].up = W.conn[x].up
         /\ V.conn[x].db = W.conn[x].db /\ V.conn[x].multi = W.conn[x].multi
         /\ V.conn[x].queue = W.conn[x].queue /\ V.conn[x].unread = W.conn[x].unread
         /\ V.conn[x].watch = IF W.conn[x].watch = "clean" THEN "dirty" ELSE W.conn[x].watch
  <2>1. \A x \in Streams : Dirty(W.conn[x], V.conn[x])
    BY TouchedConn DEF Touching, AllGood
  <2> QED
    BY <2>1 DEF Dirty
<1>2. \A d \in Client :
         /\ SockType(V.client[d]) /\ V.client[d].status = W.client[d].status
         /\ V.client[d].stream = W.client[d].stream /\ V.client[d].persistent = W.client[d].persistent
         /\ V.client[d].db = W.client[d].db /\ V.client[d].mode = W.client[d].mode
         /\ V.client[d].watching = W.client[d].watching /\ V.client[d].callbacks = W.client[d].callbacks
         /\ V.client[d].pipeline_cmd = W.client[d].pipeline_cmd /\ V.client[d].watched = W.client[d].watched
         /\ V.client[d].touched = W.client[d].watched
  <2>1. \A d \in Client : Touched(W.client[d], V.client[d])
    BY TouchedSock DEF Touching, AllGood, ClientsOK
  <2> QED
    BY <2>1 DEF Touched
<1>3. /\ Shape(V) /\ V.pool = W.pool /\ V.nb_active = W.nb_active /\ V.faults = W.faults /\ V.ghost = W.ghost
  BY DEF Touching
<1>4. GhostType(V.ghost) /\ NumbersType(V)
  BY <1>3 DEF AllGood, NumbersType
<1>6. \A d \in Client : Held(V, d) = Held(W, d)
  BY <1>2 DEF Held
<1>7. \A i \in 1..Len(W.pool) : W.pool[i] \in Streams
  BY DEF AllGood, Owned
<1>8. \A d \in Client : Held(W, d) => W.client[d].stream \in Streams
  BY DEF AllGood, ClientsOK, SockType, SockFlags, Held
<1>9. Owned(V)
  BY <1>1, <1>2, <1>3, <1>6, <1>7, <1>8 DEF AllGood, Owned
<1>10. Counted(V)
  <2>1. Keepers(V) = Keepers(W)
    BY <1>2, <1>6 DEF Keepers
  <2> QED
    BY <1>3, <2>1 DEF AllGood, Counted
<1>11. PoolClean(V)
  BY <1>1, <1>3, <1>7 DEF AllGood, PoolClean
<1>12. ClientsOK(V)
  <2> SUFFICES ASSUME NEW d \in Client
               PROVE  /\ SockType(V.client[d]) /\ NotesOK(V.ghost, d, V.client[d])
                      /\ Explained(V.ghost, d, V.client[d])
                      /\ Held(V, d) => StreamOK(V.ghost, d, V.client[d], V.conn[V.client[d].stream])
    BY DEF ClientsOK
  <2>1. /\ NotesOK(W.ghost, d, W.client[d]) /\ Explained(W.ghost, d, W.client[d])
        /\ Held(W, d) => StreamOK(W.ghost, d, W.client[d], W.conn[W.client[d].stream])
    BY DEF AllGood, ClientsOK
  <2>2. NotesOK(V.ghost, d, V.client[d]) /\ Explained(V.ghost, d, V.client[d])
    BY <1>2, <1>3, <2>1 DEF NotesOK, Torn, Explained
  <2>3. ASSUME Held(V, d)
        PROVE  StreamOK(V.ghost, d, V.client[d], V.conn[V.client[d].stream])
    <3>1. PICK x \in Streams : x = W.client[d].stream /\ x = V.client[d].stream
      BY <1>2, <1>6, <1>8, <2>3
    <3>2. StreamOK(W.ghost, d, W.client[d], W.conn[x])
      BY <1>6, <2>1, <2>3, <3>1
    <3>3. DatabaseOK(W.ghost, d, V.client[d], V.conn[x])
      BY <1>1, <1>2, <3>2 DEF StreamOK, DatabaseOK
    <3>4. CleanOK(W.ghost, d, V.client[d], V.conn[x])
      BY <1>1, <1>2, <3>2 DEF StreamOK, CleanOK
    <3>5. QueueOK(W.ghost, d, V.client[d], V.conn[x])
      BY <1>1, <1>2, <3>2 DEF StreamOK, QueueOK
    <3>6. WatchOK(W.ghost, d, V.client[d], V.conn[x])
      <4>1. W.conn[x].watch \in {"no", "clean", "dirty"}
        BY DEF AllGood, ConnType, ConnFlags
      <4> QED
        BY <1>1, <1>2, <3>2, <4>1 DEF StreamOK, WatchOK
    <3> QED
      BY <1>3, <3>1, <3>3, <3>4, <3>5, <3>6 DEF StreamOK
  <2> QED
    BY <1>2, <2>2, <2>3
<1>13. \A d \in Client : Idle(V.client[d])
  BY <1>2 DEF AllGood, Idle
<1> QED
  BY <1>1, <1>3, <1>4, <1>9, <1>10, <1>11, <1>12, <1>13 DEF AllGood

LEMMA TouchKeeps ==
  ASSUME SockInv, Touch
  PROVE  SockInv'
<1>W. PICK W : W = World
  OBVIOUS
<1>V. PICK V : V = [client |-> client', conn |-> conn', pool |-> pool', nb_active |-> nb_active',
                    faults |-> faults', ghost |-> ghost']
  OBVIOUS
<1>1. AllGood(W) /\ ini \in Ini
  BY <1>W DEF SockInv
<1>2. Become(V)
  BY <1>V DEF Become, Touch
<1>3. Touching(W, V)
  <2>1. V = [f \in WorldFields |-> V[f]]
    BY <1>V DEF WorldFields
  <2>2. /\ V.client = client' /\ V.conn = conn' /\ V.pool = pool /\ V.nb_active = nb_active
        /\ V.faults = faults /\ V.ghost = ghost
    BY <1>V DEF Touch
  <2>3. /\ W.client = client /\ W.conn = conn /\ W.pool = pool /\ W.nb_active = nb_active
        /\ W.faults = faults /\ W.ghost = ghost
    BY <1>W DEF World
  <2>4. V.ghost = [f \in GhostFields |-> V.ghost[f]]
    BY <1>1, <2>2, <2>3 DEF AllGood, Shape
  <2>5. V.client = [d \in Client |-> [client[d] EXCEPT !.touched = client[d].watched]]
    BY <2>2 DEF Touch
  <2>6. V.conn = [s \in Streams |-> IF conn[s].watch = "clean"
                                    THEN [conn[s] EXCEPT !.watch = "dirty"] ELSE conn[s]]
    BY <2>2 DEF Touch
  <2>8. \A x \in Streams : DirtiedConn(W.conn[x], V.conn[x])
    BY <2>3, <2>6 DEF DirtiedConn
  <2>9. \A d \in Client : ToldTouched(W.client[d], V.client[d])
    BY <2>3, <2>5 DEF ToldTouched
  <2>7. V.client = [d \in Client |-> V.client[d]] /\ V.conn = [s \in Streams |-> V.conn[s]]
    BY <2>5, <2>6
  <2> QED
    BY <2>1, <2>2, <2>3, <2>4, <2>8, <2>9, <2>7 DEF Touching, Shape
<1> QED
  BY <1>1, <1>2, <1>3, TouchGood, Becomes

LEMMA InitKeeps == Init => SockInv
<1> SUFFICES ASSUME Init
             PROVE  SockInv
  OBVIOUS
<1>W. PICK W : W = World
  OBVIOUS
<1>n. PICK n : n = NoSock
  OBVIOUS
<1>g. PICK g : g = [torn |-> {}, unread |-> {}, mixed |-> {}, blind |-> {}, unguarded |-> {},
                    spurious |-> {}, drift |-> 0]
  OBVIOUS
<1>1. Fresh(n, FALSE)
  BY <1>n, NoSockIs
<1>2. /\ client = [c \in Client |-> n] /\ conn = [s \in Streams |-> Closed] /\ pool = << >>
      /\ nb_active = 0 /\ faults = 0 /\ ghost = g /\ ini \in Ini
  BY <1>n, <1>g DEF Init, NoSock
<1>3. /\ W.client = [c \in Client |-> n] /\ W.conn = [s \in Streams |-> Closed] /\ W.pool = << >>
      /\ W.nb_active = 0 /\ W.faults = 0 /\ W.ghost = g /\ W = [f \in WorldFields |-> W[f]]
  BY <1>2, <1>W DEF World, WorldFields
<1>4. GhostShape(g) /\ GhostType(g) /\ g.mixed = {} /\ g.spurious = {} /\ g.unread = {} /\ g.drift = 0
  BY <1>g DEF GhostShape, GhostFields, GhostType
<1>5. Shape(W)
  BY <1>3, <1>4 DEF Shape, GhostShape
<1>6. NumbersType(W)
  BY <1>3, <1>4, SockAssumption DEF NumbersType
<1>7. \A s \in Streams : ConnType(W.conn[s])
  BY <1>3, ClosedIs
<1>8. \A c \in Client : W.client[c] = n /\ ~Held(W, c)
  BY <1>1, <1>3 DEF Fresh, Held
<1>9. Owned(W) /\ PoolClean(W)
  BY <1>3, <1>8 DEF Owned, PoolClean, Held
<1>10. Counted(W)
  <2>1. Keepers(W) = {}
    BY <1>8 DEF Keepers
  <2>2. Cardinality(Keepers(W)) = 0
    BY <2>1, FS_EmptySet
  <2> QED
    BY <1>3, <1>4, <2>2 DEF Counted
<1>11. \A c \in Client : SockType(n) /\ NotesOK(g, c, n) /\ Explained(g, c, n) /\ Idle(n)
  <2> TAKE c \in Client
  <2>1. NotesOK(g, c, n) /\ Explained(g, c, n) /\ Idle(n)
    BY <1>1, <1>4, FreshNotes
  <2> QED
    BY <1>1, <2>1 DEF Fresh
<1>12. ClientsOK(W) /\ \A c \in Client : Idle(W.client[c])
  BY <1>3, <1>8, <1>11 DEF ClientsOK
<1>13. GhostType(W.ghost)
  BY <1>3, <1>4
<1>14. AllGood(W)
  BY <1>5, <1>6, <1>7, <1>9, <1>10, <1>12, <1>13 DEF AllGood
<1> QED
  BY <1>2, <1>14, <1>W DEF SockInv

LEMMA NextKeeps == SockInv /\ [Next]_vars => SockInv'
<1> SUFFICES ASSUME SockInv, [Next]_vars
             PROVE  SockInv'
  OBVIOUS
<1>1. CASE \E c \in Client : Connect(c) \/ Call(c) \/ Destruct(c)
  BY <1>1, ConnectKeeps, CallKeeps, DestructKeeps
<1>2. CASE \E c \in Busy : Close(c) \/ Multi(c) \/ Pipeline(c) \/ Discard(c) \/ Exec(c) \/ Reset(c)
  <2>1. Busy \subseteq Client
    BY SockAssumption
  <2> QED
    BY <1>2, <2>1, CloseKeeps, MultiKeeps, PipelineKeeps, DiscardKeeps, ExecKeeps, ResetKeeps
<1>3. CASE \E s \in Streams : Drop(s)
  BY <1>3, DropKeeps
<1>4. CASE Touch
  BY <1>4, TouchKeeps
<1>5. CASE UNCHANGED vars
  <2>1. /\ client' = client /\ conn' = conn /\ pool' = pool /\ nb_active' = nb_active
        /\ faults' = faults /\ ghost' = ghost /\ ini' = ini
    BY <1>5 DEF vars
  <2>2. PICK V : V = World
    OBVIOUS
  <2>3. AllGood(V) /\ ini \in Ini
    BY <2>2 DEF SockInv
  <2>4. Become(V)
    BY <2>1, <2>2 DEF Become, World
  <2> QED
    BY <2>3, <2>4, Becomes
<1> QED
  BY <1>1, <1>2, <1>3, <1>4, <1>5 DEF Next

\* In every state each object's notes agree with the server's end of its stream,
\* every stream has one owner at most and is counted, and an object without a
\* stream is outside any block.
THEOREM SockInvariant == Spec => []SockInv
<1> QED
  BY InitKeeps, NextKeeps, PTL DEF Spec

---------------------------------------------------------------------------
(* What follows from it.                                                   *)

LEMMA Inside ==
  ASSUME SockInv
  PROVE  /\ \A c \in Client : /\ SockType(client[c]) /\ NotesOK(ghost, c, client[c])
                              /\ Explained(ghost, c, client[c]) /\ Idle(client[c])
                              /\ client[c].stream # NoStream =>
                                   /\ StreamOK(ghost, c, client[c], conn[client[c].stream])
                                   /\ conn[client[c].stream].open
         /\ \A s \in Streams : ConnType(conn[s])
         /\ GhostType(ghost)
  BY DEF SockInv, AllGood, ClientsOK, Owned, Held, World

\* A connection ready for commands is on the database its object last selected,
\* through every loss, reconnection and stay in the pool (library.c:3200).
THEOREM DatabaseIsRight == Spec => []RightDatabase
<1>1. SockInv => RightDatabase
  <2> SUFFICES ASSUME SockInv, NEW c \in Client \ (ghost.mixed \cup ghost.blind \cup ghost.unread),
                      client[c].status = "ready"
               PROVE  /\ client[c].db = 1 => conn[client[c].stream].db = 1 \/ ~conn[client[c].stream].up
                      /\ client[c].db = 0 /\ ~client[c].persistent => conn[client[c].stream].db = 0
    BY DEF RightDatabase
  <2>1. SockType(client[c]) /\ (client[c].stream # NoStream => StreamOK(ghost, c, client[c], conn[client[c].stream]))
    BY Inside
  <2>2. client[c].stream # NoStream
    BY <2>1 DEF SockType, SockFlags
  <2> QED
    BY <2>1, <2>2 DEF StreamOK, DatabaseOK
<1> QED
  BY <1>1, SockInvariant, PTL

\* Nobody holds a pooled stream, none is pooled twice or in the middle of a
\* block, and nb_active is the number of streams open but for those an ECHO
\* without an answer took off twice (library.c:3230, 3039).
THEOREM PoolIsSound == Spec => []PoolSound
<1>1. SockInv => PoolSound
  <2> SUFFICES ASSUME SockInv
               PROVE  PoolSound
    OBVIOUS
  <2>1. Owned(World) /\ Counted(World) /\ PoolClean(World)
    BY DEF SockInv, AllGood
  <2>2. /\ pool \in Seq(Streams) /\ DOMAIN pool = 1..Len(pool)
        /\ \A i, j \in 1..Len(pool) : pool[i] = pool[j] => i = j
        /\ \A i \in 1..Len(pool) : conn[pool[i]].open /\ \A c \in Client : client[c].stream # pool[i]
    BY <2>1 DEF Owned, World
  <2>3. IsInjective(pool)
    BY <2>2 DEF IsInjective
  <2>4. ghost.unread = {} => \A i \in 1..Len(pool) : conn[pool[i]].multi = "no" /\ ~conn[pool[i]].unread
    BY <2>1 DEF PoolClean, World
  <2>5. nb_active + ghost.drift =
          Len(pool) + Cardinality({c \in {d \in Client : client[d].stream # NoStream} : client[c].persistent})
    <3>1. Keepers(World) = {c \in {d \in Client : client[d].stream # NoStream} : client[c].persistent}
      BY DEF Keepers, Held, World
    <3> QED
      BY <2>1, <3>1 DEF Counted, World
  <2> QED
    BY <2>2, <2>3, <2>4, <2>5 DEF PoolSound
<1> QED
  BY <1>1, SockInvariant, PTL

\* The callbacks kept for EXEC are those of the commands the server has queued,
\* one by one, unless the block was torn (common.h:198).
THEOREM CallbacksAreTheQueue == Spec => []CallbacksMatchQueue
<1>1. SockInv => CallbacksMatchQueue
  <2> SUFFICES ASSUME SockInv, NEW c \in Client \ ghost.torn, client[c].mode = {"MULTI"},
                      conn[client[c].stream].up, conn[client[c].stream].multi = "queue"
               PROVE  client[c].callbacks = conn[client[c].stream].queue
    BY DEF CallbacksMatchQueue
  <2>1. /\ Idle(client[c])
        /\ client[c].stream # NoStream => StreamOK(ghost, c, client[c], conn[client[c].stream])
    BY Inside
  <2>2. client[c].stream # NoStream
    BY <2>1 DEF Idle
  <2> QED
    BY <2>1, <2>2 DEF StreamOK, QueueOK
<1> QED
  BY <1>1, SockInvariant, PTL

\* No object takes another command's reply for its own before a block was torn
\* or replies were left; with echo_check_liveness only one that did so itself.
THEOREM RepliesAreOwn == Spec => []OwnReplies
<1>1. SockInv => OwnReplies
  <2> SUFFICES ASSUME SockInv
               PROVE  OwnReplies
    OBVIOUS
  <2>1. GhostType(ghost) /\ \A c \in Client : Explained(ghost, c, client[c])
    BY Inside
  <2>2. \A c \in ghost.mixed : c \in ghost.torn \/ ~Quiet(ghost, c)
    BY <2>1 DEF GhostType, Explained
  <2> QED
    BY <2>2 DEF OwnReplies, Quiet
<1> QED
  BY <1>1, SockInvariant, PTL

\* No EXEC goes through after a watched key has changed, and only on a stream of
\* the pool does one fail for keys nobody of this program watches (library.c:351).
THEOREM WatchIsKept == Spec => []WatchHolds
<1>1. SockInv => WatchHolds
  <2> SUFFICES ASSUME SockInv
               PROVE  WatchHolds
    OBVIOUS
  <2>1. GhostType(ghost) /\ \A c \in Client : Explained(ghost, c, client[c])
    BY Inside
  <2> QED
    BY <2>1 DEF WatchHolds, GhostType, Explained
<1> QED
  BY <1>1, SockInvariant, PTL

---------------------------------------------------------------------------
(* The streams of the pool and those clients hold are different ones, so   *)
(* that there are no more than the server accepts.                         *)

LEMMA StreamsSuffice ==
  ASSUME NEW W, AllGood(W)
  PROVE  Len(W.pool) + Cardinality(Keepers(W)) <= MaxClients
<1> DEFINE A == {W.pool[i] : i \in 1..Len(W.pool)}
           B == {W.client[c].stream : c \in Keepers(W)}
           f == [c \in Keepers(W) |-> W.client[c].stream]
<1>1. /\ W.pool \in Seq(Streams) /\ Len(W.pool) \in Nat
      /\ \A i, j \in 1..Len(W.pool) : W.pool[i] = W.pool[j] => i = j
  BY DEF AllGood, Owned
<1>2. \A c \in Keepers(W) : c \in Client /\ Held(W, c) /\ W.client[c].stream \in Streams
  BY DEF AllGood, ClientsOK, SockType, SockFlags, Keepers, Held
<1>3. \A c, d \in Keepers(W) : W.client[c].stream = W.client[d].stream => c = d
  BY <1>2 DEF AllGood, Owned
<1>4. A \subseteq Streams /\ B \subseteq Streams
  BY <1>1, <1>2
<1>5. A \cap B = {}
  BY <1>1, <1>2 DEF AllGood, Owned
<1>6. IsFiniteSet(Keepers(W))
  <2>1. IsFiniteSet(Client) /\ Keepers(W) \subseteq Client
    BY SockAssumption DEF Keepers
  <2> QED
    BY <2>1, FS_Subset
<1>7. IsFiniteSet(A) /\ Cardinality(A) = Len(W.pool)
  <2>1. W.pool \in Surjection(1..Len(W.pool), A)
    BY <1>1 DEF Surjection
  <2>2. W.pool \in Injection(1..Len(W.pool), A)
    BY <1>1 DEF Injection, IsInjective
  <2>3. IsFiniteSet(1..Len(W.pool)) /\ Cardinality(1..Len(W.pool)) = Len(W.pool)
    BY <1>1, FS_Interval
  <2> HIDE DEF A
  <2> QED
    BY <2>1, <2>2, <2>3, FS_Surjection
<1>8. IsFiniteSet(B) /\ Cardinality(B) = Cardinality(Keepers(W))
  <2>1. f \in Surjection(Keepers(W), B)
    BY DEF Surjection
  <2>2. f \in Injection(Keepers(W), B)
    BY <1>3 DEF Injection, IsInjective
  <2> HIDE DEF B, f
  <2> QED
    BY <1>6, <2>1, <2>2, FS_Surjection
<1> HIDE DEF A, B, f
<1>9. IsFiniteSet(A \cup B) /\ Cardinality(A \cup B) = Cardinality(A) + Cardinality(B) - Cardinality(A \cap B)
  BY <1>7, <1>8, FS_Union
<1>10. Cardinality(A \cap B) = 0
  BY <1>5, FS_EmptySet
<1>11. IsFiniteSet(Streams) /\ Cardinality(Streams) = MaxClients
  <2>1. MaxClients \in Nat /\ MaxClients \in Int /\ 1 \in Int
    BY SockAssumption
  <2>2. /\ IsFiniteSet(1..MaxClients)
        /\ Cardinality(1..MaxClients) = IF 1 > MaxClients THEN 0 ELSE MaxClients - 1 + 1
    BY <2>1, FS_Interval
  <2> QED
    BY <2>1, <2>2 DEF Streams
<1>12. Cardinality(A \cup B) <= Cardinality(Streams)
  BY <1>4, <1>11, FS_Subset
<1>13. Cardinality(A) \in Nat /\ Cardinality(B) \in Nat
  BY <1>7, <1>8, FS_CardinalityType
<1> QED
  BY <1>7, <1>8, <1>9, <1>10, <1>11, <1>12, <1>13

LEMMA CountBounded ==
  ASSUME NEW W, AllGood(W)
  PROVE  W.nb_active \in -MaxFaults..(IF Limit = 0 THEN MaxClients ELSE Limit)
<1>1. Len(W.pool) + Cardinality(Keepers(W)) <= MaxClients
  BY StreamsSuffice
<1>2. W.nb_active + W.ghost.drift = Len(W.pool) + Cardinality(Keepers(W))
  BY DEF AllGood, Counted
<1>3. /\ W.nb_active \in Int /\ (Limit > 0 => W.nb_active <= Limit) /\ W.faults \in 0..MaxFaults
      /\ W.ghost.drift <= W.faults /\ W.ghost.drift \in Nat /\ Len(W.pool) \in Nat
  BY DEF AllGood, NumbersType, GhostType, Owned
<1>4. Cardinality(Keepers(W)) \in Nat
  <2>1. IsFiniteSet(Client) /\ Keepers(W) \subseteq Client
    BY SockAssumption DEF Keepers
  <2>2. IsFiniteSet(Keepers(W))
    BY <2>1, FS_Subset
  <2> QED
    BY <2>2, FS_CardinalityType
<1>5. Limit \in Nat /\ MaxClients \in Nat /\ MaxFaults \in Nat
  BY SockAssumption
<1>6. PICK n \in Int, d \in Nat, l \in Nat, m \in Nat :
        n = W.nb_active /\ d = W.ghost.drift /\ l = Len(W.pool) /\ m = Cardinality(Keepers(W))
  BY <1>3, <1>4
<1>7. n + d = l + m /\ l + m <= MaxClients /\ d <= MaxFaults /\ (Limit > 0 => n <= Limit)
  BY <1>1, <1>2, <1>3, <1>5, <1>6
<1>8. -MaxFaults <= n
  BY <1>5, <1>7
<1>9. CASE Limit = 0
  <2>1. n <= MaxClients
    BY <1>5, <1>7
  <2> QED
    BY <1>5, <1>6, <1>8, <1>9, <2>1
<1>10. CASE Limit # 0
  <2>1. n <= Limit
    BY <1>5, <1>7, <1>10
  <2> QED
    BY <1>5, <1>6, <1>8, <1>10, <2>1
<1> QED
  BY <1>9, <1>10

LEMMA SockIsTyped ==
  ASSUME NEW k, SockType(k)
  PROVE  k \in Sock
<1>1. k = [f \in SockFields |-> k[f]]
  BY DEF SockType, SockShape
<1>2. SockFlags(k) /\ SockNotes(k)
  BY DEF SockType
<1> QED
  BY <1>1, <1>2 DEF SockFlags, SockNotes, SockFields, Sock

LEMMA ConnIsTyped ==
  ASSUME NEW r, ConnType(r)
  PROVE  r \in Conn
<1>1. r = [f \in ConnFields |-> r[f]]
  BY DEF ConnType, ConnShape
<1>2. r.queue \in Seq(Command)
  BY DEF ConnType, ConnQueue
<1>3. ConnFlags(r)
  BY DEF ConnType
<1> QED
  BY <1>1, <1>2, <1>3 DEF ConnFlags, ConnFields, Conn

LEMMA GhostIsTyped ==
  ASSUME NEW g, GhostShape(g), GhostType(g)
  PROVE  g \in Ghost
  BY DEF GhostShape, GhostFields, GhostType, Ghost

\* Every variable has its type; nb_active stays between -MaxFaults and the limit
\* of the pool, or the number of streams the server accepts.
THEOREM SockTypeCorrect == Spec => []TypeOK
<1>1. SockInv => TypeOK
  <2> SUFFICES ASSUME SockInv
               PROVE  TypeOK
    OBVIOUS
  <2>W. PICK W : W = World
    OBVIOUS
  <2>1. AllGood(W) /\ ini \in Ini
    BY <2>W DEF SockInv
  <2>2. W.client = client /\ W.conn = conn /\ W.pool = pool /\ W.nb_active = nb_active
        /\ W.faults = faults /\ W.ghost = ghost
    BY <2>W DEF World
  <2>3. client \in [Client -> Sock]
    <3>1. client = [c \in Client |-> client[c]]
      BY <2>1, <2>2 DEF AllGood, Shape
    <3>2. \A c \in Client : client[c] \in Sock
      BY Inside, SockIsTyped
    <3> QED
      BY <3>1, <3>2
  <2>4. conn \in [Streams -> Conn]
    <3>1. conn = [s \in Streams |-> conn[s]]
      BY <2>1, <2>2 DEF AllGood, Shape
    <3>2. \A s \in Streams : conn[s] \in Conn
      BY Inside, ConnIsTyped
    <3> QED
      BY <3>1, <3>2
  <2>5. pool \in Seq(Streams) /\ faults \in 0..MaxFaults
    BY <2>1, <2>2 DEF AllGood, Owned, NumbersType
  <2>6. nb_active \in -MaxFaults..(IF Limit = 0 THEN MaxClients ELSE Limit)
    BY <2>1, <2>2, CountBounded
  <2>7. ghost \in Ghost
    BY <2>1, <2>2, GhostIsTyped DEF AllGood, Shape, GhostShape
  <2> QED
    BY <2>1, <2>3, <2>4, <2>5, <2>6, <2>7 DEF TypeOK
<1> QED
  BY <1>1, SockInvariant, PTL

===============================================================================
