----------------------------- MODULE RedisSock -----------------------------
(***************************************************************************)
(* The connections of the Redis client extension (library.c, redis.c): the *)
(* Redis objects of one PHP process, each with its RedisSock, the pool of  *)
(* persistent streams they share, and the server's end of every stream.    *)
(* A PHP method call is one step.  The operators below it act on a world,  *)
(* a record of all the variables, because a method may open, select,       *)
(* discover a dead stream and reconnect before its command is sent; where  *)
(* the network decides, they return the set of worlds that may result.     *)
(***************************************************************************)
EXTENDS Integers, Sequences, FiniteSets, SequencesExt

CONSTANTS Client,     \* Redis objects
          Limit,      \* redis.pconnect.connection_limit, 0 for none
          MaxClients, \* streams the server accepts at once
          Busy,       \* those whose every method is explored: the others open a
                      \* persistent stream, send a command and are freed
          Ini,        \* values of the extension's settings
          MaxQueue,   \* bound on the commands of one MULTI block or pipeline
          MaxFaults   \* bound on the failures of the network

ASSUME SockAssumption ==
    Limit \in Nat /\ MaxClients \in Nat /\ Busy \subseteq Client
    /\ Ini \subseteq [echo: BOOLEAN, detect_dirty: 0..2]
    /\ MaxQueue \in Nat /\ MaxFaults \in Nat /\ IsFiniteSet(Client)

VARIABLES client,     \* the RedisSock of each object
          conn,       \* the server's end of each stream
          pool,       \* idle persistent streams, most recently used first
          nb_active,  \* the pool's count of open streams
          ini,        \* redis.pconnect.echo_check_liveness and pool_detect_dirty
          faults,     \* failures so far
          ghost       \* what the properties remember, see below

vars == <<client, conn, pool, nb_active, ini, faults, ghost>>

Streams == 1..MaxClients
NoStream == 0
Command == {"cmd", "bad", "select", "watch", "unwatch"}

\* callbacks are the replies still to be read, by the command they belong to;
\* "null" stands for the MULTI and EXEC of a pipeline.  `watched' and `touched'
\* say what the program was told: WATCH succeeded and nothing has failed since,
\* and another client changed a watched key since.
Sock == [status: {"none", "failed", "disconnected", "connected", "ready"},
         stream: Streams \cup {NoStream}, persistent: BOOLEAN,
         db: {0, 1}, mode: SUBSET {"MULTI", "PIPELINE"}, watching: BOOLEAN,
         callbacks: Seq(Command \cup {"null"}), pipeline_cmd: Seq(Command \cup {"MULTI", "EXEC"}),
         watched: BOOLEAN, touched: BOOLEAN]

Conn == [open: BOOLEAN, up: BOOLEAN, db: {0, 1}, multi: {"no", "queue", "aborted"},
         queue: Seq(Command), watch: {"no", "clean", "dirty"}, unread: BOOLEAN]

\* A stream nobody holds, and one the server has just accepted.
Closed == [open |-> FALSE, up |-> FALSE, db |-> 0, multi |-> "no", queue |-> << >>,
           watch |-> "no", unread |-> FALSE]
Accepted == [Closed EXCEPT !.open = TRUE, !.up = TRUE]

redis_sock_create(persistent) ==
    [status |-> "disconnected", stream |-> NoStream, persistent |-> persistent, db |-> 0,
     mode |-> {}, watching |-> FALSE, callbacks |-> << >>, pipeline_cmd |-> << >>,
     watched |-> FALSE, touched |-> FALSE]

\* What went wrong, by client: a stream was lost in the middle of a block and
\* what the object had noted of it stayed (`torn'); replies were left on a
\* stream still open (`unread'); a reply of another command was read (`mixed');
\* a SELECT was run inside the MULTI of a pipeline (`blind'); an EXEC went
\* through although a watched key had changed (`unguarded') or failed although
\* nothing was watched (`spurious').  drift counts streams taken off nb_active
\* twice.
Ghost == [torn: SUBSET Client, unread: SUBSET Client, mixed: SUBSET Client,
          blind: SUBSET Client, unguarded: SUBSET Client, spurious: SUBSET Client,
          drift: Nat]

World == [client |-> client, conn |-> conn, pool |-> pool, nb_active |-> nb_active,
          faults |-> faults, ghost |-> ghost]

Become(W) ==
    /\ client' = W.client /\ conn' = W.conn /\ pool' = W.pool
    /\ nb_active' = W.nb_active /\ faults' = W.faults /\ ghost' = W.ghost
    /\ UNCHANGED ini

Fault(W) == [W EXCEPT !.faults = @ + 1]
MayFail(W) == W.faults < MaxFaults

---------------------------------------------------------------------------
(* The server.                                                             *)

\* What one command does to the connection, and its reply.
Serve(r, cmd) ==
    CASE cmd = "MULTI" -> IF r.multi = "no"
                          THEN [r |-> [r EXCEPT !.multi = "queue"], reply |-> "ok"]
                          ELSE [r |-> r, reply |-> "err"]
      [] cmd = "DISCARD" -> [r |-> [r EXCEPT !.multi = "no", !.queue = << >>, !.watch = "no"],
                             reply |-> "ok"]
      [] cmd = "RESET" -> [r |-> [Accepted EXCEPT !.unread = r.unread], reply |-> "ok"]
      [] cmd = "EXEC" ->
            LET runs == r.multi = "queue" /\ r.watch # "dirty"
            IN  [r |-> [r EXCEPT !.multi = "no", !.queue = << >>, !.watch = "no",
                          !.db = IF runs /\ Contains(r.queue, "select") THEN 1 ELSE @],
                 reply |-> IF runs THEN "array"
                           ELSE IF r.multi = "queue" THEN "nil" ELSE "err"]
      [] cmd \in Command /\ r.multi # "no" ->
            IF cmd \in {"bad", "watch"} THEN [r |-> [r EXCEPT !.multi = "aborted"], reply |-> "err"]
                           ELSE [r |-> [r EXCEPT !.queue = Append(@, cmd)], reply |-> "queued"]
      [] cmd \in Command /\ r.multi = "no" ->
            [r |-> CASE cmd = "select" -> [r EXCEPT !.db = 1]
                     [] cmd = "watch" -> [r EXCEPT !.watch = IF @ = "no" THEN "clean" ELSE @]
                     [] cmd = "unwatch" -> [r EXCEPT !.watch = "no"]
                     [] OTHER -> r,
             reply |-> IF cmd = "bad" THEN "err" ELSE "ok"]

---------------------------------------------------------------------------
(* Closing, opening and checking a stream.                                 *)

\* The object's notes of a block do not fit its mode.
Torn(k) ==
    IF "PIPELINE" \in k.mode THEN Len(k.callbacks) # Len(k.pipeline_cmd)
    ELSE k.pipeline_cmd # << >> \/ (k.mode = {} /\ k.callbacks # << >>)

Noted(W, c) ==
    [W EXCEPT !.ghost.torn = IF Torn(W.client[c]) THEN @ \cup {c} ELSE @]

\* A mistake to catch: a stream in the middle of a block goes to the pool.
Reusable_any(k, force) == ~force

Reusable(k, force) == ~force /\ k.mode = {}

\* An idle persistent stream goes back to the pool; any other is closed.
\* Callbacks are freed only where a persistent stream is closed.
redis_sock_disconnect(W, c, force, is_reset_mode) ==
    LET k == W.client[c]
        s == k.stream
        W1 == IF s = NoStream THEN W
              ELSE IF ~k.persistent THEN [W EXCEPT !.conn[s] = Closed]
              ELSE IF Reusable(k, force) THEN [W EXCEPT !.pool = << s >> \o @]
              ELSE [W EXCEPT !.conn[s] = Closed, !.client[c].callbacks = << >>,
                             !.nb_active = @ - 1]
    IN  Noted([W1 EXCEPT !.client[c] = [@ EXCEPT !.stream = NoStream, !.status = "disconnected",
                                          !.watching = FALSE,
                                          !.mode = IF is_reset_mode THEN {} ELSE k.mode]], c)

\* The program is told, by an exception, that its connection is gone.
Told(W, c) == [W EXCEPT !.client[c] = [@ EXCEPT !.watched = FALSE, !.touched = FALSE]]

Lost(W, c) == Told(redis_sock_disconnect(W, c, TRUE, TRUE), c)

\* Replies in the stream's buffer are seen, and those the poll finds; not those
\* still on their way.  With 2 what was buffered is skipped, if it is all there.
redis_stream_detect_dirty(W, c) ==
    LET s == W.client[c].stream
        clean == ~W.conn[s].unread
    IN  {[ok |-> clean \/ late, w |-> W] : late \in BOOLEAN} \cup
        (IF ini.detect_dirty = 2 THEN {[ok |-> TRUE, w |-> [W EXCEPT !.conn[s].unread = FALSE]]} ELSE {})

\* A mistake to catch: the answer to ECHO is read and not compared.
Echoed_any(r) == TRUE

\* The reply to ECHO is the text that was sent.
Echoed(r) == ~r.unread /\ r.multi = "no"

\* A stream taken from the pool is kept if it is alive, clean and, with
\* echo_check_liveness, answers an ECHO with its own text.  When that answer
\* does not come redis_sock_gets has closed the stream already, and counted it.
redis_sock_check_liveness(W, c) ==
    LET s == W.client[c].stream
        failure(V) == [V EXCEPT !.conn[s] = Closed,
                                !.client[c] = [@ EXCEPT !.stream = NoStream, !.status = "disconnected"]]
        success(V) == [V EXCEPT !.client[c].status = "connected"]
    IN  IF ~W.conn[s].up THEN {[ok |-> FALSE, w |-> failure(W)]}
        ELSE UNION {
            IF ~d.ok THEN {[ok |-> FALSE, w |-> failure(d.w)]}
            ELSE IF ~ini.echo THEN {[ok |-> TRUE, w |-> success(d.w)]}
            ELSE IF ~Echoed(d.w.conn[s]) THEN {[ok |-> FALSE, w |-> failure(d.w)]}
            ELSE {[ok |-> TRUE, w |-> success(d.w)]} \cup
                 {[ok |-> FALSE, w |-> Fault([redis_sock_disconnect(d.w, c, TRUE, TRUE)
                                              EXCEPT !.ghost.drift = @ + 1])] :
                      x \in {1} \cap (IF MayFail(d.w) THEN {1} ELSE {})}
            : d \in IF ini.detect_dirty = 0 THEN {[ok |-> TRUE, w |-> W]}
                     ELSE redis_stream_detect_dirty(W, c)}

\* A mistake to catch: the limit is exceeded by one.
LimitReached_late(n) == Limit > 0 /\ n > Limit

LimitReached(n) == Limit > 0 /\ n >= Limit

\* A new stream, unless the limit is reached or the server does not accept it.
NewStream(W, c) ==
    LET free == {s \in Streams : ~W.conn[s].open}
        s == CHOOSE x \in free : \A y \in free : x <= y
        counted == W.client[c].persistent
    IN  IF free = {} \/ (counted /\ LimitReached(W.nb_active)) THEN {[ok |-> FALSE, w |-> W]}
        ELSE {[ok |-> TRUE,
               w |-> [W EXCEPT !.conn[s] = Accepted,
                               !.client[c] = [@ EXCEPT !.stream = s, !.status = "connected"],
                               !.nb_active = IF counted THEN @ + 1 ELSE @]]}
             \cup {[ok |-> FALSE, w |-> V] : V \in IF MayFail(W) THEN {Fault(W)} ELSE {}}

redis_sock_connect(W0, c) ==
    LET W == IF W0.client[c].stream = NoStream THEN W0
             ELSE redis_sock_disconnect(W0, c, FALSE, TRUE)
    IN  IF W.client[c].persistent /\ W.pool # << >>
        THEN UNION {IF a.ok THEN {a}
                    ELSE NewStream([a.w EXCEPT !.nb_active = @ - 1], c) :
                      a \in redis_sock_check_liveness(
                              [W EXCEPT !.client[c].stream = Last(W.pool),
                                        !.pool = Front(W.pool)], c)}
        ELSE NewStream(W, c)

---------------------------------------------------------------------------
(* A command and its answer.  Operators from here on return sets of       *)
(* [reply, w]; the reply is "none" when the command fails.                *)

Failed(W, c) == [Lost(W, c) EXCEPT !.client[c].status = "failed"]

\* One reply is read.  Where earlier ones were left, or a MULTI block was, it is
\* not the command's own: the client is not followed further.  It may also never
\* come, and the stream is closed: by redis_sock_gets after a timeout, by
\* redis_check_eof after an EOF.
Answer(W, c, cmd) ==
    LET s == W.client[c].stream
        a == Serve(W.conn[s], cmd)
    IN  IF W.conn[s].unread \/ (a.reply = "queued" /\ W.client[c].mode # {"MULTI"})
        THEN {[reply |-> "none", w |-> [W EXCEPT !.ghost.mixed = @ \cup {c}]]}
        ELSE {[reply |-> a.reply, w |-> [W EXCEPT !.conn[s] = a.r]]} \cup
             (IF MayFail(W) THEN {[reply |-> "none", w |-> Fault(Lost(W, c))],
                                  [reply |-> "none", w |-> Fault(Failed(W, c))]} ELSE {})

ReadyNow(W, c) == [W EXCEPT !.client[c].status = "ready"]

\* A mistake to catch: a new connection is used as it is.
Reselected_never(a, c) == IF a.ok THEN {[ok |-> TRUE, w |-> ReadyNow(a.w, c)]} ELSE {a}

\* A stream just connected selects the object's database, unless it is 0.
Reselected(a, c) ==
    IF ~a.ok THEN {a}
    ELSE IF a.w.client[c].db = 0 THEN {[ok |-> TRUE, w |-> ReadyNow(a.w, c)]}
    ELSE {IF x.reply = "ok" THEN [ok |-> TRUE, w |-> ReadyNow(x.w, c)]
                            ELSE [ok |-> FALSE, w |-> x.w] : x \in Answer(a.w, c, "select")}

\* A mistake to catch: a lost connection is replaced although keys are watched.
Irreplaceable_unwatched(k) == k.mode = {"MULTI"}

\* A connection whose loss the server's side of a block does not survive.
Irreplaceable(k) == k.mode = {"MULTI"} \/ k.watching

\* A stream found closed before a command is sent is replaced, and the mode kept.
\* A bound: one attempt to reconnect, of the max_retries the loop may make.
redis_check_eof(W, c) ==
    LET k == W.client[c]
    IN  IF k.stream = NoStream THEN {[ok |-> FALSE, w |-> W]}
        ELSE IF W.conn[k.stream].up THEN {[ok |-> TRUE, w |-> W]}
        ELSE IF Irreplaceable(k) THEN {[ok |-> FALSE, w |-> Failed(W, c)]}
        ELSE {IF a.ok THEN a ELSE [ok |-> FALSE, w |-> Failed(a.w, c)] :
                 a \in UNION {Reselected(x, c) :
                          x \in redis_sock_connect(redis_sock_disconnect(W, c, TRUE, FALSE), c)}}

Request(W, c, cmd) ==
    UNION {IF e.ok THEN Answer(e.w, c, cmd) ELSE {[reply |-> "none", w |-> e.w]} :
              e \in redis_check_eof(W, c)}

\* redis_sock_get: the object's connection is opened if it is not.
redis_sock_server_open(W, c) ==
    CASE W.client[c].status = "disconnected" ->
            UNION {Reselected(a, c) : a \in redis_sock_connect(W, c)}
      [] W.client[c].status = "connected" -> Reselected([ok |-> TRUE, w |-> W], c)
      [] W.client[c].status = "ready" -> {[ok |-> TRUE, w |-> W]}
      [] OTHER -> {[ok |-> FALSE, w |-> W]}

free_reply_callbacks(W, c) ==
    [W EXCEPT !.client[c].callbacks = << >>,
              !.ghost.torn = IF W.client[c].pipeline_cmd = << >> /\ c \notin W.ghost.mixed
                             THEN @ \ {c} ELSE @]

---------------------------------------------------------------------------
(* The methods.                                                            *)

\* What the reply callback of a command that succeeded does to the object.
Effect(k, cmd) ==
    CASE cmd = "select" -> [k EXCEPT !.db = 1]
      [] cmd = "watch" -> [k EXCEPT !.watching = TRUE, !.watched = TRUE]
      [] cmd = "unwatch" -> [k EXCEPT !.watching = FALSE, !.watched = FALSE, !.touched = FALSE]
      [] OTHER -> k

\* The object after each reply callback of a list.
Effects(k, cmds) ==
    LET after[i \in 0..Len(cmds)] == IF i = 0 THEN k ELSE Effect(after[i - 1], cmds[i])
    IN  after[Len(cmds)]

\* A mistake to catch: the list of callbacks grows at its head.
REDIS_SAVE_CALLBACK_first(k, callback) == [k EXCEPT !.callbacks = << callback >> \o @]

REDIS_SAVE_CALLBACK(k, callback) == [k EXCEPT !.callbacks = Append(@, callback)]

Buffered(k, cmd, callback) ==
    [REDIS_SAVE_CALLBACK(k, callback) EXCEPT !.pipeline_cmd = Append(@, cmd)]

Enqueue(W, c, cmd, callback) == [W EXCEPT !.client[c] = Buffered(@, cmd, callback)]

redis_response_enqueued(reply) == reply = "queued"

\* REDIS_PROCESS_CMD: the callback is kept for EXEC when the command is queued,
\* by the object or by the server, and called at once otherwise.
CommandSent(W, c, cmd) ==
    IF "PIPELINE" \in W.client[c].mode THEN {Enqueue(W, c, cmd, cmd)}
    ELSE {CASE redis_response_enqueued(x.reply) -> [x.w EXCEPT !.client[c] = REDIS_SAVE_CALLBACK(@, cmd)]
            [] x.reply = "ok" -> [x.w EXCEPT !.client[c] = Effect(@, cmd)]
            [] OTHER -> x.w : x \in Request(W, c, cmd)}

multi(W, c) ==
    LET mode == W.client[c].mode
    IN  IF "MULTI" \in mode THEN {W}
        ELSE IF "PIPELINE" \in mode
        THEN {[Enqueue(W, c, "MULTI", "null") EXCEPT !.client[c].mode = @ \cup {"MULTI"}]}
        ELSE {IF x.reply = "ok" THEN [x.w EXCEPT !.client[c].mode = {"MULTI"}] ELSE x.w :
                 x \in Request(W, c, "MULTI")}

pipeline(W, c) ==
    {IF W.client[c].mode = {} THEN [W EXCEPT !.client[c].mode = {"PIPELINE"}] ELSE W}

redis_send_discard(W, c) == Request(W, c, "DISCARD")

\* The keys are no longer watched on the server; `watching' stays.
Unwatched(W, c) == [W EXCEPT !.client[c] = [@ EXCEPT !.watched = FALSE, !.touched = FALSE]]

discard(W, c) ==
    LET atomic(V) == [free_reply_callbacks(V, c) EXCEPT !.client[c].mode = {}]
    IN  IF "PIPELINE" \in W.client[c].mode
        THEN {atomic([W EXCEPT !.client[c].pipeline_cmd = << >>])}
        ELSE IF "MULTI" \in W.client[c].mode
        THEN {IF x.reply = "ok" THEN atomic(Unwatched(x.w, c)) ELSE x.w :
                 x \in redis_send_discard(W, c)}
        ELSE {W}

\* What the server made of an EXEC is compared with what the program knows.
Verdict(g, c, k, reply) ==
    [g EXCEPT !.unguarded = IF reply = "array" /\ k.watched /\ k.touched THEN @ \cup {c} ELSE @,
              !.spurious = IF reply = "nil" /\ ~k.watched THEN @ \cup {c} ELSE @]

Judged(W, c, reply) == Unwatched([W EXCEPT !.ghost = Verdict(@, c, W.client[c], reply)], c)

BlockOver(k) == [k EXCEPT !.mode = @ \ {"MULTI"}, !.watching = FALSE]

\* EXEC of a MULTI block: one callback for each reply in the array.  When the
\* command cannot be written the method ends there, its callbacks kept; what
\* SOCKET_WRITE_COMMAND frees then is a string literal, and should the process
\* die of it, nothing of it is left to follow.
ExecMulti(W, c) ==
    UNION {IF ~e.ok THEN {e.w}
           ELSE {LET k == e.w.client[c]
                     V == CASE x.reply = "none" -> x.w
                            [] x.reply \in {"nil", "err"} -> Judged(x.w, c, x.reply)
                            [] x.reply = "array" ->
                                 LET J == Judged(x.w, c, "array")
                                 IN  IF c \in W.ghost.torn
                                     THEN [J EXCEPT !.ghost.mixed = @ \cup {c}]
                                     ELSE [J EXCEPT !.client[c] = Effects(@, k.callbacks)]
                 IN  [free_reply_callbacks(V, c) EXCEPT !.client[c] = BlockOver(@)] :
                    x \in Answer(e.w, c, "EXEC")} :
              e \in redis_check_eof(W, c)}

\* The connection after each command of a pipeline, and the server's answers.
Served(r, cmds) ==
    LET after[i \in 0..Len(cmds)] == IF i = 0 THEN r ELSE Serve(after[i - 1], cmds[i]).r
    IN  [r |-> after[Len(cmds)],
         replies |-> [i \in 1..Len(cmds) |-> Serve(after[i - 1], cmds[i]).reply]]

InMulti(cmds, i) ==
    \E j \in 1..(i - 1) : cmds[j] = "MULTI" /\ \A l \in j..i : cmds[l] # "EXEC"

\* The replies are read in order up to one that should be +OK or +QUEUED and is not.
Consumed(cmds, replies) ==
    LET refused == {i \in DOMAIN cmds : \/ InMulti(cmds, i) /\ ~redis_response_enqueued(replies[i])
                                        \/ cmds[i] = "MULTI" /\ replies[i] # "ok"}
    IN  IF refused = {} THEN Len(cmds) ELSE CHOOSE i \in refused : \A j \in refused : i <= j

\* Callbacks are called for what was sent outside a MULTI block.
Collected(W, c, cmds, replies, n) ==
    LET blind == \E i \in DOMAIN cmds : cmds[i] = "select" /\ InMulti(cmds, i)
        after[i \in 0..n] ==
            IF i = 0 THEN [W EXCEPT !.ghost.blind = IF blind THEN @ \cup {c} ELSE @]
            ELSE IF cmds[i] = "EXEC" THEN Judged(after[i - 1], c, replies[i])
            ELSE IF replies[i] = "ok" THEN [after[i - 1] EXCEPT !.client[c] = Effect(@, cmds[i])]
            ELSE after[i - 1]
    IN  after[n]

\* The buffered commands are sent at once.  Without callbacks nothing is read.
Flushed(W, c) ==
    LET s == W.client[c].stream
        cmds == W.client[c].pipeline_cmd
        a == Served(W.conn[s], cmds)
        n == IF W.client[c].callbacks = << >> THEN 0 ELSE Consumed(cmds, a.replies)
        left == Len(cmds) - n
    IN  IF W.conn[s].unread \/ W.conn[s].multi # "no" \/ (c \in W.ghost.torn /\ W.client[c].callbacks # << >>)
        THEN {[W EXCEPT !.ghost.mixed = @ \cup {c}]}
        ELSE {Collected([W EXCEPT !.conn[s] = [a.r EXCEPT !.unread = left > 0],
                             !.ghost.unread = IF left > 0 THEN @ \cup {c} ELSE @],
                        c, cmds, a.replies, n)} \cup
             (IF MayFail(W) /\ n > 0 THEN {Fault(Lost(W, c))} ELSE {})

ExecPipeline(W, c) ==
    {[free_reply_callbacks([V EXCEPT !.client[c].pipeline_cmd = << >>], c)
         EXCEPT !.client[c].mode = @ \ {"PIPELINE"}] :
        V \in IF W.client[c].pipeline_cmd = << >> THEN {W}
              ELSE UNION {IF e.ok THEN Flushed(e.w, c) ELSE {e.w} : e \in redis_check_eof(W, c)}}

exec(W, c) ==
    CASE W.client[c].mode = {"MULTI", "PIPELINE"} ->
            {[Enqueue(W, c, "EXEC", "null") EXCEPT !.client[c].mode = {"PIPELINE"}]}
      [] W.client[c].mode = {"MULTI"} -> ExecMulti(W, c)
      [] W.client[c].mode = {"PIPELINE"} -> ExecPipeline(W, c)
      [] OTHER -> {W}

reset(W, c) ==
    IF "PIPELINE" \in W.client[c].mode THEN {W}
    ELSE {IF x.reply = "ok"
          THEN [free_reply_callbacks(Unwatched(x.w, c), c) EXCEPT !.client[c] =
                   [@ EXCEPT !.status = "connected", !.mode = {}, !.db = 0, !.watching = FALSE]]
          ELSE x.w : x \in Request(W, c, "RESET")}

close(W, c) == {Told(redis_sock_disconnect(W, c, TRUE, TRUE), c)}

\* What was noted of a RedisSock goes with it.
Forgotten(g, c) == [g EXCEPT !.torn = @ \ {c}, !.blind = @ \ {c}]

\* The old RedisSock is freed, its stream put back or closed.
redis_free_socket(W, c) ==
    [redis_sock_disconnect(W, c, FALSE, TRUE) EXCEPT
        !.client[c] = [redis_sock_create(FALSE) EXCEPT !.status = "none"],
        !.ghost = Forgotten(@, c)]

redis_connect(W, c, persistent) ==
    {IF a.ok THEN a.w ELSE [a.w EXCEPT !.client[c] = [redis_sock_create(FALSE) EXCEPT !.status = "none"]] :
        a \in redis_sock_connect([redis_free_socket(W, c) EXCEPT
                                     !.client[c] = redis_sock_create(persistent)], c)}

\* The destructor sends DISCARD in a MULTI block; the object is freed after.
destruct(W, c) ==
    {redis_free_socket(V, c) :
        V \in IF W.client[c].mode = {"MULTI"} /\ W.client[c].stream # NoStream
              THEN {x.w : x \in redis_send_discard(W, c)} ELSE {W}}

---------------------------------------------------------------------------

\* Nothing is followed once a reply was taken for another command's, an EXEC has
\* failed for a key somebody else watched, or a database was changed unseen.
Followed(c) == ghost.mixed = {} /\ ghost.spurious = {} /\ ghost.blind = {}

\* A method that needs a connection is called.
Opened(c, method(_, _)) ==
    /\ Followed(c) /\ client[c].status # "none"
    /\ \E a \in redis_sock_server_open(World, c) :
          IF a.ok THEN \E V \in method(a.w, c) : Become(V)
                  ELSE Become(Told(a.w, c))

\* The bound on what a block holds; one that was torn gets no further commands,
\* and is torn only once.
Room(c) ==
    LET k == client[c]
        sent == Len(SelectSeq(k.callbacks, LAMBDA x : x # "null"))
    IN  /\ sent < MaxQueue /\ Len(k.pipeline_cmd) <= MaxQueue
        /\ c \in ghost.torn => k.mode = {}

Connect(c) ==
    /\ Followed(c)
    /\ \E persistent \in IF c \in Busy THEN BOOLEAN ELSE {TRUE} :
          \E V \in redis_connect(World, c, persistent) : Become(V)

Call(c) ==
    /\ Room(c)
    /\ \E cmd \in IF c \in Busy THEN Command \ {"cmd"} ELSE {"cmd"} :
          Opened(c, LAMBDA W, d : CommandSent(W, d, cmd))

Multi(c) == Len(client[c].callbacks) < MaxQueue + 1 /\ Opened(c, multi)
\* A bound too: no pipeline begins once the replies of one were left.
Pipeline(c) == ghost.unread = {} /\ Opened(c, pipeline)
Discard(c) == Opened(c, discard)
Exec(c) == Opened(c, exec)
Reset(c) == Opened(c, reset)
Close(c) == c \notin ghost.torn /\ Opened(c, close)

Destruct(c) ==
    /\ Followed(c) /\ client[c].status # "none"
    /\ \E V \in destruct(World, c) : Become(V)

\* The server closes a stream: it is restarted, or the stream was idle too long.
Drop(s) ==
    /\ faults < MaxFaults /\ conn[s].up /\ ~conn[s].unread
    /\ Become([Fault(World) EXCEPT !.conn[s] = [Closed EXCEPT !.open = TRUE]])

\* Another client of the server writes to the watched keys.
Touch ==
    /\ \E s \in Streams : conn[s].watch = "clean"
    /\ conn' = [s \in Streams |-> IF conn[s].watch = "clean"
                                  THEN [conn[s] EXCEPT !.watch = "dirty"] ELSE conn[s]]
    /\ client' = [c \in Client |-> [client[c] EXCEPT !.touched = client[c].watched]]
    /\ UNCHANGED <<pool, nb_active, ini, faults, ghost>>

Init ==
    /\ client = [c \in Client |-> [redis_sock_create(FALSE) EXCEPT !.status = "none"]]
    /\ conn = [s \in Streams |-> Closed]
    /\ pool = << >>
    /\ nb_active = 0
    /\ ini \in Ini
    /\ faults = 0
    /\ ghost = [torn |-> {}, unread |-> {}, mixed |-> {}, blind |-> {}, unguarded |-> {},
                spurious |-> {}, drift |-> 0]

Next ==
    \/ \E c \in Client : Connect(c) \/ Call(c) \/ Destruct(c)
    \/ \E c \in Busy : Close(c) \/ Multi(c) \/ Pipeline(c) \/ Discard(c) \/ Exec(c) \/ Reset(c)
    \/ \E s \in Streams : Drop(s)
    \/ Touch

Spec == Init /\ [][Next]_vars

---------------------------------------------------------------------------
(* Properties.                                                             *)

TypeOK ==
    /\ client \in [Client -> Sock]
    /\ conn \in [Streams -> Conn]
    /\ pool \in Seq(Streams)
    /\ nb_active \in -MaxFaults..(IF Limit = 0 THEN MaxClients ELSE Limit)
    /\ ini \in Ini
    /\ faults \in 0..MaxFaults
    /\ ghost \in Ghost

\* A connection ready for commands (library.c:3200) is on the database the
\* object last selected, through every reconnection.  The exceptions: an object
\* that selected nothing and took a pooled stream, and one whose SELECT ran in
\* the MULTI of a pipeline.
RightDatabase ==
    \A c \in Client \ (ghost.mixed \cup ghost.blind \cup ghost.unread) :
        LET k == client[c]
        IN  k.status = "ready" =>
              /\ k.db = 1 => conn[k.stream].db = 1 \/ ~conn[k.stream].up
              /\ k.db = 0 /\ ~k.persistent => conn[k.stream].db = 0

\* A pooled stream (library.c:3230) is held by nobody, is in no MULTI block and
\* has no reply pending, unless a reply was left behind; and nb_active counts
\* the streams open, except that an ECHO without an answer (library.c:3039) takes
\* its stream off twice.
PoolSound ==
    LET held == {c \in Client : client[c].stream # NoStream}
    IN  /\ IsInjective(pool)
        /\ \A i \in DOMAIN pool :
              /\ \A c \in held : client[c].stream # pool[i]
              /\ conn[pool[i]].open
              /\ ghost.unread = {} => conn[pool[i]].multi = "no" /\ ~conn[pool[i]].unread
        /\ nb_active + ghost.drift = Len(pool) + Cardinality({c \in held : client[c].persistent})

\* In a MULTI block of a live stream the callbacks kept for EXEC (common.h:195)
\* are those of the commands the server has queued, one by one and in order.  An
\* object that lost its stream in an earlier block and kept the callbacks of that
\* one (library.c:3226) is exempt.
CallbacksMatchQueue ==
    \A c \in Client \ ghost.torn :
        LET k == client[c]
        IN  k.mode = {"MULTI"} /\ conn[k.stream].up /\ conn[k.stream].multi = "queue"
            => k.callbacks = conn[k.stream].queue

\* A reply is taken for another command's (redis.c:2047) only after a block was
\* torn or its replies were left; with echo_check_liveness never by an object
\* that has done neither itself.
OwnReplies ==
    /\ ghost.mixed # {} => ghost.torn \cup ghost.unread # {}
    /\ ini.echo => ghost.mixed \subseteq ghost.torn \cup ghost.unread

\* An EXEC never goes through when a key the program believes watched has
\* changed (library.c:351), and fails for watched keys without a WATCH of its
\* own only on a stream of the pool.
WatchHolds ==
    /\ ghost.unguarded = {}
    /\ \A c \in ghost.spurious : client[c].persistent

===========================================================================
