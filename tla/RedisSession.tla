--------------------------- MODULE RedisSession ---------------------------
(***************************************************************************)
(* The session save handler of the Redis client extension                  *)
(* (redis_session.c) with redis.session.locking_enabled = 1: PHP workers   *)
(* that open, lock, read, write, destroy and close sessions kept in a pool *)
(* of Redis servers.  Each command a handler sends is one step, so that    *)
(* the commands of different workers interleave.                           *)
(***************************************************************************)
EXTENDS Integers, Sequences

CONSTANTS Worker,     \* PHP processes; the lock secret is "hostname|pid"
          Sid,        \* session ids
          Free,       \* the lock key does not exist
          Weights,    \* the weight of each pool member, from the pool's head
          Hash,       \* the number a session id's first four bytes make
          KeyHash,    \* the number those of its session_key make, which a
                      \* pool member builds with the prefix it was given
          NewKeyHash, \* the numbers those of the session_keys of new ids make
          Retries,    \* redis.session.lock_retries; -1 is for ever
          SidTries,   \* ids PS_CREATE_SID tries to lock (3 in the code)
          MaxFaults,  \* bound on the failures of the network and the workers
          MaxVersion  \* bound on the versions of a session's data

ASSUME SessionAssumption ==
    /\ Free \notin Worker
    /\ Sid # {}
    /\ Weights \in Seq(Nat \ {0}) /\ Weights # << >>
    /\ Hash \in [Sid -> Nat]
    /\ KeyHash \in [Sid -> [DOMAIN Weights -> Nat]]
    /\ NewKeyHash \subseteq Nat
    /\ Retries \in Nat \cup {-1}
    /\ SidTries \in Nat \ {0}
    /\ MaxFaults \in Nat
    /\ MaxVersion \in Nat

VARIABLES lock,     \* the value of each session's lock key
          data,     \* the version of each session's data, 0 when there is none
          req,      \* the request each worker is serving
          expiry,   \* the ini setting the lock's time to live comes from
          faults,   \* failures so far
          moved,    \* sessions whose request got a session_key of another server
          lapsed    \* sessions whose lock expired between write_allowed and the write

vars == <<lock, data, req, expiry, faults, moved, lapsed>>

PC == {"idle", "start", "create", "acquire", "refused", "fetch", "active",
       "allowed", "delete", "close"}

\* `server' is the pool member session_key hashes to.
Request == [pc: PC, sid: Sid, server: 1..Len(Weights), is_locked: BOOLEAN,
            conn: {"ready", "down", "failed"},
            tries: Nat, sids: 0..SidTries, seen: 0..MaxVersion]

\* A pool that has just been opened: nothing locked, no connection yet.
NewRequest ==
    LET none == CHOOSE s \in Sid : TRUE
    IN  [pc |-> "idle", sid |-> none, server |-> 1, is_locked |-> FALSE,
         conn |-> "ready", tries |-> 0, sids |-> 0, seen |-> 0]

\* The lock command carries a PX when lock_expire or, failing that,
\* max_execution_time is not 0.
HasTTL == expiry # "none"

---------------------------------------------------------------------------
(* The pool and its connections.                                           *)

Offset[i \in 0..Len(Weights)] ==
    IF i = 0 THEN 0 ELSE Offset[i - 1] + Weights[i]

\* The one member whose range of weights holds the hash of the id.
redis_pool_get_sock(key) ==
    CHOOSE i \in DOMAIN Weights :
        LET pos == key % Offset[Len(Weights)]
        IN  Offset[i - 1] <= pos /\ pos < Offset[i]

\* One command of w: it is answered, it is executed and its answer is lost (the
\* socket is then closed), or it never leaves the worker.  A closed socket is
\* reopened when the next handler asks the pool for it; a failed one stays so.
redis_simple_cmd(w, o, c) ==
    IF req[w].conn # "ready"
    THEN o = "unsent" /\ c = req[w].conn /\ UNCHANGED faults
    ELSE /\ <<o, c>> \in {<<"ok", "ready">>, <<"lost", "down">>,
                          <<"unsent", "down">>, <<"unsent", "failed">>}
         /\ o # "ok" => faults < MaxFaults
         /\ faults' = IF o = "ok" THEN faults ELSE faults + 1

Reopened(c) == IF c = "down" THEN "ready" ELSE c

Outcome == {"ok", "lost", "unsent"}
Conn == {"ready", "down", "failed"}

Update(w, r) == req' = [req EXCEPT ![w] = r]

\* A mistake to catch: a request that has failed forgets that it is locked.
EndingUnlocked(r) == [r EXCEPT !.pc = "close", !.conn = Reopened(@), !.tries = 0,
                               !.sids = 0, !.seen = 0, !.is_locked = FALSE]

\* All that is left is PS_CLOSE, which looks at the lock only.
Ending(r) == [r EXCEPT !.pc = "close", !.conn = Reopened(@), !.tries = 0, !.sids = 0, !.seen = 0]

\* The member the lock and the data of s are on: the handlers look it up by id.
Server(s) == redis_pool_get_sock(Hash[s])

\* A mistake to catch: the walk goes one member too far.
KeyServer_next(s) == 1 + redis_pool_get_sock(KeyHash[s][Server(s)])

\* The member session_key hashes to.  Under the default prefix its first four
\* bytes are those of the prefix, the same for every session.
KeyServer(s) == redis_pool_get_sock(KeyHash[s][Server(s)])

---------------------------------------------------------------------------
(* Starting a session.                                                     *)

PsOpen(w) ==
    /\ req[w].pc = "idle"
    /\ Update(w, [NewRequest EXCEPT !.pc = "start"])
    /\ UNCHANGED <<lock, data, expiry, faults, moved, lapsed>>

\* A session id about to be locked, with `sids' more to try if that fails.
Locking(r, s, sids) ==
    [r EXCEPT !.pc = "acquire", !.sid = s, !.server = KeyServer(s),
              !.conn = Reopened(@), !.tries = 0, !.sids = sids]

\* Strict mode asks whether the id the browser sent exists before it reads it;
\* a new id is made when it does not.
PsValidateSid(w) ==
    /\ req[w].pc = "start"
    /\ \E s \in Sid, o \in Outcome, c \in Conn :
          /\ redis_simple_cmd(w, o, c)
          /\ LET r == [req[w] EXCEPT !.conn = c]
             IN  Update(w, IF o = "ok" /\ data[s] # 0 THEN Locking(r, s, 0)
                                                      ELSE [r EXCEPT !.pc = "create"])
    /\ UNCHANGED <<lock, data, expiry, moved, lapsed>>

\* PS_READ of the id the browser sent, known or not.
PsRead(w) ==
    /\ req[w].pc = "start"
    /\ \E s \in Sid : Update(w, Locking(req[w], s, 0))
    /\ UNCHANGED <<lock, data, expiry, faults, moved, lapsed>>

\* A new id is locked before it is returned, and three ids are tried; without
\* a connection the id is returned unlocked, for the read to lock.
PsCreateSid(w) ==
    /\ \E s \in Sid :
          /\ data[s] = 0
          /\ \/ /\ req[w].pc = "create"
                /\ Update(w, Locking(req[w], s, SidTries - 1))
                /\ UNCHANGED faults
             \/ /\ req[w].pc = "refused" /\ req[w].sids > 0
                /\ Update(w, Locking(req[w], s, req[w].sids - 1))
                /\ UNCHANGED faults
             \/ /\ req[w].pc = "create"
                /\ \E c \in Conn : /\ redis_simple_cmd(w, "unsent", c)
                                   /\ Update(w, Locking([req[w] EXCEPT !.conn = c], s, 0))
    /\ UNCHANGED <<lock, data, expiry, moved, lapsed>>

\* A mistake to catch: SET without NX.
NX_forgotten(w) == TRUE

NX(w) == lock[req[w].sid] = Free

\* SET lock secret NX, as the server executes it.
set_session_lock_key(w, o, c) ==
    /\ redis_simple_cmd(w, o, c)
    /\ lock' = IF o # "unsent" /\ NX(w) THEN [lock EXCEPT ![req[w].sid] = w] ELSE lock

\* A mistake to catch: a refused attempt is not counted.
Attempted_uncounted(r) == r

Attempted(r) == [r EXCEPT !.tries = IF Retries = -1 THEN @ ELSE @ + 1]

LockGranted(w) ==
    /\ req[w].pc = "acquire" /\ NX(w)
    /\ \E c \in Conn :
          /\ set_session_lock_key(w, "ok", c)
          /\ Update(w, [req[w] EXCEPT !.pc = "fetch", !.is_locked = TRUE, !.conn = c,
                                      !.tries = 0, !.sids = 0])
    /\ UNCHANGED <<data, expiry, moved, lapsed>>

\* No +OK came back: the lock is taken, or the answer was lost.  Both count as
\* one of the attempts.
LockRefused(w) ==
    /\ req[w].pc = "acquire"
    /\ \E o \in {"ok", "lost"}, c \in Conn :
          /\ o = "ok" => ~NX(w)
          /\ set_session_lock_key(w, o, c)
          /\ Update(w, [Attempted(req[w]) EXCEPT !.conn = c,
                 !.pc = IF Retries # -1 /\ req[w].tries >= Retries THEN "refused" ELSE @])
    /\ UNCHANGED <<data, expiry, moved, lapsed>>

\* The command cannot be written: no further attempt is made.
LockUnsent(w) ==
    /\ req[w].pc = "acquire"
    /\ \E c \in Conn :
          /\ set_session_lock_key(w, "unsent", c)
          /\ Update(w, [req[w] EXCEPT !.pc = "refused", !.conn = c])
    /\ UNCHANGED <<data, expiry, moved, lapsed>>

\* session_start fails and PHP closes the session.  (Real ids never run out: the
\* model's are as many as Sid.)
StartFails(w) ==
    /\ \/ req[w].pc = "refused" /\ req[w].sids = 0
       \/ req[w].pc \in {"refused", "create"} /\ \A s \in Sid : data[s] # 0
    /\ Update(w, Ending(req[w]))
    /\ UNCHANGED <<lock, data, expiry, faults, moved, lapsed>>

\* The GET of PS_READ, once the lock is held.
Fetch(w) ==
    /\ req[w].pc = "fetch"
    /\ \E o \in Outcome, c \in Conn :
          /\ redis_simple_cmd(w, o, c)
          /\ Update(w, IF o = "ok"
                       THEN [req[w] EXCEPT !.pc = "active", !.conn = c,
                                           !.seen = data[req[w].sid]]
                       ELSE Ending([req[w] EXCEPT !.conn = c]))
    /\ UNCHANGED <<lock, data, expiry, moved, lapsed>>

---------------------------------------------------------------------------
(* Ending a session.                                                       *)

\* A mistake to catch: the lock is deleted whoever holds it.
Secret_ignored(w) == lock[req[w].sid] # Free

\* The value of the lock key is the worker's own secret.
Secret(w) == lock[req[w].sid] = w

\* With lock_expire set the lock is read back and its secret compared.
write_allowed(w) ==
    /\ req[w].pc = "active" /\ req[w].seen < MaxVersion
    /\ \/ /\ expiry # "lock_expire"
          /\ Update(w, IF req[w].is_locked THEN [req[w] EXCEPT !.pc = "allowed"]
                                           ELSE Ending(req[w]))
          /\ UNCHANGED faults
       \/ /\ expiry = "lock_expire"
          /\ \E o \in Outcome, c \in Conn :
                /\ redis_simple_cmd(w, o, c)
                /\ LET held == o = "ok" /\ Secret(w)
                       r == [req[w] EXCEPT !.is_locked = held, !.conn = c]
                   IN  Update(w, IF held THEN [r EXCEPT !.pc = "allowed"] ELSE Ending(r))
    /\ UNCHANGED <<lock, data, expiry, moved, lapsed>>

\* The SETEX of PS_WRITE.
PsWrite(w) ==
    /\ req[w].pc = "allowed"
    /\ \E o \in Outcome, c \in Conn :
          /\ redis_simple_cmd(w, o, c)
          /\ data' = IF o = "unsent" THEN data
                     ELSE [data EXCEPT ![req[w].sid] = req[w].seen + 1]
          /\ Update(w, Ending([req[w] EXCEPT !.conn = c]))
    /\ UNCHANGED <<lock, expiry, moved, lapsed>>

\* Unchanged data only has its time to live renewed, lock or no lock.
PsUpdateTimestamp(w) ==
    /\ req[w].pc = "active"
    /\ \E o \in Outcome, c \in Conn :
          /\ redis_simple_cmd(w, o, c)
          /\ Update(w, Ending([req[w] EXCEPT !.conn = c]))
    /\ UNCHANGED <<lock, data, expiry, moved, lapsed>>

\* session_create_id() inside a session: the lock is held already, so the new
\* id only replaces session_key.
NewSessionKey(w) ==
    /\ req[w].pc = "active"
    /\ \E h \in NewKeyHash :
          /\ Update(w, [req[w] EXCEPT !.server = redis_pool_get_sock(h)])
          /\ moved' = IF redis_pool_get_sock(h) = req[w].server THEN moved
                      ELSE moved \cup {req[w].sid}
    /\ UNCHANGED <<lock, data, expiry, faults, lapsed>>

\* The script deletes the lock if its value is the worker's secret, on the
\* server it is sent to.
lock_release(w, server, o, c) ==
    /\ redis_simple_cmd(w, o, c)
    /\ lock' = IF server = Server(req[w].sid) /\ o # "unsent" /\ Secret(w)
               THEN [lock EXCEPT ![req[w].sid] = Free] ELSE lock

\* PS_DESTROY gives up the lock first and deletes the data after; any answer
\* to the release clears is_locked.
PsDestroy(w) ==
    /\ req[w].pc = "active"
    /\ \E o \in Outcome, c \in Conn :
          /\ lock_release(w, Server(req[w].sid), o, c)
          /\ Update(w, [req[w] EXCEPT !.pc = "delete", !.conn = c,
                                      !.is_locked = o # "ok", !.seen = 0])
    /\ UNCHANGED <<data, expiry, moved, lapsed>>

DestroyData(w) ==
    /\ req[w].pc = "delete"
    /\ \E o \in Outcome, c \in Conn :
          /\ redis_simple_cmd(w, o, c)
          /\ data' = IF o = "unsent" THEN data ELSE [data EXCEPT ![req[w].sid] = 0]
          /\ Update(w, Ending([req[w] EXCEPT !.conn = c]))
    /\ UNCHANGED <<lock, expiry, moved, lapsed>>

\* PS_CLOSE looks the server up by session_key; then the pool is freed,
\* whatever became of the lock.
PsClose(w) ==
    /\ req[w].pc = "close"
    /\ \/ /\ ~req[w].is_locked
          /\ UNCHANGED <<lock, faults>>
       \/ /\ req[w].is_locked
          /\ \E o \in Outcome, c \in Conn :
                lock_release(w, req[w].server, o, c)
    /\ Update(w, NewRequest)
    /\ UNCHANGED <<data, expiry, moved, lapsed>>

---------------------------------------------------------------------------
(* What happens to a worker and to the keys.                               *)

\* The process dies in the middle of a request.  PS_CREATE_SID may be the cause:
\* after a refused attempt session_key is freed and stays in place, to be freed
\* again by the next attempt or by the close, which also hashes it.  A process
\* that survives that goes on as usual, for the close then releases nothing.
Crash(w) ==
    /\ req[w].pc # "idle" /\ faults < MaxFaults
    /\ faults' = faults + 1
    /\ Update(w, NewRequest)
    /\ UNCHANGED <<lock, data, expiry, moved, lapsed>>

\* A lock set with a time to live expires, whoever counts on it.
LockExpires(s) ==
    /\ HasTTL /\ lock[s] # Free
    /\ lock' = [lock EXCEPT ![s] = Free]
    /\ lapsed' = IF req[lock[s]].pc = "allowed" /\ req[lock[s]].sid = s
                 THEN lapsed \cup {s} ELSE lapsed
    /\ UNCHANGED <<data, req, expiry, faults, moved>>

\* session.gc_maxlifetime has passed since the data was last written or renewed.
DataExpires(s) ==
    /\ data[s] # 0
    /\ data' = [data EXCEPT ![s] = 0]
    /\ UNCHANGED <<lock, req, expiry, faults, moved, lapsed>>

---------------------------------------------------------------------------

Init ==
    /\ lock = [s \in Sid |-> Free]
    /\ data = [s \in Sid |-> 0]
    /\ req = [w \in Worker |-> NewRequest]
    /\ expiry \in {"lock_expire", "max_execution_time", "none"}
    /\ faults = 0
    /\ moved = {}
    /\ lapsed = {}

Start(w) ==
    \/ PsValidateSid(w) \/ PsRead(w) \/ PsCreateSid(w)
    \/ LockGranted(w) \/ LockRefused(w) \/ LockUnsent(w)
    \/ StartFails(w) \/ Fetch(w)

Finish(w) ==
    \/ write_allowed(w) \/ PsWrite(w) \/ PsUpdateTimestamp(w)
    \/ PsDestroy(w) \/ DestroyData(w) \/ PsClose(w)

Next ==
    \/ \E w \in Worker : \/ PsOpen(w) \/ Start(w) \/ NewSessionKey(w)
                         \/ Finish(w) \/ Crash(w)
    \/ \E s \in Sid : LockExpires(s) \/ DataExpires(s)

\* A request that has begun goes on: the process runs and its socket calls
\* return, with an answer or with a timeout.
Fairness == \A w \in Worker : WF_vars(Start(w) \/ Finish(w))

Spec == Init /\ [][Next]_vars /\ Fairness

---------------------------------------------------------------------------
(* Properties.                                                             *)

TypeOK ==
    /\ lock \in [Sid -> Worker \cup {Free}]
    /\ data \in [Sid -> 0..MaxVersion]
    /\ req \in [Worker -> Request]
    /\ expiry \in {"lock_expire", "max_execution_time", "none"}
    /\ faults \in 0..MaxFaults
    /\ moved \subseteq Sid
    /\ lapsed \subseteq Sid

\* The worker is between taking the lock (redis_session.c:709) and sending
\* its data (:765).
InSession(w) == req[w].pc \in {"fetch", "active", "allowed"}

\* Where no lock expires, two workers are never inside the same session: the
\* lock set by lock_acquire (redis_session.c:197) lasts until its owner's
\* own lock_release (:317), whatever replies are lost and whoever destroys
\* the session meanwhile.
MutualExclusion ==
    ~HasTTL => \A w1, w2 \in Worker :
        InSession(w1) /\ InSession(w2) /\ req[w1].sid = req[w2].sid => w1 = w2

\* Where no lock expires, what a worker is about to overwrite with PS_WRITE
\* (redis_session.c:738) is what its PS_READ (:681) returned, or nothing at all
\* once the data expired or a PS_DESTROY that had given up the lock deleted it.
NoUnseenOverwrite ==
    ~HasTTL => \A w \in Worker : req[w].pc \in {"active", "allowed"} =>
        data[req[w].sid] \in {req[w].seen, 0}

\* With lock_expire set, write_allowed (redis_session.c:275) leaves one window:
\* data the worker has not seen is overwritten only in a session whose lock has
\* expired between some worker's GET of the lock and its SETEX.
OnlyLateOverwrites ==
    [][\A w \in Worker :
          (expiry = "lock_expire" /\ req[w].pc = "allowed" /\ data'[req[w].sid] # data[req[w].sid]
              /\ req'[w].pc = "close")
          => data[req[w].sid] \in {req[w].seen, 0} \/ req[w].sid \in lapsed]_vars

\* The request that set the lock of s is over.
LeftLocked(s) ==
    lock[s] # Free /\ (req[lock[s]].pc = "idle" \/ req[lock[s]].sid # s)

\* A session whose session_key hashes to the server of its id (in a pool of one,
\* every session) leaves its lock behind only after a failure of the network or
\* of the worker, or when session_create_id() gave its request the session_key
\* of another server before PS_CLOSE (redis_session.c:514) looked one up by it.
LocksAreReturned ==
    \A s \in Sid : LeftLocked(s) => faults > 0 \/ s \in moved \/ KeyServer(s) # Server(s)

\* With a bounded number of retries every request ends, even when the lock it
\* waits for belongs to a worker that died and will never expire.
EveryRequestEnds ==
    \A w \in Worker : req[w].pc # "idle" ~> req[w].pc = "idle"

---------------------------------------------------------------------------
(* What tests and documents of the repository say, and the code does not do. *)

\* tests/RedisTest.php:7355, testSession_lockReleasedOnClose, and README.md:76,
\* "the target host is determined once and for all at the start of the session,
\* and doesn't change": where nothing fails, closing a session releases its lock.
LockReleasedOnClose == \A s \in Sid : LeftLocked(s) => faults > 0
===========================================================================
