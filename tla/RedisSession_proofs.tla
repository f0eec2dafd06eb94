------------------------- MODULE RedisSession_proofs -------------------------
(***************************************************************************)
(* What session locking promises for every set of workers and sessions,    *)
(* every pool, any number of retries and failures.                         *)
(*                                                                         *)
(* For the locks redis_pool_get_sock is left unexpanded: where a session   *)
(* lives does not matter as long as it is the same server each time it is  *)
(* looked up.  The argument has three layers: the fields an action gives a *)
(* request, the few kinds of steps the actions come down to, and the       *)
(* invariant those kinds of steps keep.                                    *)
(*                                                                         *)
(* That the server is one of the pool's is proved at the end, by induction *)
(* on the members' offsets, and with it the types and their bounds.        *)
(***************************************************************************)
EXTENDS RedisSession, WellFoundedInduction, TLAPS

\* A request, with the numbers it counts with unbounded.
Member == 1..Len(Weights) \cup {1} \cup {KeyServer(s) : s \in Sid}
            \cup {redis_pool_get_sock(h) : h \in NewKeyHash}
Rec == [pc: PC, sid: Sid, server: Member, is_locked: BOOLEAN, conn: Conn,
        tries: Int, sids: Int, seen: Int]

TypeInv ==
  /\ lock \in [Sid -> Worker \cup {Free}]
  /\ data \in [Sid -> Int]
  /\ req \in [Worker -> Rec]
  /\ faults \in Nat
  /\ moved \subseteq Sid
  /\ lapsed \subseteq Sid

---------------------------------------------------------------------------
(* The inductive invariant.                                                *)

\* Without a time to live, who is inside a session has its lock.
Holding == ~HasTTL => \A w \in Worker : InSession(w) => lock[req[w].sid] = w

\* Until something fails every connection works ...
Connected == faults = 0 => \A w \in Worker : req[w].conn = "ready"

\* ... and every lock belongs to a request that will give it back, on the server
\* the lock is on.
WillReturn(r, s) ==
  /\ r.sid = s /\ r.is_locked /\ r.pc \in {"fetch", "active", "allowed", "close"}
  /\ r.server = KeyServer(s)

Returning ==
  faults = 0 => \A s \in Sid :
    lock[s] # Free /\ s \notin moved /\ KeyServer(s) = Server(s) => WillReturn(req[lock[s]], s)

\* A lock is asked for with the session_key of its session in place.
Keyed == \A w \in Worker : req[w].pc = "acquire" => req[w].server = KeyServer(req[w].sid)

\* With lock_expire: a worker that still has the lock has seen the data, and
\* one that is about to write still has the lock; or the lock lapsed.
Checked ==
  expiry = "lock_expire" => \A w \in Worker :
    /\ req[w].pc \in {"active", "allowed"} /\ lock[req[w].sid] = w
         => data[req[w].sid] \in {req[w].seen, 0} \/ req[w].sid \in lapsed
    /\ req[w].pc = "allowed" => lock[req[w].sid] = w \/ req[w].sid \in lapsed

IInv == TypeInv /\ Holding /\ NoUnseenOverwrite /\ Connected /\ Returning /\ Keyed /\ Checked

---------------------------------------------------------------------------
(* The kinds of steps: worker w's request becomes n.                       *)

Becomes(w, n) ==
  /\ n \in Rec
  /\ Update(w, n)
  /\ faults' \in Nat /\ faults <= faults' /\ (faults' = 0 => n.conn = "ready")
  /\ expiry' = expiry /\ lapsed' = lapsed

\* Before the lock is taken; a lock whose grant was lost is taken all the same.
Waits(w, n) ==
  /\ Becomes(w, n) /\ data' = data /\ moved' = moved
  /\ req[w].pc \in {"idle", "start", "create", "acquire", "refused"}
  /\ n.pc \in {"start", "create", "acquire", "refused", "close"}
  /\ n.pc = "acquire" =>
       \/ n.server = KeyServer(n.sid)
       \/ req[w].pc = "acquire" /\ n.server = req[w].server /\ n.sid = req[w].sid
  /\ \/ lock' = lock
     \/ lock[req[w].sid] = Free /\ lock' = [lock EXCEPT ![req[w].sid] = w] /\ faults' > 0

Grants(w, n) ==
  /\ Becomes(w, n) /\ data' = data /\ moved' = moved
  /\ req[w].pc = "acquire" /\ lock[req[w].sid] = Free
  /\ lock' = [lock EXCEPT ![req[w].sid] = w]
  /\ n.pc = "fetch" /\ n.sid = req[w].sid /\ n.is_locked /\ n.server = req[w].server

Fetches(w, n) ==
  /\ Becomes(w, n) /\ data' = data /\ moved' = moved /\ lock' = lock
  /\ req[w].pc = "fetch" /\ n.pc = "active"
  /\ n.sid = req[w].sid /\ n.is_locked = req[w].is_locked /\ n.seen = data[n.sid]
  /\ n.server = req[w].server

Continues(w, n) ==
  /\ Becomes(w, n) /\ data' = data /\ lock' = lock
  /\ moved \subseteq moved' /\ moved' \subseteq Sid
  /\ n.server = req[w].server \/ n.sid \in moved'
  /\ req[w].pc = "active" /\ n.pc \in {"active", "allowed"}
  /\ n.sid = req[w].sid /\ (req[w].is_locked => n.is_locked) /\ n.seen = req[w].seen
  /\ n.pc = "allowed" /\ expiry = "lock_expire" => lock[n.sid] = w

Leaves(w, n) ==
  /\ Becomes(w, n) /\ moved' = moved /\ lock' = lock
  /\ req[w].pc \in {"fetch", "active", "allowed", "delete"} /\ n.pc = "close"
  /\ n.sid = req[w].sid /\ n.server = req[w].server
  /\ n.is_locked = req[w].is_locked \/ faults' > 0 \/ lock[n.sid] # w
  /\ \/ data' = data
     \/ data' = [data EXCEPT ![n.sid] = 0]
     \/ req[w].pc = "allowed" /\ data' = [data EXCEPT ![n.sid] = req[w].seen + 1]

\* The lock is given up by its owner, or is not the worker's to give up, or is
\* looked for on another server.
Releases(w, n) ==
  /\ Becomes(w, n) /\ data' = data /\ moved' = moved
  /\ req[w].pc \in {"active", "close"} /\ n.pc \in {"delete", "idle"}
  /\ \/ lock' = lock
     \/ lock[req[w].sid] = w /\ lock' = [lock EXCEPT ![req[w].sid] = Free]
  /\ \/ lock'[req[w].sid] # w \/ faults' > 0
     \/ req[w].pc = "close" /\ ~req[w].is_locked
     \/ req[w].pc = "close" /\ req[w].server # Server(req[w].sid)

Dies(w, n) ==
  /\ Becomes(w, n) /\ data' = data /\ moved' = moved /\ lock' = lock
  /\ faults' > 0 /\ n.pc = "idle"

Steps(w, n) ==
  \/ Waits(w, n) \/ Grants(w, n) \/ Fetches(w, n) \/ Continues(w, n)
  \/ Leaves(w, n) \/ Releases(w, n) \/ Dies(w, n)

---------------------------------------------------------------------------
(* Types: one field at a time, then the updates the actions make.          *)

LEMMA SetPc ==
  ASSUME NEW r \in Rec, NEW p \in PC
  PROVE  [r EXCEPT !.pc = p] \in Rec
  BY DEF Rec

LEMMA SetSid ==
  ASSUME NEW r \in Rec, NEW s \in Sid
  PROVE  [r EXCEPT !.sid = s] \in Rec
  BY DEF Rec

LEMMA SetServer ==
  ASSUME NEW r \in Rec, NEW v \in Member
  PROVE  [r EXCEPT !.server = v] \in Rec
  BY DEF Rec

LEMMA SetLocked ==
  ASSUME NEW r \in Rec, NEW b \in BOOLEAN
  PROVE  [r EXCEPT !.is_locked = b] \in Rec
  BY DEF Rec

LEMMA SetConn ==
  ASSUME NEW r \in Rec, NEW c \in Conn
  PROVE  [r EXCEPT !.conn = c] \in Rec
  BY DEF Rec

LEMMA SetTries ==
  ASSUME NEW r \in Rec, NEW i \in Int
  PROVE  [r EXCEPT !.tries = i] \in Rec
  BY DEF Rec

LEMMA SetSids ==
  ASSUME NEW r \in Rec, NEW j \in Int
  PROVE  [r EXCEPT !.sids = j] \in Rec
  BY DEF Rec

LEMMA SetSeen ==
  ASSUME NEW r \in Rec, NEW k \in Int
  PROVE  [r EXCEPT !.seen = k] \in Rec
  BY DEF Rec

LEMMA SetTriesZero ==
  ASSUME NEW r \in Rec
  PROVE  [r EXCEPT !.tries = 0] \in Rec
  BY DEF Rec

LEMMA SetSidsZero ==
  ASSUME NEW r \in Rec
  PROVE  [r EXCEPT !.sids = 0] \in Rec
  BY DEF Rec

LEMMA SetSeenZero ==
  ASSUME NEW r \in Rec
  PROVE  [r EXCEPT !.seen = 0] \in Rec
  BY DEF Rec

LEMMA EndingType ==
  ASSUME NEW r \in Rec
  PROVE  Ending(r) \in Rec
<1>1. Reopened(r.conn) \in Conn
  BY DEF Reopened, Rec, Conn
<1>2. PICK c \in Conn : c = Reopened(r.conn)
  BY <1>1
<1>3. PICK q1 \in Rec : q1 = [r EXCEPT !.pc = "close"]
  BY SetPc DEF PC
<1>4. PICK q2 \in Rec : q2 = [q1 EXCEPT !.conn = c]
  BY SetConn
<1>5. PICK q3 \in Rec : q3 = [q2 EXCEPT !.tries = 0]
  BY SetTriesZero
<1>6. PICK q4 \in Rec : q4 = [q3 EXCEPT !.sids = 0]
  BY SetSidsZero
<1>7. PICK q5 \in Rec : q5 = [q4 EXCEPT !.seen = 0]
  BY SetSeenZero
<1>8. Ending(r) = q5
  BY <1>2, <1>3, <1>4, <1>5, <1>6, <1>7 DEF Ending
<1> QED
  BY <1>8

LEMMA LockingType ==
  ASSUME NEW r \in Rec, NEW s \in Sid, NEW n \in Int
  PROVE  Locking(r, s, n) \in Rec
<1>1. Reopened(r.conn) \in Conn
  BY DEF Reopened, Rec, Conn
<1>2. PICK c \in Conn : c = Reopened(r.conn)
  BY <1>1
<1>3. PICK q1 \in Rec : q1 = [r EXCEPT !.pc = "acquire"]
  BY SetPc DEF PC
<1>4. PICK q2 \in Rec : q2 = [q1 EXCEPT !.sid = s]
  BY SetSid
<1>5. PICK q3 \in Rec : q3 = [q2 EXCEPT !.server = KeyServer(s)]
  BY SetServer DEF Member
<1>6. PICK q4 \in Rec : q4 = [q3 EXCEPT !.conn = c]
  BY SetConn
<1>7. PICK q5 \in Rec : q5 = [q4 EXCEPT !.tries = 0]
  BY SetTriesZero
<1>8. PICK q6 \in Rec : q6 = [q5 EXCEPT !.sids = n]
  BY SetSids
<1>9. Locking(r, s, n) = q6
  BY <1>2, <1>3, <1>4, <1>5, <1>6, <1>7, <1>8 DEF Locking
<1> QED
  BY <1>9

LEMMA GrantedType ==
  ASSUME NEW r \in Rec, NEW c \in Conn
  PROVE  [r EXCEPT !.pc = "fetch", !.is_locked = TRUE, !.conn = c, !.tries = 0, !.sids = 0] \in Rec
<1>3. PICK q1 \in Rec : q1 = [r EXCEPT !.pc = "fetch"]
  BY SetPc DEF PC
<1>4. PICK q2 \in Rec : q2 = [q1 EXCEPT !.is_locked = TRUE]
  BY SetLocked
<1>5. PICK q3 \in Rec : q3 = [q2 EXCEPT !.conn = c]
  BY SetConn
<1>6. PICK q4 \in Rec : q4 = [q3 EXCEPT !.tries = 0]
  BY SetTriesZero
<1>7. PICK q5 \in Rec : q5 = [q4 EXCEPT !.sids = 0]
  BY SetSidsZero
<1>8. [r EXCEPT !.pc = "fetch", !.is_locked = TRUE, !.conn = c, !.tries = 0, !.sids = 0] = q5
  BY <1>3, <1>4, <1>5, <1>6, <1>7
<1> QED
  BY <1>8

LEMMA FetchedType ==
  ASSUME NEW r \in Rec, NEW c \in Conn, NEW k \in Int
  PROVE  [r EXCEPT !.pc = "active", !.conn = c, !.seen = k] \in Rec
<1>3. PICK q1 \in Rec : q1 = [r EXCEPT !.pc = "active"]
  BY SetPc DEF PC
<1>4. PICK q2 \in Rec : q2 = [q1 EXCEPT !.conn = c]
  BY SetConn
<1>5. PICK q3 \in Rec : q3 = [q2 EXCEPT !.seen = k]
  BY SetSeen
<1>6. [r EXCEPT !.pc = "active", !.conn = c, !.seen = k] = q3
  BY <1>3, <1>4, <1>5
<1> QED
  BY <1>6

LEMMA DestroyedType ==
  ASSUME NEW r \in Rec, NEW c \in Conn, NEW b \in BOOLEAN
  PROVE  [r EXCEPT !.pc = "delete", !.conn = c, !.is_locked = b, !.seen = 0] \in Rec
<1>3. PICK q1 \in Rec : q1 = [r EXCEPT !.pc = "delete"]
  BY SetPc DEF PC
<1>4. PICK q2 \in Rec : q2 = [q1 EXCEPT !.conn = c]
  BY SetConn
<1>5. PICK q3 \in Rec : q3 = [q2 EXCEPT !.is_locked = b]
  BY SetLocked
<1>6. PICK q4 \in Rec : q4 = [q3 EXCEPT !.seen = 0]
  BY SetSeenZero
<1>7. [r EXCEPT !.pc = "delete", !.conn = c, !.is_locked = b, !.seen = 0] = q4
  BY <1>3, <1>4, <1>5, <1>6
<1> QED
  BY <1>7

LEMMA NewRequestType == NewRequest \in Rec
<1>1. (CHOOSE s \in Sid : TRUE) \in Sid
  BY SessionAssumption
<1> QED
  BY <1>1 DEF NewRequest, Rec, PC, Conn, Member

LEMMA InitTypeInv == Init => TypeInv
<1> SUFFICES ASSUME Init PROVE TypeInv
  OBVIOUS
<1>1. lock \in [Sid -> Worker \cup {Free}]
  BY DEF Init
<1>2. data \in [Sid -> Int]
  BY DEF Init
<1>3. req \in [Worker -> Rec]
  BY NewRequestType, Zenon DEF Init
<1>4. faults \in Nat /\ moved \subseteq Sid /\ lapsed \subseteq Sid
  BY DEF Init
<1> QED
  BY <1>1, <1>2, <1>3, <1>4 DEF TypeInv

---------------------------------------------------------------------------
(* Every action of a worker is a step of one of the kinds.                 *)

\* The fields the invariant looks at have their types.
LEMMA Fields ==
  ASSUME TypeInv, NEW v \in Worker
  PROVE  req[v].sid \in Sid /\ req[v].seen \in Int /\ v # Free
  BY SessionAssumption DEF TypeInv, Rec

LEMMA CmdEffect ==
  ASSUME TypeInv, Connected, NEW w \in Worker, NEW o, NEW c, redis_simple_cmd(w, o, c)
  PROVE  /\ c \in Conn /\ o \in Outcome /\ faults' \in Nat /\ faults <= faults'
         /\ faults' = 0 => c = "ready" /\ o = "ok"
<1>1. req[w] \in Rec /\ req[w].conn \in Conn /\ faults \in Nat
  BY DEF TypeInv, Rec
<1>2. CASE req[w].conn # "ready"
  BY <1>1, <1>2 DEF redis_simple_cmd, Connected, Outcome
<1>3. CASE req[w].conn = "ready"
  BY <1>1, <1>3 DEF redis_simple_cmd, Outcome, Conn
<1> QED
  BY <1>2, <1>3

LEMMA Quiet ==
  ASSUME TypeInv, Connected, NEW w \in Worker, faults' = faults
  PROVE  /\ req[w] \in Rec /\ faults' \in Nat /\ faults <= faults'
         /\ faults' = 0 => req[w].conn = "ready" /\ Reopened(req[w].conn) = "ready"
  BY DEF TypeInv, Connected, Reopened

\* The fields of what Ending and Locking return.
LEMMA EndingFields ==
  ASSUME NEW r \in Rec
  PROVE  /\ Ending(r).pc = "close" /\ Ending(r).sid = r.sid
         /\ Ending(r).is_locked = r.is_locked /\ Ending(r).conn = Reopened(r.conn)
         /\ Ending(r).server = r.server
  BY DEF Ending, Rec

LEMMA LockingFields ==
  ASSUME NEW r \in Rec, NEW s \in Sid, NEW n \in Int
  PROVE  /\ Locking(r, s, n).pc = "acquire" /\ Locking(r, s, n).conn = Reopened(r.conn)
         /\ Locking(r, s, n).server = KeyServer(Locking(r, s, n).sid)
  BY DEF Locking, Rec

LEMMA NewFields == NewRequest.pc = "idle" /\ NewRequest.conn = "ready"
  BY DEF NewRequest

LEMMA OpenKind ==
  ASSUME TypeInv, Connected, NEW w \in Worker, PsOpen(w)
  PROVE  \E n \in Rec : Waits(w, n)
<1>1. PICK n \in Rec : n = [NewRequest EXCEPT !.pc = "start"]
  BY NewRequestType, SetPc DEF PC
<1>2. n.pc = "start" /\ n.conn = "ready"
  BY <1>1 DEF NewRequest
<1>3. Update(w, n) /\ faults' = faults
  BY <1>1 DEF PsOpen
<1> QED
  BY <1>2, <1>3, Quiet DEF PsOpen, Waits, Becomes

LEMMA ValidateKind ==
  ASSUME TypeInv, Connected, NEW w \in Worker, PsValidateSid(w)
  PROVE  \E n \in Rec : Waits(w, n)
<1>1. PICK s \in Sid, o \in Outcome, c \in Conn :
        /\ redis_simple_cmd(w, o, c)
        /\ LET r == [req[w] EXCEPT !.conn = c]
           IN  Update(w, IF o = "ok" /\ data[s] # 0 THEN Locking(r, s, 0)
                                                    ELSE [r EXCEPT !.pc = "create"])
  BY DEF PsValidateSid
<1>2. /\ faults' \in Nat /\ faults <= faults'
      /\ faults' = 0 => c = "ready" /\ Reopened(c) = "ready"
  BY <1>1, CmdEffect DEF Reopened
<1>3. PICK r \in Rec : r = [req[w] EXCEPT !.conn = c]
  BY SetConn DEF TypeInv
<1>4. r.conn = c
  BY <1>3 DEF TypeInv, Rec
<1>5. CASE o = "ok" /\ data[s] # 0
  <2>1. PICK n \in Rec : n = Locking(r, s, 0)
    BY LockingType
  <2>2. n.pc = "acquire" /\ n.conn = Reopened(c) /\ n.server = KeyServer(n.sid)
    BY <2>1, <1>4, LockingFields
  <2> QED
    BY <1>1, <1>2, <1>3, <1>5, <2>1, <2>2 DEF PsValidateSid, Waits, Becomes
<1>6. CASE ~(o = "ok" /\ data[s] # 0)
  <2>1. PICK n \in Rec : n = [r EXCEPT !.pc = "create"]
    BY SetPc DEF PC
  <2>2. n.pc = "create" /\ n.conn = c
    BY <2>1, <1>4 DEF Rec
  <2> QED
    BY <1>1, <1>2, <1>3, <1>6, <2>1, <2>2 DEF PsValidateSid, Waits, Becomes
<1> QED
  BY <1>5, <1>6

LEMMA ReadKind ==
  ASSUME TypeInv, Connected, NEW w \in Worker, PsRead(w)
  PROVE  \E n \in Rec : Waits(w, n)
<1>1. PICK s \in Sid : Update(w, Locking(req[w], s, 0))
  BY DEF PsRead
<1>2. req[w] \in Rec
  BY DEF TypeInv
<1>3. PICK n \in Rec : n = Locking(req[w], s, 0)
  BY <1>2, LockingType
<1>4. n.pc = "acquire" /\ n.conn = Reopened(req[w].conn) /\ n.server = KeyServer(n.sid)
  BY <1>2, <1>3, LockingFields
<1>5. faults' = faults
  BY DEF PsRead
<1> QED
  BY <1>1, <1>3, <1>4, <1>5, Quiet DEF PsRead, Waits, Becomes

LEMMA SetPcConn ==
  ASSUME NEW r \in Rec, NEW p \in PC, NEW c \in Conn
  PROVE  [r EXCEPT !.pc = p, !.conn = c] \in Rec
  BY DEF Rec

LEMMA AttemptedType == ASSUME NEW r \in Rec PROVE Attempted(r) \in Rec
  BY DEF Attempted, Rec

LEMMA AttemptedFields ==
  ASSUME NEW r \in Rec
  PROVE  Attempted(r).server = r.server /\ Attempted(r).sid = r.sid
  BY DEF Attempted, Rec

LEMMA CreateKind ==
  ASSUME TypeInv, Connected, NEW w \in Worker, PsCreateSid(w)
  PROVE  \E n \in Rec : Waits(w, n)
<1>0. SidTries \in Int
  BY SessionAssumption
<1>1. /\ req[w] \in Rec /\ req[w].sids \in Int /\ SidTries \in Int
      /\ req[w].pc \in {"create", "refused"}
  BY <1>0 DEF TypeInv, Rec, PsCreateSid
<1>2. PICK s \in Sid :
        \/ Update(w, Locking(req[w], s, SidTries - 1)) /\ faults' = faults
        \/ Update(w, Locking(req[w], s, req[w].sids - 1)) /\ faults' = faults
        \/ \E c \in Conn : /\ redis_simple_cmd(w, "unsent", c)
                           /\ Update(w, Locking([req[w] EXCEPT !.conn = c], s, 0))
  BY DEF PsCreateSid
<1>3. ASSUME NEW k \in Int, Update(w, Locking(req[w], s, k)), faults' = faults
      PROVE  \E n \in Rec : Waits(w, n)
  <2>1. PICK n \in Rec : n = Locking(req[w], s, k)
    BY <1>1, LockingType
  <2>2. n.pc = "acquire" /\ n.conn = Reopened(req[w].conn) /\ n.server = KeyServer(n.sid)
    BY <1>1, <2>1, LockingFields
  <2> QED
    BY <1>1, <1>3, <2>1, <2>2, Quiet DEF PsCreateSid, Waits, Becomes
<1>4. ASSUME NEW c \in Conn, redis_simple_cmd(w, "unsent", c),
             Update(w, Locking([req[w] EXCEPT !.conn = c], s, 0))
      PROVE  \E n \in Rec : Waits(w, n)
  <2>1. faults' \in Nat /\ faults <= faults' /\ faults' # 0
    BY <1>4, CmdEffect
  <2>2. PICK r \in Rec : r = [req[w] EXCEPT !.conn = c]
    BY <1>1, SetConn
  <2>3. PICK n \in Rec : n = Locking(r, s, 0)
    BY LockingType
  <2>4. n.pc = "acquire" /\ n.server = KeyServer(n.sid)
    BY <2>3, LockingFields
  <2> QED
    BY <1>1, <1>4, <2>1, <2>2, <2>3, <2>4 DEF PsCreateSid, Waits, Becomes
<1>5. SidTries - 1 \in Int /\ req[w].sids - 1 \in Int
  BY <1>1
<1> QED
  BY <1>2, <1>3, <1>4, <1>5

LEMMA GrantedKind ==
  ASSUME TypeInv, Connected, NEW w \in Worker, LockGranted(w)
  PROVE  \E n \in Rec : Grants(w, n)
<1>1. PICK c \in Conn :
        /\ set_session_lock_key(w, "ok", c)
        /\ Update(w, [req[w] EXCEPT !.pc = "fetch", !.is_locked = TRUE, !.conn = c,
                                    !.tries = 0, !.sids = 0])
  BY DEF LockGranted
<1>2. /\ faults' \in Nat /\ faults <= faults' /\ (faults' = 0 => c = "ready")
      /\ lock' = [lock EXCEPT ![req[w].sid] = w]
  BY <1>1, CmdEffect DEF set_session_lock_key, LockGranted
<1>3. req[w] \in Rec
  BY DEF TypeInv
<1>4. PICK n \in Rec : n = [req[w] EXCEPT !.pc = "fetch", !.is_locked = TRUE, !.conn = c,
                                          !.tries = 0, !.sids = 0]
  BY <1>3, GrantedType
<1>5. /\ n.pc = "fetch" /\ n.sid = req[w].sid /\ n.is_locked = TRUE /\ n.conn = c
      /\ n.server = req[w].server
  BY <1>3, <1>4 DEF Rec
<1> QED
  BY <1>1, <1>2, <1>4, <1>5 DEF LockGranted, NX, Grants, Becomes

LEMMA RefusedKind ==
  ASSUME TypeInv, Connected, NEW w \in Worker, LockRefused(w)
  PROVE  \E n \in Rec : Waits(w, n)
<1>1. PICK o \in {"ok", "lost"}, c \in Conn, p \in {"acquire", "refused"} :
        /\ o = "ok" => ~NX(w)
        /\ set_session_lock_key(w, o, c)
        /\ Update(w, [Attempted(req[w]) EXCEPT !.conn = c, !.pc = p])
  <2>1. PICK o \in {"ok", "lost"}, c \in Conn :
          /\ o = "ok" => ~NX(w)
          /\ set_session_lock_key(w, o, c)
          /\ Update(w, [Attempted(req[w]) EXCEPT !.conn = c,
                 !.pc = IF Retries # -1 /\ req[w].tries >= Retries THEN "refused" ELSE @])
    BY DEF LockRefused
  <2>2. Attempted(req[w]).pc = "acquire"
    BY DEF Attempted, LockRefused, TypeInv, Rec
  <2>3. CASE Retries # -1 /\ req[w].tries >= Retries
    BY <2>1, <2>3
  <2>4. CASE ~(Retries # -1 /\ req[w].tries >= Retries)
    <3>1. [Attempted(req[w]) EXCEPT !.conn = c, !.pc = @]
            = [Attempted(req[w]) EXCEPT !.conn = c, !.pc = "acquire"]
      BY <2>2
    <3> QED
      BY <2>1, <2>4, <3>1
  <2> QED
    BY <2>3, <2>4
<1>2. /\ faults' \in Nat /\ faults <= faults'
      /\ faults' = 0 => c = "ready" /\ o = "ok"
  BY <1>1, CmdEffect DEF set_session_lock_key
<1>3. PICK r \in Rec : r = Attempted(req[w]) /\ r.server = req[w].server /\ r.sid = req[w].sid
  BY AttemptedType, AttemptedFields DEF TypeInv
<1>4. PICK q \in Rec : q = [r EXCEPT !.conn = c]
  BY SetConn
<1>5. PICK n \in Rec : n = [q EXCEPT !.pc = p]
  BY SetPc DEF PC
<1>6. n.pc = p /\ n.conn = c /\ n.server = req[w].server /\ n.sid = req[w].sid
  BY <1>3, <1>4, <1>5 DEF Rec
<1>7. Update(w, n)
  BY <1>1, <1>3, <1>4, <1>5
<1>8. \/ lock' = lock
      \/ lock[req[w].sid] = Free /\ lock' = [lock EXCEPT ![req[w].sid] = w] /\ faults' > 0
  BY <1>1, <1>2 DEF set_session_lock_key, NX
<1> QED
  BY <1>2, <1>6, <1>7, <1>8 DEF LockRefused, Waits, Becomes

LEMMA UnsentKind ==
  ASSUME TypeInv, Connected, NEW w \in Worker, LockUnsent(w)
  PROVE  \E n \in Rec : Waits(w, n)
<1>1. PICK c \in Conn : /\ set_session_lock_key(w, "unsent", c)
                        /\ Update(w, [req[w] EXCEPT !.pc = "refused", !.conn = c])
  BY DEF LockUnsent
<1>2. faults' \in Nat /\ faults <= faults' /\ faults' # 0 /\ lock' = lock
  BY <1>1, CmdEffect DEF set_session_lock_key
<1>3. PICK n \in Rec : n = [req[w] EXCEPT !.pc = "refused", !.conn = c]
  BY SetPcConn DEF TypeInv, PC
<1>4. n.pc = "refused"
  BY <1>3 DEF TypeInv, Rec
<1> QED
  BY <1>1, <1>2, <1>3, <1>4 DEF LockUnsent, Waits, Becomes

LEMMA FailsKind ==
  ASSUME TypeInv, Connected, NEW w \in Worker, StartFails(w)
  PROVE  \E n \in Rec : Waits(w, n)
<1>1. Update(w, Ending(req[w])) /\ faults' = faults /\ req[w].pc \in {"refused", "create"}
  BY DEF StartFails
<1>2. req[w] \in Rec
  BY DEF TypeInv
<1>3. PICK n \in Rec : n = Ending(req[w])
  BY <1>2, EndingType
<1>4. n.pc = "close" /\ n.conn = Reopened(req[w].conn)
  BY <1>2, <1>3, EndingFields
<1> QED
  BY <1>1, <1>3, <1>4, Quiet DEF StartFails, Waits, Becomes

\* A request that ends after a command, with whatever is left of its lock.
LEMMA EndingKind ==
  ASSUME TypeInv, Connected, NEW w \in Worker, NEW o, NEW c, NEW r \in Rec,
         redis_simple_cmd(w, o, c), r.conn = c, Update(w, Ending(r))
  PROVE  \E n \in Rec : /\ Update(w, n) /\ n.pc = "close" /\ n.sid = r.sid
                        /\ n.is_locked = r.is_locked /\ n.server = r.server
                        /\ faults' \in Nat /\ faults <= faults'
                        /\ faults' = 0 => n.conn = "ready"
<1>1. PICK n \in Rec : n = Ending(r)
  BY EndingType
<1>2. /\ n.pc = "close" /\ n.sid = r.sid /\ n.is_locked = r.is_locked /\ n.conn = Reopened(c)
      /\ n.server = r.server
  BY <1>1, EndingFields
<1>3. /\ faults' \in Nat /\ faults <= faults'
      /\ faults' = 0 => Reopened(c) = "ready"
  BY CmdEffect DEF Reopened
<1> QED
  BY <1>1, <1>2, <1>3

LEMMA WithConn ==
  ASSUME NEW r \in Rec, NEW c \in Conn
  PROVE  \E q \in Rec : /\ q = [r EXCEPT !.conn = c]
                        /\ q.conn = c /\ q.sid = r.sid /\ q.is_locked = r.is_locked
                        /\ q.server = r.server
<1>1. PICK q \in Rec : q = [r EXCEPT !.conn = c]
  BY SetConn
<1> QED
  BY <1>1 DEF Rec

LEMMA FetchKind ==
  ASSUME TypeInv, Connected, NEW w \in Worker, Fetch(w)
  PROVE  \E n \in Rec : Fetches(w, n) \/ Leaves(w, n)
<1>1. PICK o \in Outcome, c \in Conn :
        /\ redis_simple_cmd(w, o, c)
        /\ Update(w, IF o = "ok"
                     THEN [req[w] EXCEPT !.pc = "active", !.conn = c,
                                         !.seen = data[req[w].sid]]
                     ELSE Ending([req[w] EXCEPT !.conn = c]))
  BY DEF Fetch
<1>2. req[w] \in Rec /\ data[req[w].sid] \in Int /\ req[w].pc = "fetch"
  BY DEF TypeInv, Rec, Fetch
<1>3. CASE o = "ok"
  <2>1. PICK n \in Rec : n = [req[w] EXCEPT !.pc = "active", !.conn = c,
                                            !.seen = data[req[w].sid]]
    BY <1>2, FetchedType
  <2>2. /\ n.pc = "active" /\ n.sid = req[w].sid /\ n.is_locked = req[w].is_locked
        /\ n.server = req[w].server /\ n.seen = data[req[w].sid] /\ n.conn = c
    BY <1>2, <2>1 DEF Rec
  <2>3. Update(w, n)
    BY <1>1, <1>3, <2>1
  <2>4. faults' \in Nat /\ faults <= faults' /\ (faults' = 0 => n.conn = "ready")
    BY <1>1, <2>2, CmdEffect
  <2>5. UNCHANGED <<lock, data, expiry, moved, lapsed>>
    BY DEF Fetch
  <2> QED
    BY <1>2, <2>2, <2>3, <2>4, <2>5 DEF Fetches, Becomes
<1>4. CASE o # "ok"
  <2>1. PICK q \in Rec : /\ q = [req[w] EXCEPT !.conn = c]
                         /\ q.conn = c /\ q.sid = req[w].sid /\ q.is_locked = req[w].is_locked
                         /\ q.server = req[w].server
    BY <1>2, WithConn
  <2>2. PICK n \in Rec : /\ Update(w, n) /\ n.pc = "close" /\ n.sid = q.sid
                         /\ n.is_locked = q.is_locked /\ n.server = q.server
                         /\ faults' \in Nat /\ faults <= faults'
                         /\ faults' = 0 => n.conn = "ready"
    BY <1>1, <1>4, <2>1, EndingKind
  <2> QED
    BY <1>2, <2>1, <2>2 DEF Fetch, Leaves, Becomes
<1> QED
  BY <1>3, <1>4

LEMMA TimestampKind ==
  ASSUME TypeInv, Connected, NEW w \in Worker, PsUpdateTimestamp(w)
  PROVE  \E n \in Rec : Leaves(w, n)
<1>1. PICK o \in Outcome, c \in Conn : /\ redis_simple_cmd(w, o, c)
                                       /\ Update(w, Ending([req[w] EXCEPT !.conn = c]))
  BY DEF PsUpdateTimestamp
<1>2. PICK q \in Rec : /\ q = [req[w] EXCEPT !.conn = c]
                       /\ q.conn = c /\ q.sid = req[w].sid /\ q.is_locked = req[w].is_locked
                       /\ q.server = req[w].server
  BY WithConn DEF TypeInv
<1>3. PICK n \in Rec : /\ Update(w, n) /\ n.pc = "close" /\ n.sid = q.sid
                       /\ n.is_locked = q.is_locked /\ n.server = q.server
                       /\ faults' \in Nat /\ faults <= faults'
                       /\ faults' = 0 => n.conn = "ready"
  BY <1>1, <1>2, EndingKind
<1> QED
  BY <1>2, <1>3 DEF PsUpdateTimestamp, Leaves, Becomes

LEMMA DestroyDataKind ==
  ASSUME TypeInv, Connected, NEW w \in Worker, DestroyData(w)
  PROVE  \E n \in Rec : Leaves(w, n)
<1>1. PICK o \in Outcome, c \in Conn :
        /\ redis_simple_cmd(w, o, c)
        /\ data' = IF o = "unsent" THEN data ELSE [data EXCEPT ![req[w].sid] = 0]
        /\ Update(w, Ending([req[w] EXCEPT !.conn = c]))
  BY DEF DestroyData
<1>2. PICK q \in Rec : /\ q = [req[w] EXCEPT !.conn = c]
                       /\ q.conn = c /\ q.sid = req[w].sid /\ q.is_locked = req[w].is_locked
                       /\ q.server = req[w].server
  BY WithConn DEF TypeInv
<1>3. PICK n \in Rec : /\ Update(w, n) /\ n.pc = "close" /\ n.sid = q.sid
                       /\ n.is_locked = q.is_locked /\ n.server = q.server
                       /\ faults' \in Nat /\ faults <= faults'
                       /\ faults' = 0 => n.conn = "ready"
  BY <1>1, <1>2, EndingKind
<1>4. data' = data \/ data' = [data EXCEPT ![n.sid] = 0]
  BY <1>1, <1>2, <1>3
<1> QED
  BY <1>2, <1>3, <1>4 DEF DestroyData, Leaves, Becomes

LEMMA WriteKind ==
  ASSUME TypeInv, Connected, NEW w \in Worker, PsWrite(w)
  PROVE  \E n \in Rec : Leaves(w, n)
<1>1. PICK o \in Outcome, c \in Conn :
        /\ redis_simple_cmd(w, o, c)
        /\ data' = IF o = "unsent" THEN data
                   ELSE [data EXCEPT ![req[w].sid] = req[w].seen + 1]
        /\ Update(w, Ending([req[w] EXCEPT !.conn = c]))
  BY DEF PsWrite
<1>2. PICK q \in Rec : /\ q = [req[w] EXCEPT !.conn = c]
                       /\ q.conn = c /\ q.sid = req[w].sid /\ q.is_locked = req[w].is_locked
                       /\ q.server = req[w].server
  BY WithConn DEF TypeInv
<1>3. PICK n \in Rec : /\ Update(w, n) /\ n.pc = "close" /\ n.sid = q.sid
                       /\ n.is_locked = q.is_locked /\ n.server = q.server
                       /\ faults' \in Nat /\ faults <= faults'
                       /\ faults' = 0 => n.conn = "ready"
  BY <1>1, <1>2, EndingKind
<1>4. data' = data \/ data' = [data EXCEPT ![n.sid] = req[w].seen + 1]
  BY <1>1, <1>2, <1>3
<1> QED
  BY <1>2, <1>3, <1>4 DEF PsWrite, Leaves, Becomes

LEMMA AllowedKind ==
  ASSUME TypeInv, Connected, NEW w \in Worker, write_allowed(w)
  PROVE  \E n \in Rec : Continues(w, n) \/ Leaves(w, n)
<1>1. /\ req[w] \in Rec /\ req[w].pc = "active"
      /\ data' = data /\ moved' = moved /\ moved \subseteq Sid /\ lock' = lock
      /\ expiry' = expiry /\ lapsed' = lapsed
  BY DEF TypeInv, write_allowed
<1>2. CASE expiry # "lock_expire"
  <2>1. /\ faults' = faults
        /\ Update(w, IF req[w].is_locked THEN [req[w] EXCEPT !.pc = "allowed"]
                                         ELSE Ending(req[w]))
    BY <1>2 DEF write_allowed
  <2>2. CASE req[w].is_locked
    <3>1. PICK n \in Rec : n = [req[w] EXCEPT !.pc = "allowed"]
      BY <1>1, SetPc DEF PC
    <3>2. /\ n.pc = "allowed" /\ n.sid = req[w].sid /\ n.is_locked = req[w].is_locked
          /\ n.seen = req[w].seen /\ n.conn = req[w].conn /\ n.server = req[w].server
      BY <1>1, <3>1 DEF Rec
    <3> QED
      BY <1>1, <1>2, <2>1, <2>2, <3>1, <3>2, Quiet DEF Continues, Becomes
  <2>3. CASE ~req[w].is_locked
    <3>1. PICK n \in Rec : n = Ending(req[w])
      BY <1>1, EndingType
    <3>2. /\ n.pc = "close" /\ n.sid = req[w].sid /\ n.is_locked = req[w].is_locked
          /\ n.conn = Reopened(req[w].conn) /\ n.server = req[w].server
      BY <1>1, <3>1, EndingFields
    <3> QED
      BY <1>1, <2>1, <2>3, <3>1, <3>2, Quiet DEF Leaves, Becomes
  <2> QED
    BY <2>2, <2>3
<1>3. CASE expiry = "lock_expire"
  <2>1. PICK o \in Outcome, c \in Conn :
          /\ redis_simple_cmd(w, o, c)
          /\ LET held == o = "ok" /\ Secret(w)
                 r == [req[w] EXCEPT !.is_locked = held, !.conn = c]
             IN  Update(w, IF held THEN [r EXCEPT !.pc = "allowed"] ELSE Ending(r))
    BY <1>3 DEF write_allowed
  <2> DEFINE held == o = "ok" /\ Secret(w)
  <2>2. /\ faults' \in Nat /\ faults <= faults'
        /\ faults' = 0 => c = "ready" /\ o = "ok"
    BY <2>1, CmdEffect
  <2>3. PICK q \in Rec : q = [req[w] EXCEPT !.is_locked = held]
    BY <1>1, SetLocked
  <2>4. PICK r \in Rec : r = [q EXCEPT !.conn = c]
    BY SetConn
  <2>5. /\ r = [req[w] EXCEPT !.is_locked = held, !.conn = c]
        /\ r.conn = c /\ r.sid = req[w].sid /\ r.seen = req[w].seen /\ r.is_locked = held
        /\ r.server = req[w].server
    BY <1>1, <2>3, <2>4 DEF Rec
  <2>6. CASE held
    <3>1. PICK n \in Rec : n = [r EXCEPT !.pc = "allowed"]
      BY SetPc DEF PC
    <3>2. /\ n.pc = "allowed" /\ n.sid = req[w].sid /\ n.is_locked
          /\ n.seen = req[w].seen /\ n.conn = c /\ n.server = req[w].server
      BY <2>5, <2>6, <3>1 DEF Rec
    <3>3. Update(w, n) /\ lock[n.sid] = w
      BY <2>1, <2>5, <2>6, <3>1, <3>2 DEF Secret
    <3>4. faults' = 0 => n.conn = "ready"
      BY <2>2, <3>2
    <3>5. req[w].is_locked => n.is_locked
      BY <3>2
    <3>6. Becomes(w, n)
      BY <1>1, <2>2, <3>3, <3>4 DEF Becomes
    <3>7. Continues(w, n)
      BY <1>1, <3>2, <3>3, <3>5, <3>6 DEF Continues
    <3> QED
      BY <3>7
  <2>7. CASE ~held
    <3>1. Update(w, Ending(r))
      BY <2>1, <2>5, <2>7
    <3>2. PICK n \in Rec : /\ Update(w, n) /\ n.pc = "close" /\ n.sid = r.sid
                           /\ n.is_locked = r.is_locked /\ n.server = r.server
                           /\ faults' \in Nat /\ faults <= faults'
                           /\ faults' = 0 => n.conn = "ready"
      <4>1. redis_simple_cmd(w, o, c) /\ r.conn = c
        BY <2>1, <2>5
      <4> QED
        BY <3>1, <4>1, EndingKind
    <3>3. faults' > 0 \/ lock[n.sid] # w
      BY <2>2, <2>5, <2>7, <3>2 DEF Secret
    <3> QED
      BY <1>1, <2>5, <3>2, <3>3 DEF Leaves, Becomes
  <2> QED
    BY <2>6, <2>7
<1> QED
  BY <1>2, <1>3

LEMMA ReleaseEffect ==
  ASSUME TypeInv, Connected, NEW w \in Worker, NEW server, NEW o, NEW c,
         lock_release(w, server, o, c)
  PROVE  /\ \/ lock' = lock
            \/ lock[req[w].sid] = w /\ lock' = [lock EXCEPT ![req[w].sid] = Free]
         /\ lock'[req[w].sid] # w \/ faults' > 0 \/ server # Server(req[w].sid)
<1>1. /\ faults' \in Nat /\ (faults' = 0 => o = "ok")
      /\ req[w].sid \in Sid /\ Free # w
  BY CmdEffect, SessionAssumption DEF lock_release, TypeInv, Rec
<1>2. \/ lock' = lock
      \/ lock[req[w].sid] = w /\ lock' = [lock EXCEPT ![req[w].sid] = Free]
  BY DEF lock_release, Secret
<1>3. ASSUME faults' = 0, server = Server(req[w].sid)
      PROVE  lock'[req[w].sid] # w
  <2>1. lock' = IF Secret(w) THEN [lock EXCEPT ![req[w].sid] = Free] ELSE lock
    BY <1>1, <1>3 DEF lock_release
  <2> QED
    BY <1>1, <2>1 DEF Secret, TypeInv
<1>4. faults' # 0 => faults' > 0
  BY <1>1
<1> QED
  BY <1>2, <1>3, <1>4

LEMMA DestroyKind ==
  ASSUME TypeInv, Connected, NEW w \in Worker, PsDestroy(w)
  PROVE  \E n \in Rec : Releases(w, n)
<1>1. PICK o \in Outcome, c \in Conn :
        /\ lock_release(w, Server(req[w].sid), o, c)
        /\ Update(w, [req[w] EXCEPT !.pc = "delete", !.conn = c,
                                    !.is_locked = o # "ok", !.seen = 0])
  BY DEF PsDestroy
<1>2. /\ faults' \in Nat /\ faults <= faults' /\ (faults' = 0 => c = "ready")
  BY <1>1, CmdEffect DEF lock_release
<1>3. PICK b \in BOOLEAN : b = (o # "ok")
  OBVIOUS
<1>4. PICK n \in Rec : n = [req[w] EXCEPT !.pc = "delete", !.conn = c,
                                          !.is_locked = b, !.seen = 0]
  BY DestroyedType DEF TypeInv
<1>5. n.pc = "delete" /\ n.conn = c
  BY <1>4 DEF TypeInv, Rec
<1>6. Update(w, n)
  BY <1>1, <1>3, <1>4
<1> QED
  BY <1>1, <1>2, <1>5, <1>6, ReleaseEffect DEF PsDestroy, Releases, Becomes

LEMMA CloseKind ==
  ASSUME TypeInv, Connected, NEW w \in Worker, PsClose(w)
  PROVE  \E n \in Rec : Releases(w, n)
<1>1. PICK n \in Rec : n = NewRequest
  BY NewRequestType
<1>2. n.pc = "idle" /\ n.conn = "ready" /\ Update(w, n)
  BY <1>1, NewFields DEF PsClose
<1>3. CASE ~req[w].is_locked /\ UNCHANGED <<lock, faults>>
  BY <1>2, <1>3, Quiet DEF PsClose, Releases, Becomes, TypeInv
<1>4. CASE \E o \in Outcome, c \in Conn : lock_release(w, req[w].server, o, c)
  <2>1. PICK o \in Outcome, c \in Conn : lock_release(w, req[w].server, o, c)
    BY <1>4
  <2>2. faults' \in Nat /\ faults <= faults'
    BY <2>1, CmdEffect DEF lock_release
  <2> QED
    BY <1>2, <2>1, <2>2, ReleaseEffect DEF PsClose, Releases, Becomes
<1> QED
  BY <1>3, <1>4 DEF PsClose

LEMMA SessionKeyKind ==
  ASSUME TypeInv, Connected, NEW w \in Worker, NewSessionKey(w)
  PROVE  \E n \in Rec : Continues(w, n)
<1>1. PICK h \in NewKeyHash :
        /\ Update(w, [req[w] EXCEPT !.server = redis_pool_get_sock(h)])
        /\ moved' = IF redis_pool_get_sock(h) = req[w].server THEN moved
                    ELSE moved \cup {req[w].sid}
  BY DEF NewSessionKey
<1>2. redis_pool_get_sock(h) \in Member
  BY DEF Member
<1>3. req[w] \in Rec /\ req[w].sid \in Sid /\ moved \subseteq Sid
  BY Fields DEF TypeInv
<1>4. PICK n \in Rec : n = [req[w] EXCEPT !.server = redis_pool_get_sock(h)]
  BY <1>2, <1>3, SetServer
<1>5. /\ n.pc = req[w].pc /\ n.sid = req[w].sid /\ n.is_locked = req[w].is_locked
      /\ n.seen = req[w].seen /\ n.conn = req[w].conn /\ n.server = redis_pool_get_sock(h)
  BY <1>3, <1>4 DEF Rec
<1>6. /\ moved \subseteq moved' /\ moved' \subseteq Sid
      /\ n.server = req[w].server \/ n.sid \in moved'
  BY <1>1, <1>3, <1>5
<1>7. req[w].pc = "active" /\ faults' = faults
  BY DEF NewSessionKey
<1> QED
  BY <1>1, <1>4, <1>5, <1>6, <1>7, Quiet DEF NewSessionKey, Continues, Becomes

LEMMA CrashKind ==
  ASSUME TypeInv, Connected, NEW w \in Worker, Crash(w)
  PROVE  \E n \in Rec : Dies(w, n)
<1>1. PICK n \in Rec : n = NewRequest
  BY NewRequestType
<1>2. n.pc = "idle" /\ n.conn = "ready" /\ Update(w, n)
  BY <1>1, NewFields DEF Crash
<1>3. faults' \in Nat /\ faults <= faults' /\ faults' > 0
  BY DEF Crash, TypeInv
<1> QED
  BY <1>2, <1>3 DEF Crash, Dies, Becomes

LEMMA WorkerKind ==
  ASSUME TypeInv, Connected, NEW w \in Worker,
         PsOpen(w) \/ Start(w) \/ NewSessionKey(w) \/ Finish(w) \/ Crash(w)
  PROVE  \E n \in Rec : Steps(w, n)
  BY OpenKind, ValidateKind, ReadKind, CreateKind, GrantedKind, RefusedKind, UnsentKind,
     FailsKind, FetchKind, TimestampKind, DestroyDataKind, WriteKind, AllowedKind,
     DestroyKind, CloseKind, SessionKeyKind, CrashKind
     DEF Start, Finish, Steps

---------------------------------------------------------------------------
(* The invariant is kept by each kind of step.                             *)

LEMMA BecomesEffect ==
  ASSUME TypeInv, NEW w \in Worker, NEW n \in Rec, Becomes(w, n)
  PROVE  /\ req' \in [Worker -> Rec] /\ req'[w] = n
         /\ \A v \in Worker : v # w => req'[v] = req[v]
  BY DEF Becomes, Update, TypeInv

LEMMA StepsEffect ==
  ASSUME TypeInv, NEW w \in Worker, NEW n \in Rec, Steps(w, n)
  PROVE  TypeInv' /\ Becomes(w, n)
<1>1. Becomes(w, n) /\ moved' \subseteq Sid
  BY DEF Steps, Waits, Grants, Fetches, Continues, Leaves, Releases, Dies, TypeInv
<1>2. req' \in [Worker -> Rec] /\ faults' \in Nat /\ lapsed' \subseteq Sid
  BY <1>1, BecomesEffect DEF Becomes, TypeInv
<1>3. lock' \in [Sid -> Worker \cup {Free}]
  BY DEF Steps, Waits, Grants, Fetches, Continues, Leaves, Releases, Dies, TypeInv
<1>4. data' \in [Sid -> Int]
  <2>1. req[w].seen + 1 \in Int /\ 0 \in Int
    BY DEF TypeInv, Rec
  <2>2. \/ data' = data \/ data' = [data EXCEPT ![n.sid] = 0]
        \/ data' = [data EXCEPT ![n.sid] = req[w].seen + 1]
    BY DEF Steps, Waits, Grants, Fetches, Continues, Leaves, Releases, Dies
  <2> QED
    BY <2>1, <2>2 DEF TypeInv
<1> QED
  BY <1>1, <1>2, <1>3, <1>4 DEF TypeInv

LEMMA HoldingStep ==
  ASSUME IInv, NEW w \in Worker, NEW n \in Rec, Steps(w, n)
  PROVE  Holding'
<1>1. TypeInv /\ Becomes(w, n) /\ expiry' = expiry
  BY StepsEffect DEF IInv, Becomes
<1>2. req'[w] = n /\ \A v \in Worker : v # w => req'[v] = req[v]
  BY <1>1, BecomesEffect
<1>3. SUFFICES ASSUME ~HasTTL, NEW v \in Worker, InSession(v)'
               PROVE  lock'[req'[v].sid] = v
  BY <1>1 DEF Holding, HasTTL
<1>4. \A u \in Worker : InSession(u) => lock[req[u].sid] = u
  BY <1>3 DEF IInv, Holding
<1>5. \A u \in Worker : req[u].sid \in Sid /\ u # Free
  BY <1>1, Fields
<1>6. lock \in [Sid -> Worker \cup {Free}]
  BY <1>1 DEF TypeInv
<1>7. CASE v # w
  <2>1. InSession(v) /\ lock[req[v].sid] = v /\ req'[v] = req[v]
    BY <1>2, <1>3, <1>4, <1>7 DEF InSession
  <2>2. \/ lock' = lock
        \/ /\ lock[req[w].sid] \in {w, Free}
           /\ \E x \in {w, Free} : lock' = [lock EXCEPT ![req[w].sid] = x]
    BY DEF Steps, Waits, Grants, Fetches, Continues, Leaves, Releases, Dies
  <2> QED
    BY <1>5, <1>6, <1>7, <2>1, <2>2
<1>8. CASE v = w
  <2>1. n.pc \in {"fetch", "active", "allowed"}
    BY <1>2, <1>3, <1>8 DEF InSession
  <2>2. CASE Grants(w, n)
    BY <1>2, <1>5, <1>6, <1>8, <2>2 DEF Grants
  <2>3. CASE Fetches(w, n) \/ Continues(w, n)
    BY <1>2, <1>4, <1>8, <2>3 DEF Fetches, Continues, InSession
  <2> QED
    BY <2>1, <2>2, <2>3 DEF Steps, Waits, Leaves, Releases, Dies
<1> QED
  BY <1>7, <1>8

LEMMA UnseenStep ==
  ASSUME IInv, NEW w \in Worker, NEW n \in Rec, Steps(w, n)
  PROVE  NoUnseenOverwrite'
<1>1. TypeInv /\ Becomes(w, n) /\ expiry' = expiry
  BY StepsEffect DEF IInv, Becomes
<1>2. req'[w] = n /\ \A v \in Worker : v # w => req'[v] = req[v]
  BY <1>1, BecomesEffect
<1>3. SUFFICES ASSUME ~HasTTL, NEW v \in Worker, req'[v].pc \in {"active", "allowed"}
               PROVE  data'[req'[v].sid] \in {req'[v].seen, 0}
  BY <1>1 DEF NoUnseenOverwrite, HasTTL
<1>4. \A u \in Worker : InSession(u) => lock[req[u].sid] = u
  BY <1>3 DEF IInv, Holding
<1>5. \A u \in Worker : req[u].pc \in {"active", "allowed"} =>
        data[req[u].sid] \in {req[u].seen, 0}
  BY <1>3 DEF IInv, NoUnseenOverwrite
<1>6. \A u \in Worker : req[u].sid \in Sid
  BY <1>1, Fields
<1>7. data \in [Sid -> Int]
  BY <1>1 DEF TypeInv
<1>8. CASE v # w
  <2>1. req'[v] = req[v] /\ data[req[v].sid] \in {req[v].seen, 0} /\ lock[req[v].sid] = v
    BY <1>2, <1>3, <1>4, <1>5, <1>8 DEF InSession
  <2>2. CASE data' = data
    BY <2>1, <2>2
  <2>3. CASE data' = [data EXCEPT ![req[w].sid] = 0]
    BY <1>6, <1>7, <2>1, <2>3
  <2>4. CASE req[w].pc = "allowed" /\ data' = [data EXCEPT ![req[w].sid] = req[w].seen + 1]
    <3>1. req[w].sid # req[v].sid
      BY <1>4, <1>8, <2>1, <2>4 DEF InSession
    <3> QED
      BY <1>6, <1>7, <2>1, <2>4, <3>1
  <2> QED
    BY <2>2, <2>3, <2>4 DEF Steps, Waits, Grants, Fetches, Continues, Leaves, Releases, Dies
<1>9. CASE v = w
  <2>1. CASE Fetches(w, n)
    BY <1>2, <1>9, <2>1 DEF Fetches
  <2>2. CASE Continues(w, n)
    BY <1>2, <1>5, <1>9, <2>2 DEF Continues
  <2> QED
    BY <1>2, <1>3, <1>9, <2>1, <2>2 DEF Steps, Waits, Grants, Leaves, Releases, Dies
<1> QED
  BY <1>8, <1>9

LEMMA ConnectedStep ==
  ASSUME IInv, NEW w \in Worker, NEW n \in Rec, Steps(w, n)
  PROVE  Connected'
<1>1. TypeInv /\ Becomes(w, n)
  BY StepsEffect DEF IInv
<1>2. req'[w] = n /\ \A v \in Worker : v # w => req'[v] = req[v]
  BY <1>1, BecomesEffect
<1>3. faults' = 0 => faults = 0 /\ n.conn = "ready"
  BY <1>1 DEF Becomes, TypeInv
<1> QED
  BY <1>2, <1>3 DEF Connected, IInv

LEMMA ReturningStep ==
  ASSUME IInv, NEW w \in Worker, NEW n \in Rec, Steps(w, n)
  PROVE  Returning'
<1>1. TypeInv /\ TypeInv' /\ Becomes(w, n)
  BY StepsEffect DEF IInv
<1>2. req'[w] = n /\ \A v \in Worker : v # w => req'[v] = req[v]
  BY <1>1, BecomesEffect
<1>3. SUFFICES ASSUME faults' = 0, NEW s \in Sid, lock'[s] # Free, s \notin moved',
                      KeyServer(s) = Server(s)
               PROVE  WillReturn(req'[lock'[s]], s)
  BY DEF Returning, WillReturn, KeyServer, Server, redis_pool_get_sock
<1>4. faults = 0 /\ s \notin moved
  <2>1. faults = 0
    BY <1>1, <1>3 DEF Becomes, TypeInv
  <2>2. moved \subseteq moved'
    BY DEF Steps, Waits, Grants, Fetches, Continues, Leaves, Releases, Dies
  <2> QED
    BY <1>3, <2>1, <2>2
<1>5. lock[s] # Free => WillReturn(req[lock[s]], s)
  BY <1>3, <1>4 DEF IInv, Returning
<1>6. /\ \A u \in Worker : req[u].sid \in Sid /\ u # Free
      /\ lock \in [Sid -> Worker \cup {Free}] /\ lock' \in [Sid -> Worker \cup {Free}]
  BY <1>1, Fields DEF TypeInv
<1>7. ~(faults' > 0)
  BY <1>3
<1>8. ASSUME lock'[s] = lock[s], lock[s] # w
      PROVE  WillReturn(req'[lock'[s]], s)
  BY <1>2, <1>3, <1>5, <1>6, <1>8
<1>9. CASE Waits(w, n)
  <2>1. lock' = lock
    BY <1>7, <1>9 DEF Waits
  <2>2. lock[s] # w
    BY <1>3, <1>5, <1>6, <1>9, <2>1 DEF Waits, WillReturn
  <2> QED
    BY <1>8, <2>1, <2>2
<1>10. CASE Grants(w, n)
  <2>1. lock[s] # w
    BY <1>5, <1>6, <1>10 DEF Grants, WillReturn
  <2>2. CASE s = req[w].sid
    <3>1. lock'[s] = w
      BY <1>6, <1>10, <2>2 DEF Grants
    <3>2. n.server = KeyServer(s)
      BY <1>10, <2>2 DEF Grants, IInv, Keyed
    <3> QED
      BY <1>2, <1>10, <2>2, <3>1, <3>2 DEF Grants, WillReturn
  <2>3. CASE s # req[w].sid
    BY <1>6, <1>8, <1>10, <2>1, <2>3 DEF Grants
  <2> QED
    BY <2>2, <2>3
<1>11. CASE Fetches(w, n) \/ Continues(w, n)
  <2>1. lock'[s] = lock[s]
    BY <1>11 DEF Fetches, Continues
  <2>2. CASE lock[s] = w
    <3>1. WillReturn(req[w], s)
      BY <1>3, <1>5, <2>1, <2>2
    <3>2. n.sid = s /\ n.server = req[w].server
      BY <1>3, <1>11, <3>1 DEF Fetches, Continues, WillReturn
    <3>3. WillReturn(n, s)
      BY <1>11, <3>1, <3>2 DEF Fetches, Continues, WillReturn
    <3> QED
      BY <1>2, <2>1, <2>2, <3>3
  <2>3. CASE lock[s] # w
    BY <1>8, <2>1, <2>3
  <2> QED
    BY <2>2, <2>3
<1>12. CASE Leaves(w, n)
  <2>1. lock'[s] = lock[s] /\ n.sid = req[w].sid /\ n.server = req[w].server
    BY <1>12 DEF Leaves
  <2>2. CASE lock[s] = w
    <3>1. WillReturn(req[w], s)
      BY <1>3, <1>5, <2>1, <2>2
    <3>2. n.is_locked
      BY <1>7, <1>12, <2>1, <2>2, <3>1 DEF Leaves, WillReturn
    <3>3. WillReturn(n, s)
      BY <1>12, <2>1, <3>1, <3>2 DEF Leaves, WillReturn
    <3> QED
      BY <1>2, <2>1, <2>2, <3>3
  <2>3. CASE lock[s] # w
    BY <1>8, <2>1, <2>3
  <2> QED
    BY <2>2, <2>3
<1>13. CASE Releases(w, n)
  <2>1. lock'[s] = lock[s]
    BY <1>3, <1>6, <1>13 DEF Releases
  <2>2. lock[s] # w
    <3>1. SUFFICES ASSUME lock[s] = w PROVE FALSE
      OBVIOUS
    <3>2. WillReturn(req[w], s)
      BY <1>3, <1>5, <2>1, <3>1
    <3>3. req[w].sid = s /\ req[w].is_locked /\ req[w].server = Server(req[w].sid)
      BY <1>3, <3>2 DEF WillReturn
    <3>4. lock'[req[w].sid] # w
      BY <1>7, <1>13, <3>3 DEF Releases
    <3> QED
      BY <2>1, <3>1, <3>3, <3>4
  <2> QED
    BY <1>8, <2>1, <2>2
<1>14. ~Dies(w, n)
  BY <1>7 DEF Dies
<1> QED
  BY <1>9, <1>10, <1>11, <1>12, <1>13, <1>14 DEF Steps

LEMMA KeyedStep ==
  ASSUME IInv, NEW w \in Worker, NEW n \in Rec, Steps(w, n)
  PROVE  Keyed'
<1>1. TypeInv /\ Becomes(w, n)
  BY StepsEffect DEF IInv
<1>2. req'[w] = n /\ \A v \in Worker : v # w => req'[v] = req[v]
  BY <1>1, BecomesEffect
<1>3. SUFFICES ASSUME NEW v \in Worker, req'[v].pc = "acquire"
               PROVE  req'[v].server = KeyServer(req'[v].sid)
  BY DEF Keyed, KeyServer, Server, redis_pool_get_sock
<1>4. CASE v # w
  BY <1>2, <1>3, <1>4 DEF IInv, Keyed
<1>5. CASE v = w
  <2>1. Waits(w, n)
    BY <1>2, <1>3, <1>5 DEF Steps, Grants, Fetches, Continues, Leaves, Releases, Dies
  <2> QED
    BY <1>2, <1>3, <1>5, <2>1 DEF Waits, IInv, Keyed
<1> QED
  BY <1>4, <1>5

LEMMA CheckedStep ==
  ASSUME IInv, NEW w \in Worker, NEW n \in Rec, Steps(w, n)
  PROVE  Checked'
<1>1. TypeInv /\ Becomes(w, n) /\ expiry' = expiry /\ lapsed' = lapsed
  BY StepsEffect DEF IInv, Becomes
<1>2. req'[w] = n /\ \A v \in Worker : v # w => req'[v] = req[v]
  BY <1>1, BecomesEffect
<1>3. SUFFICES ASSUME expiry = "lock_expire", NEW v \in Worker
               PROVE  /\ req'[v].pc \in {"active", "allowed"} /\ lock'[req'[v].sid] = v
                           => \/ data'[req'[v].sid] \in {req'[v].seen, 0}
                              \/ req'[v].sid \in lapsed
                      /\ req'[v].pc = "allowed" =>
                           lock'[req'[v].sid] = v \/ req'[v].sid \in lapsed
  BY <1>1 DEF Checked
<1>4. \A u \in Worker :
        /\ req[u].pc \in {"active", "allowed"} /\ lock[req[u].sid] = u
             => data[req[u].sid] \in {req[u].seen, 0} \/ req[u].sid \in lapsed
        /\ req[u].pc = "allowed" => lock[req[u].sid] = u \/ req[u].sid \in lapsed
  BY <1>3 DEF IInv, Checked
<1>5. /\ \A u \in Worker : req[u].sid \in Sid /\ u # Free
      /\ lock \in [Sid -> Worker \cup {Free}] /\ data \in [Sid -> Int]
  BY <1>1, Fields DEF TypeInv
<1>6. CASE v # w
  <2>1. req'[v] = req[v]
    BY <1>2, <1>6
  <2>2. \/ lock' = lock
        \/ /\ lock[req[w].sid] \in {w, Free}
           /\ \E x \in {w, Free} : lock' = [lock EXCEPT ![req[w].sid] = x]
    BY DEF Steps, Waits, Grants, Fetches, Continues, Leaves, Releases, Dies
  <2>3. lock'[req[v].sid] = v <=> lock[req[v].sid] = v
    BY <1>5, <1>6, <2>2
  <2>4. ASSUME lock[req[v].sid] = v, req[v].pc \in {"active", "allowed"}
        PROVE  data'[req[v].sid] \in {req[v].seen, 0} \/ req[v].sid \in lapsed
    <3>1. data[req[v].sid] \in {req[v].seen, 0} \/ req[v].sid \in lapsed
      BY <1>4, <2>4
    <3>2. CASE data' = data
      BY <3>1, <3>2
    <3>3. CASE data' = [data EXCEPT ![req[w].sid] = 0]
      BY <1>5, <3>1, <3>3
    <3>4. CASE req[w].pc = "allowed" /\ data' = [data EXCEPT ![req[w].sid] = req[w].seen + 1]
      <4>1. req[w].sid # req[v].sid \/ req[v].sid \in lapsed
        BY <1>4, <1>6, <2>4, <3>4
      <4> QED
        BY <1>5, <3>1, <3>4, <4>1
    <3> QED
      BY <3>2, <3>3, <3>4
         DEF Steps, Waits, Grants, Fetches, Continues, Leaves, Releases, Dies
  <2> QED
    BY <1>4, <2>1, <2>3, <2>4
<1>7. CASE v = w
  <2>1. CASE Fetches(w, n)
    BY <1>2, <1>7, <2>1 DEF Fetches
  <2>2. CASE Continues(w, n)
    <3>1. data' = data /\ lock' = lock /\ n.sid = req[w].sid /\ n.seen = req[w].seen
      BY <2>2 DEF Continues
    <3>2. req[w].pc = "active" /\ (n.pc = "allowed" => lock[n.sid] = w)
      BY <1>3, <2>2 DEF Continues
    <3> QED
      BY <1>2, <1>4, <1>7, <3>1, <3>2
  <2>3. CASE n.pc \notin {"active", "allowed"}
    BY <1>2, <1>7, <2>3
  <2> QED
    BY <2>1, <2>2, <2>3 DEF Steps, Waits, Grants, Leaves, Releases, Dies
<1> QED
  BY <1>6, <1>7

LEMMA LockExpiresStep ==
  ASSUME IInv, NEW s \in Sid, LockExpires(s)
  PROVE  IInv'
<1>1. /\ TypeInv /\ HasTTL /\ lock[s] # Free /\ lock' = [lock EXCEPT ![s] = Free]
      /\ data' = data /\ req' = req /\ expiry' = expiry
      /\ faults' = faults /\ moved' = moved
      /\ lapsed' = IF req[lock[s]].pc = "allowed" /\ req[lock[s]].sid = s
                   THEN lapsed \cup {s} ELSE lapsed
  BY DEF IInv, LockExpires
<1>2. TypeInv'
  BY <1>1 DEF TypeInv
<1>3. Holding' /\ NoUnseenOverwrite' /\ Connected' /\ Keyed'
  BY <1>1 DEF IInv, HasTTL, Holding, NoUnseenOverwrite, Connected, Keyed,
              KeyServer, Server, redis_pool_get_sock
<1>4. \A t \in Sid : lock'[t] # Free => lock'[t] = lock[t]
  BY <1>1 DEF TypeInv
<1>5. Returning'
  BY <1>1, <1>4 DEF IInv, Returning, WillReturn, KeyServer, Server, redis_pool_get_sock
<1>6. lapsed \subseteq lapsed'
  BY <1>1
<1>7. Checked'
  <2>1. SUFFICES ASSUME expiry = "lock_expire", NEW v \in Worker
                 PROVE  /\ req[v].pc \in {"active", "allowed"} /\ lock'[req[v].sid] = v
                             => \/ data[req[v].sid] \in {req[v].seen, 0}
                                \/ req[v].sid \in lapsed'
                        /\ req[v].pc = "allowed" =>
                             lock'[req[v].sid] = v \/ req[v].sid \in lapsed'
    BY <1>1 DEF Checked
  <2>2. /\ req[v].pc \in {"active", "allowed"} /\ lock[req[v].sid] = v
             => data[req[v].sid] \in {req[v].seen, 0} \/ req[v].sid \in lapsed
        /\ req[v].pc = "allowed" => lock[req[v].sid] = v \/ req[v].sid \in lapsed
    BY <2>1 DEF IInv, Checked
  <2>3. req[v].sid \in Sid /\ v # Free
    BY <1>1, Fields
  <2>4. CASE req[v].sid = s
    BY <1>1, <1>4, <1>6, <2>2, <2>3, <2>4
  <2>5. CASE req[v].sid # s
    <3>1. lock'[req[v].sid] = lock[req[v].sid]
      BY <1>1, <2>5
    <3> QED
      BY <1>6, <2>2, <3>1
  <2> QED
    BY <2>4, <2>5
<1> QED
  BY <1>2, <1>3, <1>5, <1>7 DEF IInv

LEMMA DataExpiresStep ==
  ASSUME IInv, NEW s \in Sid, DataExpires(s)
  PROVE  IInv'
<1>1. /\ TypeInv /\ data' = [data EXCEPT ![s] = 0]
      /\ lock' = lock /\ req' = req /\ expiry' = expiry
      /\ faults' = faults /\ moved' = moved /\ lapsed' = lapsed
  BY DEF IInv, DataExpires
<1>2. TypeInv'
  BY <1>1 DEF TypeInv
<1>3. \A t \in Sid : data'[t] = data[t] \/ data'[t] = 0
  BY <1>1 DEF TypeInv
<1>4. Holding' /\ Connected'
  BY <1>1 DEF IInv, Holding, HasTTL, InSession, Connected
<1>8. Returning' /\ Keyed'
  <2>1. Returning'
    BY <1>1 DEF IInv, Returning, WillReturn, KeyServer, Server, redis_pool_get_sock
  <2>2. Keyed'
    BY <1>1 DEF IInv, Keyed, KeyServer, Server, redis_pool_get_sock
  <2> QED
    BY <2>1, <2>2
<1>5. \A v \in Worker : req[v].sid \in Sid
  BY <1>1, Fields
<1>6. NoUnseenOverwrite'
  BY <1>1, <1>3, <1>5 DEF IInv, NoUnseenOverwrite, HasTTL
<1>7. Checked'
  BY <1>1, <1>3, <1>5 DEF IInv, Checked
<1> QED
  BY <1>2, <1>4, <1>6, <1>7, <1>8 DEF IInv

---------------------------------------------------------------------------
(* The theorems.                                                           *)

LEMMA InitIInv == Init => IInv
<1> SUFFICES ASSUME Init PROVE IInv
  OBVIOUS
<1>1. /\ \A w \in Worker : req[w].pc = "idle" /\ req[w].conn = "ready"
      /\ \A s \in Sid : lock[s] = Free
  BY NewFields DEF Init
<1>2. Holding /\ NoUnseenOverwrite /\ Connected /\ Returning /\ Keyed /\ Checked
  BY <1>1 DEF Holding, NoUnseenOverwrite, Connected, Returning, Keyed, Checked, InSession
<1> QED
  BY <1>2, InitTypeInv DEF IInv

LEMMA NextIInv == IInv /\ [Next]_vars => IInv'
<1> SUFFICES ASSUME IInv, [Next]_vars PROVE IInv'
  OBVIOUS
<1>1. ASSUME NEW w \in Worker,
             PsOpen(w) \/ Start(w) \/ NewSessionKey(w) \/ Finish(w) \/ Crash(w)
      PROVE  IInv'
  <2>1. PICK n \in Rec : Steps(w, n)
    BY <1>1, WorkerKind DEF IInv
  <2>2. TypeInv' /\ Holding' /\ NoUnseenOverwrite'
    BY <2>1, StepsEffect, HoldingStep, UnseenStep DEF IInv
  <2>3. Connected' /\ Returning' /\ Keyed' /\ Checked'
    BY <2>1, ConnectedStep, ReturningStep, KeyedStep, CheckedStep
  <2> QED
    BY <2>2, <2>3 DEF IInv
<1>2. ASSUME NEW s \in Sid, LockExpires(s) \/ DataExpires(s)
      PROVE  IInv'
  BY <1>2, LockExpiresStep, DataExpiresStep
<1>3. CASE UNCHANGED vars
  <2>1. TypeInv' /\ Holding' /\ NoUnseenOverwrite' /\ Connected' /\ Checked'
    BY <1>3 DEF vars, IInv, TypeInv, Holding, HasTTL, InSession, NoUnseenOverwrite,
                Connected, Checked
  <2>2. Returning'
    BY <1>3 DEF vars, IInv, Returning, WillReturn, KeyServer, Server, redis_pool_get_sock
  <2>3. Keyed'
    BY <1>3 DEF vars, IInv, Keyed, KeyServer, Server, redis_pool_get_sock
  <2> QED
    BY <2>1, <2>2, <2>3 DEF IInv
<1> QED
  BY <1>1, <1>2, <1>3 DEF Next

LEMMA SpecIInv == Spec => []IInv
  BY InitIInv, NextIInv, PTL DEF Spec

LEMMA IInvExcludes == IInv => MutualExclusion
<1> SUFFICES ASSUME IInv, ~HasTTL, NEW w1 \in Worker, NEW w2 \in Worker,
                    InSession(w1), InSession(w2), req[w1].sid = req[w2].sid
             PROVE  w1 = w2
  BY DEF MutualExclusion
<1> QED
  BY DEF IInv, Holding

LEMMA IInvReturns == IInv => LocksAreReturned
<1> SUFFICES ASSUME IInv, NEW s \in Sid, LeftLocked(s), ~(faults > 0), s \notin moved,
                    KeyServer(s) = Server(s)
             PROVE  FALSE
  BY DEF LocksAreReturned
<1>1. faults = 0
  BY DEF IInv, TypeInv
<1> QED
  BY <1>1 DEF IInv, Returning, WillReturn, LeftLocked

LEMMA IInvLate ==
  IInv => \A w \in Worker : expiry = "lock_expire" /\ req[w].pc = "allowed" =>
            data[req[w].sid] \in {req[w].seen, 0} \/ req[w].sid \in lapsed
  BY DEF IInv, Checked

\* Two workers are never inside the same session when locks do not expire: a
\* session's lock is the worker's own from lock_acquire (redis_session.c:197)
\* to its own lock_release (:317), whatever replies are lost.
THEOREM SpecExcludes == Spec => []MutualExclusion
  BY SpecIInv, IInvExcludes, PTL

\* PS_WRITE (redis_session.c:738) replaces what the same request's PS_READ
\* returned, or data that no longer exists, when locks do not expire.
THEOREM SpecSeesWhatItOverwrites == Spec => []NoUnseenOverwrite
<1>1. IInv => NoUnseenOverwrite
  BY DEF IInv
<1> QED
  BY <1>1, SpecIInv, PTL

\* A lock that outlives its request is the mark of a failure, of a session_key
\* that hashes to another server than the id (redis_session.c:514), or of one
\* replaced by session_create_id() before PS_CLOSE.  In a pool of one server, or
\* without a prefix and without session_create_id(), only failures are left.
THEOREM SpecReturnsLocks == Spec => []LocksAreReturned
  BY SpecIInv, IInvReturns, PTL

\* With lock_expire set, write_allowed (redis_session.c:275) lets a worker
\* overwrite data it has not seen only in a session whose lock expired between
\* the check of the lock and the SETEX.
THEOREM SpecOverwritesLate == Spec => OnlyLateOverwrites
<1>1. IInv => (\A w \in Worker :
          (expiry = "lock_expire" /\ req[w].pc = "allowed" /\ data'[req[w].sid] # data[req[w].sid]
              /\ req'[w].pc = "close")
          => data[req[w].sid] \in {req[w].seen, 0} \/ req[w].sid \in lapsed)
  BY IInvLate
<1> QED
  BY <1>1, SpecIInv, PTL DEF OnlyLateOverwrites

---------------------------------------------------------------------------
(* The pool: redis_pool_get_sock finds a member for every hash.  Offset is *)
(* a recursive function, so that its equation has to be earned: a function *)
(* that satisfies it exists, by induction, and Offset is such a function.  *)

\* Induction, for a set of numbers instead of a predicate.
LEMMA Induction ==
  ASSUME NEW S, S \subseteq Nat, 0 \in S, \A n \in S : n + 1 \in S
  PROVE  S = Nat
<1> SUFFICES ASSUME Nat \ S # {}
             PROVE  FALSE
  OBVIOUS
<1>1. PICK n \in Nat \ S : \A m \in Nat \ S : <<m, n>> \notin OpToRel(<, Nat)
  BY NatLessThanWellFounded, WFMin
<1>2. \A m \in Nat \ S : ~(m < n)
  BY <1>1 DEF OpToRel
<1>3. n # 0 /\ n - 1 \in Nat /\ n - 1 < n
  OBVIOUS
<1>4. n - 1 \in S /\ n - 1 + 1 = n
  BY <1>2, <1>3
<1> QED
  BY <1>4

\* f sums the first n weights.
Sums(f, n) ==
  f \in [0..n -> Nat] /\ f[0] = 0 /\ \A i \in 1..n : f[i] = f[i - 1] + Weights[i]

LEMMA WeightsArePositive ==
  Len(Weights) \in Nat \ {0} /\ \A i \in 1..Len(Weights) : Weights[i] \in Nat \ {0}
  BY SessionAssumption

LEMMA SumsExist == \E f : Sums(f, Len(Weights))
<1> DEFINE S == {n \in Nat : n <= Len(Weights) => \E f : Sums(f, n)}
<1>1. 0 \in S
  <2>1. Sums([i \in 0..0 |-> 0], 0)
    BY DEF Sums
  <2> QED
    BY <2>1
<1>2. ASSUME NEW n \in S
      PROVE  n + 1 \in S
  <2> SUFFICES ASSUME n + 1 <= Len(Weights)
               PROVE  \E f : Sums(f, n + 1)
    OBVIOUS
  <2>1. n \in Nat /\ n + 1 \in 1..Len(Weights) /\ n <= Len(Weights)
    BY WeightsArePositive
  <2>2. PICK f : Sums(f, n)
    BY <2>1
  <2>3. PICK g : g = [i \in 0..(n + 1) |-> IF i <= n THEN f[i] ELSE f[n] + Weights[n + 1]]
    OBVIOUS
  <2>4. Sums(g, n + 1)
    BY <2>1, <2>2, <2>3, WeightsArePositive DEF Sums
  <2> QED
    BY <2>4
<1>3. S \subseteq Nat
  OBVIOUS
<1> HIDE DEF S
<1>4. S = Nat
  BY <1>1, <1>2, <1>3, Induction
<1> QED
  BY <1>4, WeightsArePositive DEF S

LEMMA OffsetEquation ==
  Offset = [i \in 0..Len(Weights) |-> IF i = 0 THEN 0 ELSE Offset[i - 1] + Weights[i]]
<1>1. PICK f : Sums(f, Len(Weights))
  BY SumsExist
<1>2. f = [i \in 0..Len(Weights) |-> IF i = 0 THEN 0 ELSE f[i - 1] + Weights[i]]
  BY <1>1, WeightsArePositive DEF Sums
<1> QED
  BY <1>2, Zenon DEF Offset

\* The offsets start at 0 and grow with each member.
LEMMA OffsetGrows ==
  /\ \A i \in 0..Len(Weights) : Offset[i] \in Nat
  /\ Offset[0] = 0
  /\ \A i \in 1..Len(Weights) : Offset[i - 1] < Offset[i]
<1> DEFINE S == {n \in Nat : n <= Len(Weights) => Offset[n] \in Nat}
<1>0. Offset[0] = 0 /\ \A i \in 1..Len(Weights) : Offset[i] = Offset[i - 1] + Weights[i]
  BY OffsetEquation, WeightsArePositive
<1>1. 0 \in S
  BY <1>0
<1>2. ASSUME NEW n \in S
      PROVE  n + 1 \in S
  <2> SUFFICES ASSUME n + 1 <= Len(Weights)
               PROVE  Offset[n + 1] \in Nat
    OBVIOUS
  <2>1. n \in Nat /\ n + 1 \in 1..Len(Weights) /\ Offset[n] \in Nat /\ n + 1 - 1 = n
    BY WeightsArePositive
  <2> QED
    BY <1>0, <2>1, WeightsArePositive
<1>3. S \subseteq Nat
  OBVIOUS
<1> HIDE DEF S
<1>4. S = Nat
  BY <1>1, <1>2, <1>3, Induction
<1>5. \A i \in 0..Len(Weights) : Offset[i] \in Nat
  BY <1>4, WeightsArePositive DEF S
<1> QED
  BY <1>0, <1>5, WeightsArePositive

LEMMA OffsetMonotone ==
  ASSUME NEW i \in 0..Len(Weights), NEW j \in 0..Len(Weights), i <= j
  PROVE  Offset[i] <= Offset[j]
<1> DEFINE S == {n \in Nat : n <= Len(Weights) => \A k \in 0..n : Offset[k] <= Offset[n]}
<1>1. 0 \in S
  BY OffsetGrows
<1>2. ASSUME NEW n \in S
      PROVE  n + 1 \in S
  <2> SUFFICES ASSUME n + 1 <= Len(Weights), NEW k \in 0..(n + 1)
               PROVE  Offset[k] <= Offset[n + 1]
    OBVIOUS
  <2>1. /\ n \in 0..Len(Weights) /\ n + 1 \in 1..Len(Weights) /\ n + 1 - 1 = n
        /\ k \in 0..Len(Weights)
    BY WeightsArePositive
  <2>2. Offset[n] \in Nat /\ Offset[n + 1] \in Nat /\ Offset[k] \in Nat /\ Offset[n] < Offset[n + 1]
    BY <2>1, OffsetGrows
  <2>3. k = n + 1 \/ Offset[k] <= Offset[n]
    BY <2>1
  <2> QED
    BY <2>2, <2>3
<1>3. S \subseteq Nat
  OBVIOUS
<1> HIDE DEF S
<1>4. S = Nat
  BY <1>1, <1>2, <1>3, Induction
<1> QED
  BY <1>4, WeightsArePositive DEF S

\* Position pos falls to member i.
Falls(pos, i) == i \in 1..Len(Weights) /\ Offset[i - 1] <= pos /\ pos < Offset[i]

LEMMA SomeMember ==
  ASSUME NEW pos \in Nat, pos < Offset[Len(Weights)]
  PROVE  \E i : Falls(pos, i)
<1> DEFINE Above == {i \in Nat : i \in 1..Len(Weights) /\ pos < Offset[i]}
<1>1. Len(Weights) \in Above
  BY WeightsArePositive
<1>2. PICK i \in Above : \A m \in Above : <<m, i>> \notin OpToRel(<, Nat)
  BY <1>1, NatLessThanWellFounded, WFMin
<1>3. i \in 1..Len(Weights) /\ pos < Offset[i] /\ \A m \in Above : ~(m < i)
  BY <1>2 DEF OpToRel
<1>4. i = 1 \/ i - 1 \in 1..Len(Weights)
  BY <1>3, WeightsArePositive
<1>5. i = 1 \/ ~(pos < Offset[i - 1])
  BY <1>3, <1>4
<1> QED
  BY <1>3, <1>4, <1>5, OffsetGrows DEF Falls

LEMMA OneMember ==
  ASSUME NEW pos \in Nat, NEW i, NEW j, Falls(pos, i), Falls(pos, j)
  PROVE  i = j
<1>1. ASSUME NEW a, NEW b, Falls(pos, a), Falls(pos, b), a < b
      PROVE  FALSE
  <2>1. a \in 0..Len(Weights) /\ b - 1 \in 0..Len(Weights) /\ a <= b - 1
    BY <1>1, WeightsArePositive DEF Falls
  <2>2. Offset[a] <= Offset[b - 1] /\ Offset[a] \in Nat /\ Offset[b - 1] \in Nat
    BY <2>1, OffsetMonotone, OffsetGrows
  <2> QED
    BY <1>1, <2>2 DEF Falls
<1>2. i \in Nat /\ j \in Nat
  BY WeightsArePositive DEF Falls
<1> QED
  BY <1>1, <1>2

\* Every hash falls to exactly one member of the pool, whatever the weights, and
\* redis_pool_get_sock (redis_session.c:158) returns that one: the walk down the
\* list of members always finds a connection.
THEOREM EveryKeyHasOneMember ==
  ASSUME NEW key \in Nat
  PROVE  \A i : Falls(key % Offset[Len(Weights)], i) <=> i = redis_pool_get_sock(key)
<1> DEFINE pos == key % Offset[Len(Weights)]
<1>1. Offset[Len(Weights)] \in Nat \ {0}
  BY OffsetGrows, WeightsArePositive
<1>2. pos \in Nat /\ pos < Offset[Len(Weights)]
  BY <1>1
<1> HIDE DEF pos
<1>3. DOMAIN Weights = 1..Len(Weights)
  BY SessionAssumption
<1>4. redis_pool_get_sock(key)
        = CHOOSE i \in 1..Len(Weights) : Offset[i - 1] <= pos /\ pos < Offset[i]
  BY <1>3, Zenon DEF redis_pool_get_sock, pos
<1>5. \E i \in 1..Len(Weights) : Offset[i - 1] <= pos /\ pos < Offset[i]
  BY <1>2, SomeMember DEF Falls
<1>6. Falls(pos, redis_pool_get_sock(key))
  BY <1>4, <1>5, Zenon DEF Falls
<1> QED
  BY <1>2, <1>6, OneMember DEF pos

---------------------------------------------------------------------------
(* The bounds of what a request counts with, and of its server.            *)

Bounded(r) ==
  /\ r.tries \in Nat /\ r.sids \in 0..SidTries /\ r.seen \in 0..MaxVersion
  /\ r.server \in 1..Len(Weights)
  /\ r.pc = "allowed" => r.seen < MaxVersion

BoundInv ==
  /\ data \in [Sid -> 0..MaxVersion]
  /\ \A w \in Worker : Bounded(req[w])
  /\ faults <= MaxFaults
  /\ expiry \in {"lock_expire", "max_execution_time", "none"}

\* What every action of a worker gives back.
BoundStep(w, n) ==
  /\ Update(w, n) /\ Bounded(n)
  /\ faults' <= MaxFaults /\ expiry' = expiry
  /\ data' \in [Sid -> 0..MaxVersion]

LEMMA BoundStepSuffices ==
  ASSUME TypeInv, BoundInv, NEW w \in Worker, NEW n, BoundStep(w, n)
  PROVE  BoundInv'
<1>1. \A v \in Worker : req'[v] = IF v = w THEN n ELSE req[v]
  BY DEF BoundStep, Update, TypeInv
<1>2. \A v \in Worker : Bounded(req[v])'
  <2> SUFFICES ASSUME NEW v \in Worker
               PROVE  Bounded(req'[v])
    BY DEF Bounded
  <2> QED
    BY <1>1 DEF BoundStep, BoundInv
<1> QED
  BY <1>2 DEF BoundStep, BoundInv

LEMMA CmdBound ==
  ASSUME TypeInv, BoundInv, NEW w, NEW o, NEW c, redis_simple_cmd(w, o, c)
  PROVE  faults' <= MaxFaults
  BY SessionAssumption DEF redis_simple_cmd, TypeInv, BoundInv

LEMMA NumbersAssumed == MaxFaults \in Nat /\ MaxVersion \in Nat /\ SidTries \in Nat \ {0}
  BY SessionAssumption

LEMMA EndingBounded ==
  ASSUME NEW r \in Rec, r.server \in 1..Len(Weights)
  PROVE  Bounded(Ending(r))
<1>1. /\ Ending(r).tries = 0 /\ Ending(r).sids = 0 /\ Ending(r).seen = 0
      /\ Ending(r).server = r.server /\ Ending(r).pc = "close"
  BY DEF Ending, Rec
<1> QED
  BY <1>1, NumbersAssumed DEF Bounded

LEMMA LockingBounded ==
  ASSUME NEW r \in Rec, Bounded(r), NEW s \in Sid, NEW n \in 0..SidTries
  PROVE  Bounded(Locking(r, s, n))
<1>1. /\ Locking(r, s, n).tries = 0 /\ Locking(r, s, n).sids = n
      /\ Locking(r, s, n).seen = r.seen /\ Locking(r, s, n).pc = "acquire"
      /\ Locking(r, s, n).server = KeyServer(s)
  BY DEF Locking, Rec
<1>2. Server(s) \in 1..Len(Weights)
  BY SessionAssumption, EveryKeyHasOneMember DEF Falls, Server
<1>3. KeyHash[s][Server(s)] \in Nat
  BY <1>2, SessionAssumption
<1>4. KeyServer(s) \in 1..Len(Weights)
  BY <1>3, EveryKeyHasOneMember DEF Falls, KeyServer
<1> QED
  BY <1>1, <1>4 DEF Bounded

LEMMA NewRequestBounded == Bounded(NewRequest)
  BY NumbersAssumed, WeightsArePositive DEF NewRequest, Bounded

LEMMA SetConnBounded ==
  ASSUME NEW r \in Rec, Bounded(r), NEW c \in Conn
  PROVE  \E q \in Rec : q = [r EXCEPT !.conn = c] /\ Bounded(q) /\ q.pc = r.pc
<1>1. PICK q \in Rec : q = [r EXCEPT !.conn = c]
  BY SetConn
<1>2. /\ q.tries = r.tries /\ q.sids = r.sids /\ q.seen = r.seen /\ q.server = r.server
      /\ q.pc = r.pc
  BY <1>1 DEF Rec
<1> QED
  BY <1>1, <1>2 DEF Bounded

LEMMA OpenBound ==
  ASSUME TypeInv, BoundInv, NEW w \in Worker, PsOpen(w)
  PROVE  \E n : BoundStep(w, n)
<1>1. PICK n : n = [NewRequest EXCEPT !.pc = "start"]
  OBVIOUS
<1>2. Bounded(n)
  BY <1>1, NumbersAssumed, WeightsArePositive DEF NewRequest, Bounded
<1> QED
  BY <1>1, <1>2 DEF PsOpen, BoundStep, BoundInv

LEMMA ValidateBound ==
  ASSUME TypeInv, BoundInv, NEW w \in Worker, PsValidateSid(w)
  PROVE  \E n : BoundStep(w, n)
<1>1. PICK s \in Sid, o \in Outcome, c \in Conn :
        /\ redis_simple_cmd(w, o, c)
        /\ LET r == [req[w] EXCEPT !.conn = c]
           IN  Update(w, IF o = "ok" /\ data[s] # 0 THEN Locking(r, s, 0)
                                                    ELSE [r EXCEPT !.pc = "create"])
  BY DEF PsValidateSid
<1>2. PICK r \in Rec : r = [req[w] EXCEPT !.conn = c] /\ Bounded(r)
  BY SetConnBounded DEF TypeInv, BoundInv
<1>3. Bounded(Locking(r, s, 0)) /\ Bounded([r EXCEPT !.pc = "create"])
  <2>1. Bounded([r EXCEPT !.pc = "create"])
    BY <1>2 DEF Bounded, Rec
  <2> QED
    BY <1>2, <2>1, LockingBounded, NumbersAssumed
<1> QED
  BY <1>1, <1>2, <1>3, CmdBound DEF PsValidateSid, BoundStep, BoundInv

LEMMA ReadBound ==
  ASSUME TypeInv, BoundInv, NEW w \in Worker, PsRead(w)
  PROVE  \E n : BoundStep(w, n)
<1>1. PICK s \in Sid : Update(w, Locking(req[w], s, 0))
  BY DEF PsRead
<1>2. Bounded(Locking(req[w], s, 0))
  BY LockingBounded, NumbersAssumed DEF TypeInv, BoundInv
<1> QED
  BY <1>1, <1>2 DEF PsRead, BoundStep, BoundInv

LEMMA CreateBound ==
  ASSUME TypeInv, BoundInv, NEW w \in Worker, PsCreateSid(w)
  PROVE  \E n : BoundStep(w, n)
<1>1. req[w] \in Rec /\ Bounded(req[w])
  BY DEF TypeInv, BoundInv
<1>2. PICK s \in Sid :
        \/ Update(w, Locking(req[w], s, SidTries - 1)) /\ faults' = faults
        \/ req[w].sids > 0 /\ Update(w, Locking(req[w], s, req[w].sids - 1)) /\ faults' = faults
        \/ \E c \in Conn : /\ redis_simple_cmd(w, "unsent", c)
                           /\ Update(w, Locking([req[w] EXCEPT !.conn = c], s, 0))
  BY DEF PsCreateSid
<1>3. CASE \E k \in 0..SidTries : Update(w, Locking(req[w], s, k)) /\ faults' = faults
  BY <1>1, <1>3, LockingBounded DEF PsCreateSid, BoundStep, BoundInv
<1>4. CASE \E c \in Conn : /\ redis_simple_cmd(w, "unsent", c)
                           /\ Update(w, Locking([req[w] EXCEPT !.conn = c], s, 0))
  <2>1. PICK c \in Conn : /\ redis_simple_cmd(w, "unsent", c)
                          /\ Update(w, Locking([req[w] EXCEPT !.conn = c], s, 0))
    BY <1>4
  <2>2. PICK r \in Rec : r = [req[w] EXCEPT !.conn = c] /\ Bounded(r)
    BY <1>1, SetConnBounded
  <2>3. Bounded(Locking(r, s, 0))
    BY <2>2, LockingBounded, NumbersAssumed
  <2> QED
    BY <2>1, <2>2, <2>3, CmdBound DEF PsCreateSid, BoundStep, BoundInv
<1>5. SidTries - 1 \in 0..SidTries /\ (req[w].sids > 0 => req[w].sids - 1 \in 0..SidTries)
  BY <1>1, NumbersAssumed DEF Bounded
<1> QED
  BY <1>2, <1>3, <1>4, <1>5

LEMMA GrantedBound ==
  ASSUME TypeInv, BoundInv, NEW w \in Worker, LockGranted(w)
  PROVE  \E n : BoundStep(w, n)
<1>1. PICK c \in Conn :
        /\ redis_simple_cmd(w, "ok", c)
        /\ Update(w, [req[w] EXCEPT !.pc = "fetch", !.is_locked = TRUE, !.conn = c,
                                    !.tries = 0, !.sids = 0])
  BY DEF LockGranted, set_session_lock_key
<1>2. PICK n : n = [req[w] EXCEPT !.pc = "fetch", !.is_locked = TRUE, !.conn = c,
                                  !.tries = 0, !.sids = 0]
  OBVIOUS
<1>3. /\ n.tries = 0 /\ n.sids = 0 /\ n.seen = req[w].seen /\ n.server = req[w].server
      /\ n.pc = "fetch"
  BY <1>2 DEF TypeInv, Rec
<1>4. Bounded(n)
  BY <1>3, NumbersAssumed DEF Bounded, BoundInv
<1> QED
  BY <1>1, <1>2, <1>4, CmdBound DEF LockGranted, BoundStep, BoundInv

LEMMA RefusedBound ==
  ASSUME TypeInv, BoundInv, NEW w \in Worker, LockRefused(w)
  PROVE  \E n : BoundStep(w, n)
<1>1. PICK o \in {"ok", "lost"}, c \in Conn :
        /\ redis_simple_cmd(w, o, c)
        /\ Update(w, [Attempted(req[w]) EXCEPT !.conn = c,
               !.pc = IF Retries # -1 /\ req[w].tries >= Retries THEN "refused" ELSE @])
  BY DEF LockRefused, set_session_lock_key
<1>2. PICK r \in Rec : r = Attempted(req[w])
  BY AttemptedType DEF TypeInv
<1>3. /\ r.tries \in {req[w].tries, req[w].tries + 1} /\ r.sids = req[w].sids
      /\ r.seen = req[w].seen /\ r.server = req[w].server /\ r.pc = "acquire"
  BY <1>2 DEF Attempted, LockRefused, TypeInv, Rec
<1>4. PICK p : p = IF Retries # -1 /\ req[w].tries >= Retries THEN "refused" ELSE r.pc
  OBVIOUS
<1>5. PICK n : n = [r EXCEPT !.conn = c, !.pc = p]
  OBVIOUS
<1>6. Update(w, n)
  BY <1>1, <1>2, <1>4, <1>5
<1>7. n.tries = r.tries /\ n.sids = r.sids /\ n.seen = r.seen /\ n.server = r.server /\ n.pc = p
  BY <1>5 DEF Rec
<1>8. p # "allowed"
  BY <1>3, <1>4
<1>9. Bounded(n)
  BY <1>3, <1>7, <1>8 DEF Bounded, BoundInv
<1> QED
  BY <1>1, <1>6, <1>9, CmdBound DEF LockRefused, BoundStep, BoundInv

LEMMA UnsentBound ==
  ASSUME TypeInv, BoundInv, NEW w \in Worker, LockUnsent(w)
  PROVE  \E n : BoundStep(w, n)
<1>1. PICK c \in Conn : /\ redis_simple_cmd(w, "unsent", c)
                        /\ Update(w, [req[w] EXCEPT !.pc = "refused", !.conn = c])
  BY DEF LockUnsent, set_session_lock_key
<1>2. Bounded([req[w] EXCEPT !.pc = "refused", !.conn = c])
  BY DEF Bounded, BoundInv, TypeInv, Rec
<1> QED
  BY <1>1, <1>2, CmdBound DEF LockUnsent, BoundStep, BoundInv

LEMMA FetchBound ==
  ASSUME TypeInv, BoundInv, NEW w \in Worker, Fetch(w)
  PROVE  \E n : BoundStep(w, n)
<1>1. PICK o \in Outcome, c \in Conn :
        /\ redis_simple_cmd(w, o, c)
        /\ Update(w, IF o = "ok"
                     THEN [req[w] EXCEPT !.pc = "active", !.conn = c,
                                         !.seen = data[req[w].sid]]
                     ELSE Ending([req[w] EXCEPT !.conn = c]))
  BY DEF Fetch
<1>2. req[w] \in Rec /\ Bounded(req[w]) /\ data[req[w].sid] \in 0..MaxVersion
  BY DEF TypeInv, Rec, BoundInv
<1>3. PICK n : n = [req[w] EXCEPT !.pc = "active", !.conn = c, !.seen = data[req[w].sid]]
  OBVIOUS
<1>4. /\ n.tries = req[w].tries /\ n.sids = req[w].sids /\ n.seen = data[req[w].sid]
      /\ n.server = req[w].server /\ n.pc = "active"
  BY <1>2, <1>3 DEF Rec
<1>5. Bounded(n)
  BY <1>2, <1>4 DEF Bounded
<1>6. Bounded(Ending([req[w] EXCEPT !.conn = c]))
  BY <1>2, SetConnBounded, EndingBounded DEF Bounded
<1> QED
  BY <1>1, <1>3, <1>5, <1>6, CmdBound DEF Fetch, BoundStep, BoundInv

\* The handlers that end the request whatever the answer.
LEMMA EndingBound ==
  ASSUME TypeInv, BoundInv, NEW w \in Worker,
         StartFails(w) \/ PsWrite(w) \/ PsUpdateTimestamp(w) \/ DestroyData(w)
  PROVE  \E n : BoundStep(w, n)
<1>1. req[w] \in Rec /\ Bounded(req[w]) /\ req[w].server \in 1..Len(Weights)
  BY DEF TypeInv, BoundInv, Bounded
<1>2. Bounded(Ending(req[w])) /\ \A c \in Conn : Bounded(Ending([req[w] EXCEPT !.conn = c]))
  BY <1>1, SetConnBounded, EndingBounded DEF Bounded
<1>3. CASE StartFails(w)
  BY <1>2, <1>3 DEF StartFails, BoundStep, BoundInv
<1>4. CASE PsWrite(w) \/ PsUpdateTimestamp(w) \/ DestroyData(w)
  <2>1. PICK o \in Outcome, c \in Conn :
          /\ redis_simple_cmd(w, o, c)
          /\ Update(w, Ending([req[w] EXCEPT !.conn = c]))
    BY <1>4 DEF PsWrite, PsUpdateTimestamp, DestroyData
  <2>2. data' \in [Sid -> 0..MaxVersion] /\ expiry' = expiry
    <3>1. PsWrite(w) => req[w].seen + 1 \in 0..MaxVersion
      BY <1>1, NumbersAssumed DEF PsWrite, Bounded
    <3>2. 0 \in 0..MaxVersion
      BY NumbersAssumed
    <3>3. \/ data' = data
          \/ \E k \in 0..MaxVersion : data' = [data EXCEPT ![req[w].sid] = k]
      BY <1>4, <3>1, <3>2 DEF PsWrite, PsUpdateTimestamp, DestroyData
    <3> QED
      BY <1>4, <3>3 DEF PsWrite, PsUpdateTimestamp, DestroyData, BoundInv
  <2> QED
    BY <1>2, <2>1, <2>2, CmdBound DEF BoundStep
<1> QED
  BY <1>3, <1>4

LEMMA AllowedBound ==
  ASSUME TypeInv, BoundInv, NEW w \in Worker, write_allowed(w)
  PROVE  \E n : BoundStep(w, n)
<1>1. req[w] \in Rec /\ Bounded(req[w]) /\ req[w].seen < MaxVersion
  BY DEF TypeInv, BoundInv, write_allowed
<1>2. ASSUME NEW r \in Rec, r.tries = req[w].tries, r.sids = req[w].sids, r.seen = req[w].seen,
             r.server = req[w].server
      PROVE  Bounded([r EXCEPT !.pc = "allowed"]) /\ Bounded(Ending(r))
  <2>1. Bounded([r EXCEPT !.pc = "allowed"])
    BY <1>1, <1>2 DEF Bounded, Rec
  <2> QED
    BY <1>1, <1>2, <2>1, EndingBounded DEF Bounded
<1>3. CASE expiry # "lock_expire"
  <2>1. /\ faults' = faults
        /\ Update(w, IF req[w].is_locked THEN [req[w] EXCEPT !.pc = "allowed"]
                                         ELSE Ending(req[w]))
    BY <1>3 DEF write_allowed
  <2> QED
    BY <1>1, <1>2, <2>1 DEF write_allowed, BoundStep, BoundInv
<1>4. CASE expiry = "lock_expire"
  <2>1. PICK o \in Outcome, c \in Conn :
          /\ redis_simple_cmd(w, o, c)
          /\ LET held == o = "ok" /\ Secret(w)
                 r == [req[w] EXCEPT !.is_locked = held, !.conn = c]
             IN  Update(w, IF held THEN [r EXCEPT !.pc = "allowed"] ELSE Ending(r))
    BY <1>4 DEF write_allowed
  <2>2. PICK held \in BOOLEAN : held = (o = "ok" /\ Secret(w))
    OBVIOUS
  <2>3. PICK q \in Rec : q = [req[w] EXCEPT !.is_locked = held]
    BY <1>1, SetLocked
  <2>4. PICK r \in Rec : r = [q EXCEPT !.conn = c]
    BY SetConn
  <2>5. /\ r = [req[w] EXCEPT !.is_locked = held, !.conn = c]
        /\ r.tries = req[w].tries /\ r.sids = req[w].sids /\ r.seen = req[w].seen
        /\ r.server = req[w].server
    BY <1>1, <2>3, <2>4 DEF Rec
  <2>6. Bounded([r EXCEPT !.pc = "allowed"]) /\ Bounded(Ending(r))
    BY <1>2, <2>5
  <2>7. Update(w, IF held THEN [r EXCEPT !.pc = "allowed"] ELSE Ending(r))
    BY <2>1, <2>2, <2>5
  <2> QED
    BY <2>1, <2>6, <2>7, CmdBound DEF write_allowed, BoundStep, BoundInv
<1> QED
  BY <1>3, <1>4

LEMMA DestroyBound ==
  ASSUME TypeInv, BoundInv, NEW w \in Worker, PsDestroy(w)
  PROVE  \E n : BoundStep(w, n)
<1>1. PICK o \in Outcome, c \in Conn :
        /\ redis_simple_cmd(w, o, c)
        /\ Update(w, [req[w] EXCEPT !.pc = "delete", !.conn = c,
                                    !.is_locked = o # "ok", !.seen = 0])
  BY DEF PsDestroy, lock_release
<1>2. PICK b \in BOOLEAN : b = (o # "ok")
  OBVIOUS
<1>3. PICK n : n = [req[w] EXCEPT !.pc = "delete", !.conn = c, !.is_locked = b, !.seen = 0]
  OBVIOUS
<1>4. /\ n.tries = req[w].tries /\ n.sids = req[w].sids /\ n.seen = 0
      /\ n.server = req[w].server /\ n.pc = "delete"
  BY <1>3 DEF TypeInv, Rec
<1>5. Bounded(n)
  BY <1>4, NumbersAssumed DEF Bounded, BoundInv
<1> QED
  BY <1>1, <1>2, <1>3, <1>5, CmdBound DEF PsDestroy, BoundStep, BoundInv

LEMMA OverBound ==
  ASSUME TypeInv, BoundInv, NEW w \in Worker, PsClose(w) \/ Crash(w)
  PROVE  \E n : BoundStep(w, n)
<1>1. faults' <= MaxFaults
  <2>1. CASE faults' = faults
    BY <2>1 DEF BoundInv
  <2>2. CASE \E o \in Outcome, c \in Conn : redis_simple_cmd(w, o, c)
    BY <2>2, CmdBound
  <2>3. CASE Crash(w)
    BY <2>3, NumbersAssumed DEF Crash, TypeInv
  <2> QED
    BY <2>1, <2>2, <2>3 DEF PsClose, lock_release
<1> QED
  BY <1>1, NewRequestBounded DEF PsClose, Crash, BoundStep, BoundInv

LEMMA SessionKeyBound ==
  ASSUME TypeInv, BoundInv, NEW w \in Worker, NewSessionKey(w)
  PROVE  \E n : BoundStep(w, n)
<1>1. PICK h \in NewKeyHash : Update(w, [req[w] EXCEPT !.server = redis_pool_get_sock(h)])
  BY DEF NewSessionKey
<1>2. PICK i \in 1..Len(Weights) : i = redis_pool_get_sock(h)
  BY SessionAssumption, EveryKeyHasOneMember DEF Falls
<1>3. Bounded([req[w] EXCEPT !.server = i])
  BY DEF Bounded, BoundInv, TypeInv, Rec
<1> QED
  BY <1>1, <1>2, <1>3 DEF NewSessionKey, BoundStep, BoundInv

LEMMA NextBoundInv ==
  ASSUME TypeInv, BoundInv, [Next]_vars
  PROVE  BoundInv'
<1>1. ASSUME NEW w \in Worker,
             PsOpen(w) \/ Start(w) \/ NewSessionKey(w) \/ Finish(w) \/ Crash(w)
      PROVE  BoundInv'
  <2>1. \E n : BoundStep(w, n)
    BY <1>1, OpenBound, ValidateBound, ReadBound, CreateBound, GrantedBound, RefusedBound,
       UnsentBound, FetchBound, EndingBound, AllowedBound, DestroyBound, OverBound,
       SessionKeyBound DEF Start, Finish
  <2> QED
    BY <2>1, BoundStepSuffices
<1>2. ASSUME NEW s \in Sid, LockExpires(s) \/ DataExpires(s)
      PROVE  BoundInv'
  BY <1>2, NumbersAssumed DEF LockExpires, DataExpires, BoundInv, Bounded
<1>3. CASE UNCHANGED vars
  BY <1>3 DEF vars, BoundInv, Bounded
<1> QED
  BY <1>1, <1>2, <1>3 DEF Next

LEMMA InitBoundInv == Init => BoundInv
<1> SUFFICES ASSUME Init PROVE BoundInv
  OBVIOUS
<1>1. \A w \in Worker : req[w] = NewRequest
  BY DEF Init
<1> QED
  BY <1>1, NewRequestBounded, NumbersAssumed DEF Init, BoundInv

LEMMA BoundedIsRequest ==
  ASSUME NEW r \in Rec, Bounded(r)
  PROVE  r \in Request
  BY DEF Rec, Bounded, Request, Conn

\* The variables keep their types; in particular every session hashes to a
\* member of the pool, and session_key never leaves it.
THEOREM SessionTypeCorrect == Spec => []TypeOK
<1>1. TypeInv /\ BoundInv => TypeOK
  <2> SUFFICES ASSUME TypeInv, BoundInv PROVE TypeOK
    OBVIOUS
  <2>1. \A w \in Worker : req[w] \in Request
    BY BoundedIsRequest DEF TypeInv, BoundInv
  <2>2. req \in [Worker -> Request]
    BY <2>1 DEF TypeInv
  <2> QED
    BY <2>2, NumbersAssumed DEF TypeInv, BoundInv, TypeOK
<1>2. IInv /\ BoundInv /\ [Next]_vars => BoundInv'
  BY NextBoundInv DEF IInv
<1>3. IInv => TypeInv
  BY DEF IInv
<1> QED
  BY <1>1, <1>2, <1>3, InitBoundInv, SpecIInv, PTL DEF Spec
=============================================================================
