# ICORE Tax Gateway in TLA+

The gateway (Laravel, PHP) takes sales, purchases, stock movements and reports
from point-of-sale systems and passes them to KRA, the Kenya Revenue Authority:
to a KRA device that signs receipts while the client waits, and to KRA's central
API, to which a queued job sends a copy of every signed sale (*journaling*).
The repository also carries the source of phpredis 6.0.2 (`redis-6.0.2/`, C), the
extension its Redis connections go through (`config/database.php:146`). This
directory holds a model of the parts of both that keep state, the TLC runs that
check it and the TLAPS proofs about it. All paths are relative to the repository,
`app/...` for PHP and `redis-6.0.2/...` for C unless said otherwise.

1. [The system](#1-the-system)
2. [Modules](#2-modules)
3. [How a step is chosen, and what is abstracted](#3-how-a-step-is-chosen-and-what-is-abstracted)
4. [Runs](#4-runs)
5. [Bounds](#5-bounds)
6. [Fairness](#6-fairness)
7. [Proofs](#7-proofs)
8. [Where the code and its documents disagree](#8-where-the-code-and-its-documents-disagree)
9. [What is not modelled](#9-what-is-not-modelled)
10. [Plan](#10-plan)

## 1. The system

| Component | State | Operations | What makes it correct |
| --- | --- | --- | --- |
| Journaling job `Jobs/ProcessKraJournalingJob.php` | the in-memory `Transaction` of one run, the next message | `handle` (find, QUEUED, items, receipt, COMPLETED; catch: FAILED), `failed` | COMPLETED only when KRA has all of it; items before the receipt; an outcome for every job |
| Queue table and workers (`config/queue.php`, `jobs` table, Laravel's worker) | rows with attempts and reservation; what each worker holds | push, reserve, expire, put back, delete, fail, kill on timeout | at most `$tries` runs, one at a time; the queue drains |
| KRA client `Services/KraApi.php` | none | `sendCommand` (XML), `sendJsonCommand` (JSON) | an exception exactly when KRA has not accepted |
| Sales signing `Services/KraSalesService.php`, `KraSalesController` | none of its own | `processTransaction`: sign, store, dispatch, answer | whoever was answered holds the stored signature |
| Request validation `Requests/ProcessTransactionRequest.php` | none | `authorize`, `rules`, `withValidator` | totals and taxes add up |
| Table `transactions` | one row per sale, `journal_status`, `journal_error_message`, a unique index | insert, update of changed columns | a sale is stored once |
| Device lifecycle `Services/KraDeviceService.php`, `KraDeviceController` | table `kra_devices`, KRA's activation | `initializeDevice`, `getDeviceStatus` | one id per unit; known units are activated; the status is what KRA said last |
| Purchases, inventory, items, reports (`Services/Kra{Purchase,Inventory,Item,Report}Service.php`) | none here, but at KRA | commands of one or several messages | a failure half way can be repeated |
| Error rendering `Exceptions/KraApiException.php` | none | `render` | every KRA error becomes the right HTTP answer |
| Authentication, trace ids, simulation and mock server, web portal, seeders | none that matters here | | |

The Redis client, by the object or process that keeps the state:

| Component | State | Operations | What makes it correct |
| --- | --- | --- | --- |
| Session handler `redis_session.c` | per request: session key, lock held or not, pool member; at the server: lock and data | open, validate, create id, read (lock, fetch), write, renew, destroy, close | one worker in a session; nothing unseen is overwritten; locks come back |
| Connections, `library.c`, `redis.c` | per object: stream, database, MULTI/pipeline, queued callbacks; the pool of persistent streams | connect, select, watch, multi, pipeline, exec, discard, reset, close, reconnect | the right database; each reply to its own command; EXEC guarded by WATCH |
| Command builders `redis_commands.c` | none | one per family of commands | declared and appended arguments agree; all keys in the slot the command goes to |
| Reply readers, `library.c`, `cluster_library.c` | none but the stream | one per family of replies | exactly the reply is consumed |
| Cluster client `cluster_library.c`, `redis_cluster.c` | slot map, a socket per node, MULTI queue, cached map | send, follow MOVED and ASK, fall back, fail over to replicas, multi, exec, discard, watch, directed commands | own replies; at most one execution; an end |
| Subscriptions, RedisArray, sentinel, backoff, stubs | | | not modelled, see section 9 |

PHP code, the gateway's included, calls methods of a Redis or RedisCluster object;
a method builds a command, the connection carries it, a reader takes its reply.
The session handler is called by PHP itself and shares the pool of streams. The
five models meet at those interfaces: `RedisSock` and `RedisCluster` take a command
and its reply as one thing each, which is right only if `RedisCommands` and
`RedisReplies` show that neither is longer or shorter than the other side believes.

Components of the gateway meet in four places. A request calls the device through `KraApi`, then
inserts a row, then inserts a job; the job's worker calls KRA's central API
through `KraApi` and updates the row. Clients repeat requests that failed, the
queue repeats jobs that failed, and neither tells KRA that it does.

What is hard here:

* **Two workers on one job.** The queue hands a job out again after
  `retry_after` = 90 s (`config/queue.php:42`), but a job may run for `$timeout`
  = 300 s (`ProcessKraJournalingJob.php:20`). Nothing in `handle` excludes a
  second run of the same transaction.
* **Answers that get lost.** A command that timed out may have been carried out,
  or be carried out later; the gateway treats it as a failure and repeats it.
* **Processes that die** between two statements: no database transaction spans
  signing, storing and dispatching, or the deletion of a failed job and its
  `failed()`.
* **Models that are saved late.** Eloquent writes the columns that differ from
  what was loaded, whatever the table holds by now.
* **A connection outlives what used it.** A persistent Redis stream carries its
  database, its MULTI block, its watched keys and its unread replies to the next
  object that takes it from the pool (`library.c:3098`).
* **Replies without names.** Redis answers in order; a reader that stops early, an
  answer that comes after its timeout or a builder that miscounts shifts every later
  reply on the stream.
* **A lock and its data are separate keys** of a server that may not answer, with a
  time to live that the worker does not see (`redis_session.c:761`), and they are on
  the server its id hashes to, where the prefixed `session_key`, by which a closing
  session looks its server up, need not lead (:514).
* **A slot map that is stale when it is used** (`cluster_library.c:1566`).
* **Judging an answer.** Only STATUS `E` is a failure; every other value counts
  as acceptance.

`PROJECT.json` lists these hazards at their lines with the properties that
cover them.

## 2. Modules

| Module | Models | Built on |
| --- | --- | --- |
| `KraApi` | what `sendCommand` makes of an answer, and when KRA may have obeyed | |
| `KraJournaling` | the job, the queue, its workers, KRA's record | `KraApi` |
| `JournalContract` | the abstract specification of journaling | |
| `KraSales` | signing: a request from arrival to answer | `KraApi` |
| `Gateway` | both sides over one database | `KraJournaling`, instance of `KraSales` |
| `KraDevice` | initialisation and status check of devices | `KraApi` |
| `KraSubmissions` | purchases, stock movements, items and Z reports, sent while the client waits | `KraApi` |
| `RedisSession` | session locking of the session handler | |
| `RedisSock` | Redis objects, their streams, and the pool | |
| `RedisCommands` | every command builder, as a function of what it branches on | |
| `RedisReplies` | every reply reader, as a function on the stream | |
| `RedisCluster` | one RedisCluster object and its nodes | |
| `*_proofs` | the theorems; `Gateway_proofs` builds on those of `KraJournaling` and `KraSales` | the module they are about |
| `MC*` | values for the constants of a run, symmetry | the module they check |

### KraApi

An answer is one of: none, an HTTP 4xx or 5xx, a body that is not XML, or a
`<STATUS>`: `P` (accepted), `E` (rejected), or anything else. `SendCommandThrows`
is the judgement of `sendCommand` (lines 65-151). `MayBeAccepted` and
`MayBeRefused` are the other side: KRA obeyed if it says so, it did not if it
rejects, and after a lost or garbled answer both are possible.

### KraJournaling

| Variable | In the code |
| --- | --- |
| `status`, `hasError` | `transactions.journal_status`, and whether `journal_error_message` is set |
| `queue`, `nextId` | the table `jobs` and its counter; an entry has an id, its transaction, `attempts`, and whether it is reserved |
| `dispatched` | the transactions `ProcessKraJournalingJob::dispatch` was called for (history) |
| `pc`, `job` | where each worker is, and the row it reserved, as it reserved it |
| `mem`, `part`, `tooLong` | the worker's loaded `journal_status`, the next message, whether its exception is too long for the column |
| `journal`, `late` | what KRA has accepted, and what is still under way with nobody waiting |
| `starts`, `crashes` | how often `handle` began (history); worker deaths |

A worker goes through
`Pop`, `FindTransaction` (or `RefuseJob` when `attempts` is used up),
`MarkQueued`, `SendPart` once per message, `MarkCompleted`, `DeleteJob`; an
exception leads through `MarkFailed` to `PutBack`, or on the last attempt through
`GiveUp`, `FailJob`, `FindFailed` and `UpdateFailed` (the last two are
`failed()`). `KillOnTimeout` is the worker's alarm, `Crash` any other death,
`LateArrival` a message that reaches KRA after its sender gave up.

A reservation has expired (`Expired`) if its worker is gone, or at any time if
`RetryAfter <= Timeout` (`Overlap`): no clock is needed, since only the order of the
two durations decides whether a reservation can expire under a running worker.

### JournalContract

Two variables, `status` and `journal`, and three actions: a transaction is
recorded, KRA accepts the next of its messages, the gateway reports a status -
COMPLETED only if KRA has everything. That is all a reader of the table and KRA
together may rely on. `KraJournaling` implements it under the identity mapping,
checked in `MCKraJournalingOverlap` and proved in `KraJournaling_proofs`.

### KraSales

`web[q]` is where request `q` is: authorised (`Receive`), signed (`Sign`), stored
(`Store`), answered (`DispatchAndAnswer`); or it ended in an error or its process
died. Every refusal before signing is one outcome of `Receive`. `Sign` covers
`KraSalesService.php:37-108`: the device's answer, and answers taken for a success
that lack what the code reads next. `RefuseDuplicate` is the unique index, which
is only met after the device has signed. A signature is named by the request it
was made for, so "which signature is stored" is `row[s]`.

### Gateway

Storing a sale is the action `CreateTransaction` of `KraJournaling`, dispatching
it is `DispatchJob`; every other step belongs to one side.

### KraDevice

`initializeDevice` asks KRA first (`AskInitialise`), then looks for the row
(`LookUp`), then inserts (`Insert`, with the unique index on the SCU id) or updates
(`Update`). `getDeviceStatus` loads first (`ReceiveCheck`), asks (`AskStatus`), then
saves (`Update`), which writes the status only if it differs from the loaded one.
`savedBy` in a row is a history variable.

### KraSubmissions

What the gateway passes on and does not store. `web[q]`, `about[q]` and `part[q]`
are where request `q` is, what it submits and how many commands it has sent;
`held[m]` counts how often KRA has carried out message `m`. A purchase
(`SendPurchase`, one step per command) is a header, number 0, and its items; a
movement, an item and a Z report are one command (`SendInventoryMovement`,
`RegisterItem`, `GenerateZDailyReport`; the last has a check of its own for a DATA
node, made after the day was closed). Unlike for a sale, `Receive` does not look at
the status of the device: neither the request classes nor the report controller do. A repeated
submission is another request about the same one.

### RedisSession

| Variable | In the code |
| --- | --- |
| `lock`, `data` | the keys at the server: the secret under `<key>_LOCK`, and a version of the session's data, 0 for none |
| `req` | each worker's request: where it is, `sid` and `is_locked` of `redis_session_lock_status`, the pool member `session_key` hashes to (`server`), the connection, tries used, the version it has read |
| `expiry` | which ini setting gives the lock a time to live |
| `faults` | workers, commands and answers lost so far |
| `moved`, `lapsed` | history: sessions whose request got a `session_key` of another server; sessions whose lock expired between its check and the write |

A server is looked up in two ways. Lock and data are on `Server(s)`, which every
handler but one finds by the id. `PS_CLOSE` hashes `session_key` instead, which begins
with the prefix (`redis_session.c:531-549`), and a hash takes four bytes (:161): that is
`KeyServer(s)`, under the default prefix the member of "PHPR" for every session. The
constants `Hash` and `KeyHash` are the two numbers, so that an instance chooses the
prefix.

A request passes `PsOpen`, then `PsValidateSid`, `PsCreateSid` or `PsRead`, then one
of `LockGranted`, `LockRefused`, `LockUnsent` per attempt, `Fetch`, and ends by
`write_allowed` and `PsWrite`, `PsUpdateTimestamp`, or `PsDestroy` and `DestroyData`,
and `PsClose`. Each is one command at the server. `redis_simple_cmd` is what the
network may do with it: answered, executed with the answer lost, or never sent.

### RedisSock

`client[c]` is the `RedisSock` of object `c`, `conn[i]` the server's end of stream
`i`, `pool` and `nb_active` the `ConnectionPool`. A PHP method is one step, since no
other object of the process runs during it; in it the operators named after
`redis_sock_server_open`, `redis_sock_check_liveness`, `redis_check_eof`,
`redis_sock_disconnect` and the rest act on a *world*, the record of all variables,
and return the set of worlds that may result (`redis_sock_disconnect` the one). `Serve` is the server's side of the connection. The record `ghost` is history, by object: a block
was `torn` by a lost connection, replies were left `unread`, a reply of another
command was read (`mixed`), a SELECT ran in the MULTI of a pipeline (`blind`), an
EXEC went through (`unguarded`) or failed (`spurious`) against what the program
believes is watched; `drift` counts streams taken off `nb_active` twice.

### RedisCommands

A builder is an operator whose parameters are the facts its branches look at, and
whose value is `Refused` or a record of the declared argument count, the appended
tokens and the slot, each by the expression the code has for it. A state is the
last command built; every choice of arguments is a step. Where `redis_sort_cmd` hashes a
key it has freed (`redis_commands.c:3653-3656`) the slot is any of those there are
(`SlotLeft`).

### RedisReplies

A reader maps the tokens on the stream to those it leaves. `Exchange` pairs the
forms of reply the server has for a command with the method's reader, for Redis
objects, for RedisCluster and for the EXEC of RedisCluster. A state has up to two
commands sent whose replies wait on the wire; `ReadNext` runs one reader.

### RedisCluster

`cluster` is the truth (who serves and imports each slot, who is up), `obj` what the
object believes (its slot map, nodes and replicas, mode, queue), `sock` and `conn`
the two ends of each node's connection, `call` the method that is running, `cache`
the slot map kept for the next object. `Process` is `cluster_process_cmd` up to the
choice of a node; `Send` and `Receive` are the two halves of the loop of
`cluster_send_command`, so that slots move, nodes fail and answers come late in
between; `exec` and `discard` walk the nodes of the queue one by one, `Directed` are
the commands for a named node. A MOVED to a node the map does not know, for a slot
whose master has no replicas, ends the process (`Die`): `cluster_update_slot` walks a
table that is NULL (`cluster_library.c:1407`; `slaves` is allocated with the first replica).
`note` is history: how often each command was executed, whether a reply was `swapped`,
which connections are `late` or `torn`.

### Exceptions the code has

Properties of the client hold except in cases the modules name, most of which are
things a maintainer would mend. A property says nothing about a case it exempts: no
hazard of `PROJECT.json` counts as covered by it there.

| Name | In | The cases |
| --- | --- | --- |
| `Misframed` | `RedisCommands` | `WellFramed` fails for SCAN with a negative count (`redis_commands.c:577`, `redis.c:2686`), SCRIPT KILL and SCRIPT LOAD with surplus arguments (`redis_commands.c:161`), HSET from an array with unnamed elements (:3413), GEOSEARCH by a box of a wrong size (:4365), CLIENT UNPAUSE (:4963), CLIENT TRACKING with one prefix as a string (:4874), XPENDING with IDLE (:5299), XAUTOCLAIM with COUNT (:5725), and the sort methods with an empty pattern or several GETs (`redis.c:1212`) |
| `SlotZero`, `Unrouted` | `RedisCommands` | `RoutedTogether` fails for ZDIFF, ZINTER and ZUNION with keys in slot 0 (`redis_commands.c:1151`), SORT with options under a prefix (:3653), EVAL with arguments and no keys, XGROUP HELP and XINFO HELP, which leave the slot unassigned |
| `Abandons` | `RedisReplies` | `InStep` fails for the replies listed there, each with its reason |
| `Astray`, `Stuck` | `RedisCluster` | without a timeout a read with replicas enabled, or any command to a socket that has failed, may go round for ever |
| `note.late` | `RedisCluster` | connections kept although a reply was late or not of the type wanted: `cluster_send_direct` (`cluster_library.c:261`) keeps them for READONLY, ASKING, MULTI and DISCARD, `cluster_send_slot` (:1521) for UNWATCH, EXEC and every command to a named node, inside a block or not |
| `note.torn` | `RedisCluster` | connections of a block in which a command, an EXEC or a connection failed |
| `KeyServer(s) # Server(s)`, `moved` | `RedisSession` | sessions whose release goes to a server without the lock |
| `ghost.*` | `RedisSock` | as described above: each object in a set is one that did, or whose stream suffered, what the set is named for |

## 3. How a step is chosen, and what is abstracted

A step is one statement another process can observe: a read or write of the
database, or one call of KRA. What lies between two such statements is local and
part of the step. A call of KRA is one step that chooses the answer, what KRA did,
and whether the message is still under way.

Messages are pairs (transaction, number); a sale is what the unique index of
`transactions` identifies. XML fields, amounts, receipt numbers, QR codes and log
lines are left out: no property looks at them. `journal_error_message` is
reduced to whether it is set and whether the message fits its 255 characters.
In journaling KRA's record is a set, so a message sent twice is in it once; in
`KraSubmissions`, where a repetition is not harmless, it is a count.

For Redis a step is a command at the server (`RedisSession`), a method
(`RedisSock`), or half an exchange (`RedisCluster`), for the reasons given in
section 2. Keys, values, options and scores are left out: a command is a member of
a small set with the effects on the connection that matter (SELECT, WATCH, MULTI,
one that is refused, any other), or, in the two pure modules, a count of tokens.
Serialisation, compression, authentication and the PHP values built from replies
are left out; delays between retries only lengthen a step.

## 4. Runs

| Run | Instance | Shows |
| --- | --- | --- |
| `MCKraJournalingOverlap` | the repository's times (90/300), 2 workers, `$tries` 3, one sale of 2 items | types; COMPLETED means journaled; KRA's record has no gaps; `handle` starts at most 2^tries - 1 times; the contract is implemented; two steps only forget the sale. 3.0 million states |
| `MCKraJournalingExclusive` | times 360/300, 2 workers, one crash | no two workers on one sale; at most `$tries` starts; the queue drains; two steps only forget the sale |
| `MCKraSales` | 4 requests, 2 sales | who was answered holds the stored signature; what is stored is signed |
| `MCGateway` | 2 requests, 2 sales of one item, 1 worker, `$tries` 2 | what KRA's central API holds was signed and stored; no job is lost; an answered sale ends COMPLETED or FAILED |
| `MCKraDevice` | 4 requests, 2 at a time, 2 PINs, 2 units | one id per unit; known units are activated |
| `MCKraSubmissions` | 4 requests for a purchase of 2 items, a movement, an item and a Z report | no item without its header; successes are real; nothing is carried out more often than it was sent |
| `MCRedisSession` | 2 workers, one session on the second of two servers, no prefix, 1 retry, 1 failure, each source of a time to live | mutual exclusion; nothing unseen overwritten; locks returned; the one window of `lock_expire`; every request ends. 113 thousand states |
| `MCRedisSock` | 2 objects, one with every method, up to 2 queued commands, limit of 1 pooled stream, 1 failure, two settings of the pool | databases, callbacks, replies, watched keys stay with their object. 2.3 million states |
| `MCRedisCommands` | 3 keys, 2 slots, a prefix, lists of up to 2 | framing, announced keys, slots of every branch of every builder. 4300 states |
| `MCRedisReplies` | every reader with every form of reply, alone or before another | exactly the reply is read. 134 thousand states |
| `MCRedisCluster` | 2 masters, 1 replica, 2 slots, 2 commands, 1 or 2 events, 3 settings of failover and timeout | own replies; at most one execution; an end. 343 thousand states |
| `MCKraJournalingDocCompleted` | 2 workers, one sale | item 1 of [section 8](#8-where-the-code-and-its-documents-disagree): TLC finds a behaviour that breaks the quoted claim |

Further configurations reproduce the other disagreements of section 8 by hand
(`tlc -config MCKraJournalingDocStatus.cfg MCKraJournaling`, and likewise for the others);
TLC ends each with a counterexample:

| Configuration | Instance | Item of section 8 |
| --- | --- | --- |
| `MCKraJournalingDocStatus`, `MCKraJournalingDocError`, `MCKraJournalingDocFailed` | 1 or 2 workers, one or two sales | 2, 3, 4 |
| `MCGatewayDocReliable` | one sale | 5 |
| `MCKraDeviceDocStatus` | 3 requests, 2 at a time, one device | 6 |
| `MCRedisSessionDocClose` | as `MCRedisSession`, with the default prefix | 8 |
| `MCRedisCommandsDocSort` | as `MCRedisCommands`, no key in slot 0 | 9 |
| `MCRedisCommandsDocZero` | as `MCRedisCommands`, no prefix | 10 |
| `MCRedisClusterDocReturns` | as `MCRedisCluster`, with a timeout and no fallback to replicas | 11 |

The types of signing are checked with the gateway's (`GatewayTypeOK`), those of
submissions are proved (`SubmissionsTypeCorrect`).

Deadlock is checked where something can always happen (`MCRedisSession`,
`MCRedisCommands`, `MCRedisReplies`) and not elsewhere: a finished instance (every request answered, the queue
empty) is a proper end. That the system does not get stuck on the way is
`QueueDrains` and `AnsweredSettles`.

What the properties say:

* `CompletedMeansJournaled` survives overlapping runs because a run writes
  COMPLETED only after it has itself seen every message accepted, and KRA forgets
  nothing. It needs KRA to answer `P` or `E`, see section 8.
* `JournalIsPrefix` survives late arrivals because a message is first sent
  after all earlier ones were accepted - by whichever run.
* `StartsBounded` counts runs. With exclusive runs `$tries` bounds them. With
  overlapping ones each run puts a job of its own back with its own count, and
  the bound is 2^tries - 1: a job reserved for the a-th time yields at most a
  successor from its run and one from its expired reservation.
* `QueueDrains` and `AnsweredSettles` are liveness: jobs leave the queue although
  killed workers leave reservations behind; an answered sale gets an outcome
  although every web process may die afterwards.
* `NoJobLost` is the safety half: a job that is gone has left an outcome. Besides
  exclusive runs it takes a database that does not refuse the message, and no
  worker that dies between deleting a failed job and calling `failed()`; its
  passing run is set up so, and `MCKraJournalingDocFailed` shows what happens
  when only the second is missing.
* `ForgottenByTwoSteps` says of any configuration how a transaction can be forgotten,
  that is, have no job, no failure callback under way, no error on record and not all
  of its messages at KRA: by the death of a worker inside that callback, and by an
  update of `failed()` whose message is too long. No overlap, retry, expiry or other
  death does it.
* `OneIdPerUnit`: the look-up and the insert are not atomic, so two
  initialisations can both find nothing; the unique index then lets one in.
* `HeaderFirst` survives retries, concurrent requests for one purchase and late
  arrivals, because a request goes on only after KRA has accepted what came before.
* `HeldBetween` bounds what KRA has done from both sides: at least once for every
  client that was told of a success, at most once for every time the message was
  sent. A client that repeats a movement or a Z report after a lost answer repeats
  it at KRA; the gateway adds no repetition of its own.
* `MutualExclusion` and `NoUnseenOverwrite` hold without a time to live although
  answers are lost, because a worker whose SET was executed unheard of counts as
  refused: it locks itself out. Neither depends on where a release goes.
* `LocksAreReturned` says when a lock is left behind: after a failure; after
  `session_create_id()` has given the request a `session_key` of another server
  (`redis_session.c:575`); or always, when `session_key` hashes to another server than
  the id. The last is the rule under the default prefix for every session that is not
  on the one server all keys hash to (`MCRedisSessionDocClose`); the promise is for a
  pool of one server and for an empty prefix.
* `OnlyLateOverwrites` describes the window of `lock_expire` exactly: the lock
  must expire between the GET of `write_allowed` and the SETEX.
* `RightDatabase`, `PoolSound`, `OwnReplies`, `WatchHolds` follow one stream through
  several objects; `CallbacksMatchQueue` relates the client's list to the server's,
  command by command and in order.
* `WellFramed`, `KeysCounted`, `RoutedTogether` compare, for each combination of
  options, numbers the code computes in different places.
* `InStep` catches a reader that takes too much or too little, by the next reply.
* `RepliesMatch` and `AtMostOnce` hold through redirections, a node that fails between
  the two halves of a command, and answers that come after their timeout, because
  such a connection is closed before it is used again.
  What the next command reads on a connection in `note.late` or `note.torn` they do not say.
* `EveryCallEnds` is the liveness of the redirection loop: a call ends with an answer, with
  an exception, or with the death of the process that `Die` stands for, unless it is `Stuck`.

Each property of a passing run has a mutant in `PROJECT.json`: an operator marked
"A mistake to catch" beside the definition it replaces, under which TLC finds
the property violated.

## 5. Bounds

* `MaxCrashes` bounds worker deaths other than the timeout. One crash at any point
  of an exclusive run is checked; timeouts, which are deaths too, are unbounded
  except by `$tries`. The overlapping run has none: there an expired reservation
  already lets a second worker in, and every point at which a worker can stop is
  reached through `KillOnTimeout`.
* `Tries` is the code's 3, except in `MCGateway` and `DocFailed` (2, which still has
  a retry and a last attempt).
* `Items`: two items and a receipt make a first, a middle and a last message.
  One item suffices where order is not the question.
* Two workers overlap in every way two runs can; a third would only add a third
  reader. The proofs cover any number.
* Requests are used once: a client's retry is another request for the same sale
  or unit. Four allow two pairs of concurrent requests, and a retry of each.
* In `MCKraSubmissions` one submission of each kind suffices, since submissions share
  nothing at KRA; four requests for them repeat a submission up to three times. Its
  `KraStatuses` has `P` and `E` only: with any other STATUS both invariants fail for
  the reason of section 8, item 2.
* `MaxOpen` bounds how many device requests are served at a time.
* `MCRedisSession`: locks of different sessions share nothing but the worker, and a
  worker serves one session at a time; two workers on one session meet in every way.
  `Retries` 1 gives a first and a last attempt, `MaxVersion` 2 a write over a
  write. Weights 1 and 2 put the session on the member that is not the head, where a
  wrong offset shows. The prefix is empty, so that `session_key` hashes as the id does and
  only a new id moves it; the default prefix is `MCRedisSessionDocClose`, where the two
  differ for the one session there is. A larger instance, with two sessions, was used to check the
  inductive invariant before it was proved.
* `MCRedisSock`: `Busy` names the object whose every method is explored; the other one
  uses the pool before and after it. `Limit` 1 makes them share one stream; two
  commands in a block (`MaxQueue`; a pipeline is given commands while it holds at most
  that many, its own MULTI and EXEC among them) show an order and tell whose reply is
  whose; one failure may come at any command. Of the `max_retries` attempts to reconnect
  (`library.c:359`) the model makes one, which succeeds or fails for all of them. The two settings are those in which the pool checks least and most.
  An object is no longer followed (`Followed`) once a reply was taken for another
  command's, an EXEC failed spuriously or a database changed unseen: what comes after
  is the program's to sort out. And once replies were left on a stream no pipeline
  begins, since single commands and MULTI blocks already meet what was left.
* `MCRedisCommands`: a list of 0, 1 and 2 elements distinguishes an empty list, the
  first and a later element. Keys in slots 0 and 1, with a prefix that moves one of
  them, tell a wrong slot and an unset one.
* `MCRedisReplies`: what a reader leaves behind is met by the next reader, so two
  commands suffice.
* `MCRedisCluster`: two commands are a command and what the next one finds;
  two events let a slot move and a node fail, or fail and come back. The three
  options cover each way a node is chosen, with and without a timeout; a timeout and
  the first two ways are met after one event, and the second event is kept for the
  third, where most paths lie. Once a
  connection is torn or late, no method is followed but those of the block it happened in.

Symmetry is used in runs without liveness properties, for sets no action tells
apart.

## 6. Fairness

* `WF(Work(w))` for every worker: no statement of a job waits for ever, since a call
  of KRA times out (`KraApi.php:95`), and a deployment that relies on the queue
  (the repository's README:82) keeps workers running on `kra_journaling`, the
  queue of the job. That a process monitor restarts workers is an assumption about
  the deployment: the repository configures none. A worker's death is not part of
  `Work`, so fairness neither helps it to die nor prevents it.
* `WF(Serve(q))` for every request in `Gateway`: PHP executes a request to its end
  unless its process dies or the database fails, both of which remain possible.
* Nothing obliges a client to send, a web process to survive until the dispatch,
  a late message to arrive, or KRA to accept anything.
* `WF(Start(w) \/ Finish(w))` in `RedisSession`: a request that has begun goes on, as
  its socket calls return with an answer or a timeout. Nothing obliges a client to
  open a session or a lock to expire, and a crash is no part of it.
* In `RedisCluster`, `WF(Step)`: the process runs, and a read ends by an answer or the
  read timeout. `SF(TimesOut)`: `c->waitms` is compared in each turn of the loop
  (`cluster_library.c:1596`); the action is enabled only between a redirection and
  the next command sent, again and again, which is why its fairness is strong: in
  the code the clock passes the limit once and stays beyond it. `WF` of `Restart` and
  `Settle`: a node that is down comes back and a migration ends, which is what the
  operator of a cluster must see to, and without which the loop has nothing to end by.

## 7. Proofs

TLAPS checks every theorem for all values of the constants: any sets of
transactions, workers and requests, any number of items, tries and crashes, any
times. The assumptions are those of the modules (`ASSUME`, evaluated by the runs)
and, where stated, that `KraStatuses` contains `P` and `E` only - without which
the property is false, see section 8.

| Theorem | Says | Module |
| --- | --- | --- |
| `TypeCorrect` | `Spec => []TypeOK` | `KraJournaling_proofs` |
| `CompletedIsJournaled` | `[]CompletedMeansJournaled` | `KraJournaling_proofs` |
| `JournalInOrder` | `[]JournalIsPrefix` | `KraJournaling_proofs` |
| `JournalingImplementsContract` | `Spec => ImplementsContract` | `KraJournaling_proofs` |
| `RunsAreExclusive` | `[]ExclusiveRuns` | `KraJournaling_proofs` |
| `StartsAreBounded` | `[]StartsBounded`, overlapping or not | `KraJournaling_proofs` |
| `TwoStepsForget` | `ForgottenByTwoSteps`, for every configuration | `KraJournaling_proofs` |
| `NoJobIsLost` | `[]NoJobLost` when runs are exclusive, messages fit their column and no worker dies between deleting a failed job and `failed()` | `KraJournaling_proofs` |
| `SalesTypeCorrect`, `StoredSalesAreSigned`, `AnsweredSalesAreStored` | the three invariants of signing | `KraSales_proofs` |
| `GatewayJournals`, `GatewaySigns` | the gateway implements each of its sides: `GatewaySpec => Spec`, `GatewaySpec => Sale!Spec` | `Gateway_proofs` |
| `GatewayTypesCorrect`, `JournaledSalesWereSigned` | `[]GatewayTypeOK`, `[]JournaledWasSigned` | `Gateway_proofs` |
| `GatewayForgetsByTwoSteps` | `ForgottenByTwoSteps` of the gateway | `Gateway_proofs` |
| `DeviceTypeCorrect`, `OneIdForAUnit`, `KnownUnitsAreActivated` | the three invariants of devices | `KraDevice_proofs` |
| `SubmissionsTypeCorrect`, `HeadersComeFirst` | `[]TypeOK` and `[]HeaderFirst` of submissions | `KraSubmissions_proofs` |
| `HoldsWhatClientsWereTold` | `[]HeldBetween` for finitely many requests | `KraSubmissions_proofs` |
| `SpecExcludes`, `SpecSeesWhatItOverwrites`, `SpecReturnsLocks`, `SpecOverwritesLate` | `[]MutualExclusion`, `[]NoUnseenOverwrite`, `[]LocksAreReturned` and the action property `OnlyLateOverwrites` of session locking | `RedisSession_proofs` |
| `EveryKeyHasOneMember`, `SessionTypeCorrect` | the pool's intervals share out all hashes and the walk down the members finds the right one; `[]TypeOK` | `RedisSession_proofs` |
| `DatabaseIsRight`, `PoolIsSound`, `CallbacksAreTheQueue`, `RepliesAreOwn`, `WatchIsKept`, `SockTypeCorrect` | `[]RightDatabase`, `[]PoolSound`, `[]CallbacksMatchQueue`, `[]OwnReplies`, `[]WatchHolds`, `[]TypeOK` of connections, pool, transactions and pipelines | `RedisSock_proofs` |
| `SockInvariant` | the invariant `SockInv` they follow from | `RedisSock_proofs` |
| `EveryCommandIsFramed`, `EveryKeyIsCounted`, `EveryKeyIsRouted` | `[]WellFramed`, `[]KeysCounted`, `[]RoutedTogether` of the command builders | `RedisCommands_proofs` |

The arguments:

* **KRA's record** (`IInv` of `KraJournaling_proofs`). `JournalIsPrefix` is not
  inductive: a late message may arrive at any time, so messages *under way* must
  have their predecessors accepted too, and so must the message a worker is
  *about to send* (`RunInv`). `CompletedMeansJournaled` needs that a worker in "sent"
  has everything accepted. All of it is stable because the record only grows;
  most actions are dealt with by one lemma (`QuietSuffices`).
* **The contract.** The new message is the contract's next one: its predecessors are
  accepted, and if a successor were, it would be accepted itself. Beyond `IInv` this
  needs that jobs, workers and late messages are about stored transactions
  (`AboutStored`).
* **Exclusive runs** (`EInv`). There is one job per transaction; it is in the table
  while a worker runs it, and it has left the table when `failed()` runs. A second
  worker would have to reserve an expired job, and without `Overlap` a job expires
  only if no worker holds it. Every start used up an attempt (`StartsCounted`).
* **Overlapping runs** (`MultiplyInv`). A job that has been reserved a times is worth
  `MostStarts[Tries - a]` runs, and a worker about to run one is worth one more. The runs
  a transaction has had and those its jobs and workers are worth never become more
  than `MostStarts[Tries]`: taking a job leaves it in the table, reserved once more, and
  makes a worker of the same worth, which is what `MostStarts` doubles for; putting one
  back only moves its worth. The sums are cardinalities of sets of pairs, one for each
  run, and a step exchanges the pairs of one job for those of another (`Exchange`).
* **No job is lost** (`LInv`, which adds `LossInv` to these). A job leaves the table
  in `DeleteJob`, when its row says COMPLETED, or in `FailJob`; and with exclusive
  runs nobody else can overwrite the outcome or hold the transaction then. What is
  left is the way from `FailJob` to `UpdateFailed`: the worker must get that far,
  hence the hypothesis `DiesOutsideCallback`, and the update must be accepted. That
  both are needed TLC shows (`MCKraJournalingDocFailed`; `MCGateway` with `MaxCrashes = 1`).
* **Two steps forget** (`FInv`, which adds `RowsInv` and `DoneInv` to `IInv`). For any
  configuration, so that several rows and workers may stand for one transaction. Rows and
  jobs of one id are of one transaction, hence a worker deletes no row but its own
  transaction's; who does so has seen everything accepted, puts another row in its place, or
  is in the failure callback. So somebody sees to a dispatched transaction (`SeenTo`:
  a row, a callback, KRA's record, an error) until one of the two steps, and no error
  is ever taken back.
* **Signing** (`IInv` of `KraSales_proofs`). What a request knows at each place on its
  way, and that a row belongs to a request that has arrived, so that a later arrival
  cannot change what it is for.
* **The gateway** (`GatewayInv`). Each action of `GatewayNext` is a step of either side
  and a stutter of the other, except the two they share: storing a row is
  `Store` and `CreateTransaction`, dispatching is `DispatchAndAnswer` and
  `DispatchJob`. So both specifications are implemented, and the invariants of the
  sides carry over. `JournaledWasSigned` then joins facts of both: what KRA holds
  is of a dispatched transaction (`JournaledWasDispatched`), which is stored
  (`AboutStored`), which by the one table both sides use (`OneTable`) has a row,
  which is signed (`RowInv` of `KraSales_proofs`).
* **Devices** (`IInv` of `KraDevice_proofs`). What each request has learnt, that no
  unit has two rows, and that rows keep unit and PIN, so that an id found by an
  earlier look-up stays right.
* **Submissions** (`IInv` of `KraSubmissions_proofs`). As for KRA's record: the
  messages before the one about to be sent, and before any that is under way, are
  held.
* **Counting** (`CountInv` of the same module). For each message, the requests that
  went on after it are no more than the times it is held, and the times it is held
  and the copies still under way are together no more than the requests that sent
  it. Neither half is inductive without the copies under way: a late arrival moves
  one from the second summand to the first.
* **Session locking** (`IInv` of `RedisSession_proofs`). Every action of a worker is
  first shown to be one of seven kinds of steps (`Waits` ... `Dies`), and the
  invariant is shown to survive each kind. Without a time to live whoever is inside a
  session has its lock (`Holding`), which gives exclusion and, with it, that nobody
  else writes what was read. Until something fails every lock belongs to a request
  that knows of it and will release it where it is, if `session_key` leads there
  (`Returning`, `Keyed`). With `lock_expire`, whoever may write still has
  the lock or the lock has lapsed, and whoever still has the lock has seen the data
  (`Checked`); a worker that lost its lock never regains it inside a session, which
  makes that inductive. For these the numbers a request counts with are left
  unbounded, and the server a session hashes to unexpanded.
* **The pool of session servers** (`EveryKeyHasOneMember`). `Offset` is a recursive
  function on numbers. Its order is by induction, in a lemma that takes the set of
  numbers for which the claim holds instead of the claim itself, since the provers
  cannot instantiate an operator. Offsets grow strictly, so the intervals between
  them are disjoint and cover `0 .. Offset[Len(Weights)] - 1`; the walk stops at the one the
  hash falls in. From this `SessionTypeCorrect` follows, with bounds on the counters
  (`BoundInv`).
* **Command builders** (`Good` of `RedisCommands_proofs`). The proof follows how a
  command is built. `Has(s, slot, n)` says that a run of tokens has n tokens, announces
  nothing and may go to that slot; appending keeps it (`HasConcat`). `Announced` says
  the same of a run with a number of keys in it. Each builder's sum for `argc` is then
  matched with what it appends, one lemma per builder. For ZDIFF and its kin, which
  take slot 0 for no slot yet, a chain over the keys shows that the slot is that of
  every key unless one is in slot 0 (`Sound`), again by induction in the form of a set.
  A proof for a builder with the wrong sum fails at its own lemma.

* **Connections** (`SockInv` of `RedisSock_proofs`). None of the five invariants of
  `RedisSock` is inductive, and they lean on each other: whether the callbacks match
  the queue depends on whether a reply was left on the stream, that on who had the
  stream before, and that on what the pool holds. `SockInv` says, for each
  object, what its notes (mode, callbacks, commands not sent yet, database, `watching`)
  have to do with the server's end of its stream (`StreamOK`), that each stream has one
  owner at most (`Owned`), that `nb_active` counts them (`Counted`), that what is pooled is
  clean unless replies were left (`PoolClean`), and that an object without a stream is
  outside any block (`Idle`). A method changes the world several times before it returns,
  and may lose its stream and take another meanwhile. So the invariant within a method
  is `Good(W, c)`, which asks everything but `Idle` of `c` itself. For each operator a lemma
  `...Is` says which worlds it may return and a lemma `...Good` that they are good; the
  actions put these together. EXEC of a pipeline runs over lists of any length: the
  object and the server's answers are functions on the numbers up to the length, and
  what holds of them is shown by induction over a set of numbers, as for the pool of
  session servers. TLC checked `SockInv` on `MCRedisSock` before it was proved. The
  theorems are for any finite set of objects, any number of streams, any limit of the pool, any number
  of failures and of queued commands, and both settings of each option; like the run
  they follow an object until it is `mixed`, `spurious` or `blind` (section 5).

Only model-checked:

* liveness (`QueueDrains`, `AnsweredSettles`, `EveryRequestEnds`, `EveryCallEnds`):
  ENABLED and fairness are out of the prover's reach;
* `InStep` of `RedisReplies`: its readers of nested replies are RECURSIVE operators,
  which leave tlapm without SMT in every module that reaches them;
* `RepliesMatch` and `AtMostOnce` of `RedisCluster`, for which the inductive invariant
  has to follow each node's connection through the loop (section 10).

## 8. Where the code and its documents disagree

TLC ends each configuration named below with a counterexample; `PROJECT.json` registers
the first as a run and quotes its lines.

1. `test_handle_already_journaled` expects a COMPLETED transaction to stay so. With 90/300
   a second run comes by itself. It loads the row, QUEUED, while the first still runs;
   the first writes COMPLETED; a command of the second fails, and its catch block
   writes FAILED over COMPLETED (`MCKraJournalingDocCompleted`).
2. `test_handle_missing_data_node` expects FAILED for an unknown STATUS;
   `sendCommand` throws for `E` only, so it ends COMPLETED
   (`MCKraJournalingDocStatus`).
3. `test_handle_retry_failed_transaction` expects no error after a successful retry;
   the message stays in the row (`MCKraJournalingDocError`).
4. `test_handle_kra_api_exception` expects FAILED after an exception. A message longer
   than the column makes both updates throw on a database that enforces lengths:
   the job is gone and the row stays QUEUED (`MCKraJournalingDocFailed`).
5. The README promises reliable background submission; a process that dies between
   insert and dispatch leaves a row PENDING for ever (`MCGatewayDocReliable`).
6. A comment says the status check updates the local status; of two overlapping
   checks the later one may leave the earlier one's (`MCKraDeviceDocStatus`).
7. phpredis' own documents: `cluster.md:96` says EXEC on a cluster always returns an
   array, even if a node's transaction failed; when EXEC cannot be sent to a node,
   `RedisCluster::exec` throws, resets its state and returns no array
   (`redis_cluster.c:2018`). In the model that is the failing branch of `NextExec`. The
   exceptions of section 2 are of the same kind, but no document speaks of them.
8. `README.md:76` of phpredis says a session's target host "is determined once and for all
   at the start of the session, and doesn't change", and
   `testSession_lockReleasedOnClose` (`tests/RedisTest.php:7355`) that closing a session
   releases its lock. `PS_CLOSE` looks the host up by the prefixed `session_key`: with
   several hosts the release of an ordinary session goes to a host without the lock,
   and nothing failed (`redis_session.c:514`; `MCRedisSessionDocClose`).
9. `cluster.md:123` says RedisCluster verifies that all keys of a command hash to one slot.
   SORT with options under a prefix hashes a key it has freed, and compares the STORE key
   with that (`redis_commands.c:3653`; `MCRedisCommandsDocSort`).
10. The same sentence, and ZDIFF, ZINTER and ZUNION, which take slot 0 for no slot yet: a
   key of slot 0 before one of another slot is let through (`redis_commands.c:1151`;
   `MCRedisCommandsDocZero`).
11. The comment on the loop of `cluster_send_command` (`cluster_library.c:1551`) names the three
   ways it ends. On MOVED to an unknown node, for a slot whose recorded master has no
   replicas, the process dies in it (:1407; `MCRedisClusterDocReturns`).

## 9. What is not modelled

* Duplicates at KRA: a retry sends items again that KRA already has. Whether KRA
  counts them twice is not in this repository.
* The queue drivers other than `database`, in particular redis, and `sync`.
* Database failures inside a worker (a failing update in `handle` behaves as any
  exception, one outside the `try` as a crash of the attempt), and PHP `\Error`s, which
  `catch (\Exception)` does not catch.
* A transaction row that is deleted while its job runs (no code deletes one).
* Simulation mode and the mock server.
* In device initialisation, the recovery from error code 41
  (`KraDeviceService.php:95-110`): it parses a JSON answer as XML, which raises an
  `ErrorException` that its `catch (Throwable)` does not match without an import, so
  the request ends in an error as after any other code. The model has the answer "41"
  and that outcome.
* The reads: purchases (two commands, so a header may be missing from the answer),
  stock, items, X and PLU reports. They change no state, here or at KRA.
* Validation arithmetic and error rendering: planned, section 10.
* Of phpredis: the session handler for clusters (`redis_session.c:841-1275`), which
  takes no locks; subscriptions, whose loop runs arbitrary PHP callbacks that may
  use the same connection; RedisArray, a ring over Redis objects that no configuration
  of the gateway uses; sentinel, backoff and CRC16; persistent connections of
  RedisCluster; scans over the nodes of a cluster; parsing of `save_path`, options,
  authentication, serialisers and compression; generated argument information.
* Authentication, views, the unused table
  `queued_kra_requests`, and `Exceptions/Handler.php`, which nothing registers.

## 10. Plan

Done, in this order: `KraApi`, `KraJournaling` with `JournalContract`, `KraSales`,
`Gateway`, `KraDevice`, `KraSubmissions`, `RedisSession`, `RedisSock`, `RedisCommands`,
`RedisReplies`, `RedisCluster`, and the proofs of section 7.

Next:

1. Composition of `KraDevice` and `KraSales`: the device is checked when a request
   arrives and asked later; a sale on a device whose status is ERROR, and the wrong
   status that two overlapping checks leave behind.
2. `SalesValidation`: the arithmetic of `withValidator`
   (`ProcessTransactionRequest.php:103-161`) in integer cents, checked against a
   reference definition over small inputs; the unknown tax label and the credit note
   with a total of zero.
3. `ErrorRendering`: `KraApiException::render` (lines 55-150) as a function, checked
   for totality, for the precedence of `kraHttpStatus`, and for an error that is
   rendered with a 2xx status (code `00`).
4. An abstract specification of `KraSubmissions`, a purchase at KRA as a header and a
   prefix of its items, and of `KraSales`, a sale that is stored at most once.
5. phpredis: the session handler for clusters, as a second implementation of a session
   store without locks; subscriptions with a callback that unsubscribes; persistent
   connections in `RedisCluster` by way of the pool of `RedisSock`.
6. Proof of `RepliesMatch` of `RedisCluster`, from the fact that a connection with
   replies nobody waits for is torn or closed, and of `AtMostOnce`.
