---------------------------- MODULE KraJournaling ----------------------------
(***************************************************************************)
(* Asynchronous journaling: app/Jobs/ProcessKraJournalingJob.php, run by   *)
(* queue workers from the `jobs` table (config/queue.php, connection       *)
(* `database`).  A job sends one SEND_RECEIPTITEM per item of its          *)
(* transaction and then one SEND_RECEIPT, and reports the outcome in the   *)
(* transaction's journal_status.                                           *)
(*                                                                         *)
(* Message i of transaction t is the pair <<t, i>>: an item for            *)
(* i <= Items[t], the closing receipt for i = Items[t] + 1.                *)
(*                                                                         *)
(* A step is one statement that another process can observe: a read or a   *)
(* write of the database, or one call of KRA.  Times are not modelled;     *)
(* whether a reservation can expire under a running job depends only on    *)
(* which of RetryAfter and Timeout is larger.                              *)
(***************************************************************************)
EXTENDS Naturals, KraApi

CONSTANTS
  Txns,        \* transactions: rows of the table `transactions`
  Items,       \* Items[t]: number of entries in t's request_payload['items']
  Workers,     \* queue worker processes
  Tries,       \* $tries of the job
  RetryAfter,  \* retry_after of the queue connection, in seconds
  Timeout,     \* $timeout of the job, in seconds
  EnforcesLength, \* whether the database refuses a value its column is too short
               \* for (MySQL does, SQLite does not)
  MaxCrashes,  \* bound: how many times worker processes die of other causes
  NoTxn        \* the transaction of a worker that holds no job

ASSUME ItemsAssumption == Items \in [Txns -> Nat]
ASSUME TriesAssumption == Tries \in Nat \ {0}
ASSUME TimesAssumption == RetryAfter \in Nat /\ Timeout \in Nat
ASSUME EnforcesLengthAssumption == EnforcesLength \in BOOLEAN
ASSUME MaxCrashesAssumption == MaxCrashes \in Nat
ASSUME NoTxnAssumption == NoTxn \notin Txns

VARIABLES
  status,      \* journal_status of each transaction, "absent" before its row
  hasError,    \* whether its journal_error_message is set
  dispatched,  \* the transactions whose job was dispatched
  queue,       \* the table `jobs`
  nextId,      \* its auto-increment counter
  pc,          \* where each worker is
  job,         \* the job record each worker holds, as it reserved it
  mem,         \* journal_status in the worker's in-memory model
  part,        \* the next message the worker sends
  tooLong,     \* whether the message of the exception a worker has in hand is
               \* too long for journal_error_message
  journal,     \* the messages KRA's central API has accepted
  late,        \* messages still under way although nobody waits for an answer
  starts,      \* how often handle() was entered for each transaction
  crashes      \* worker processes that died so far

dbVars == <<status, hasError>>
queueVars == <<dispatched, queue, nextId>>
kraVars == <<journal, late>>
localVars == <<job, mem, part, tooLong>>
workerVars == <<pc, localVars>>
vars == <<status, hasError, dispatched, queue, nextId, pc, job, mem, part,
          tooLong, journal, late, starts, crashes>>

-----------------------------------------------------------------------------

Statuses == {"absent", "PENDING", "QUEUED", "COMPLETED", "FAILED"}

\* A mistake to catch: the closing receipt is forgotten.
ItemsOnly(t) == Items[t]

\* The messages of t: its items and the closing receipt.
Parts(t) == Items[t] + 1
AllJournaled(t) == \A i \in 1..Parts(t) : <<t, i>> \in journal

Job == [id : Nat, txn : Txns \cup {NoTxn}, attempts : Nat, reserved : BOOLEAN]
NoJob == [id |-> 0, txn |-> NoTxn, attempts |-> 0, reserved |-> FALSE]

\* Mistakes to catch: reservations expire at once, or (retry_after null) never.
ExpiresAtOnce(e) == TRUE
NeverExpires(e) == FALSE

\* A reservation outlives its worker, and it also expires under a worker that
\* is still running when retry_after does not exceed the job's timeout.
Overlap == RetryAfter <= Timeout
Expired(e) == Overlap \/ \A w \in Workers : job[w] # e

\* The states of a worker inside handle(), of one whose job is over but still
\* reserved, and of one that runs the failure callback of a deleted job.
InHandle == {"loaded", "sending", "sent", "caught"}
Ending == {"done", "thrown"}
InCallback == {"failed", "failedLoaded"}
PC == {"idle", "popped", "fail"} \cup InHandle \cup Ending \cup InCallback

Init ==
  /\ status = [t \in Txns |-> "absent"]
  /\ hasError = [t \in Txns |-> FALSE]
  /\ dispatched = {}
  /\ queue = {}
  /\ nextId = 1
  /\ pc = [w \in Workers |-> "idle"]
  /\ job = [w \in Workers |-> NoJob]
  /\ mem = [w \in Workers |-> "absent"]
  /\ part = [w \in Workers |-> 0]
  /\ tooLong = [w \in Workers |-> FALSE]
  /\ journal = {}
  /\ late = {}
  /\ starts = [t \in Txns |-> 0]
  /\ crashes = 0

-----------------------------------------------------------------------------
(* The web process: the row of a transaction, then its job.                *)

\* Transaction::create(... 'journal_status' => 'PENDING').
CreateTransaction(t) ==
  /\ status[t] = "absent"
  /\ status' = [status EXCEPT ![t] = "PENDING"]
  /\ UNCHANGED <<hasError, queueVars, workerVars, kraVars, starts, crashes>>

\* Insert a job for t that was reserved n times so far.
Push(t, n, others) ==
  /\ queue' = others \cup
       {[id |-> nextId, txn |-> t, attempts |-> n, reserved |-> FALSE]}
  /\ nextId' = nextId + 1

\* ProcessKraJournalingJob::dispatch($transaction->id), outside any database
\* transaction: a web process that dies before it leaves a row without a job.
DispatchJob(t) ==
  /\ status[t] # "absent"
  /\ t \notin dispatched
  /\ dispatched' = dispatched \cup {t}
  /\ Push(t, 0, queue)
  /\ UNCHANGED <<dbVars, workerVars, kraVars, starts, crashes>>

-----------------------------------------------------------------------------
(* A queue worker.                                                         *)

Goto(w, label) == pc' = [pc EXCEPT ![w] = label]

\* The worker lets go of its job and will look for another one.
Release(w) ==
  /\ Goto(w, "idle")
  /\ job' = [job EXCEPT ![w] = NoJob]
  /\ mem' = [mem EXCEPT ![w] = "absent"]
  /\ part' = [part EXCEPT ![w] = 0]
  /\ tooLong' = [tooLong EXCEPT ![w] = FALSE]

\* The table without the row of w's job, if that row is still there.
WithoutJob(w) == {e \in queue : e.id # job[w].id}

\* Reserve a job that is available, or whose reservation has expired.
Pop(w) ==
  /\ pc[w] = "idle"
  /\ \E e \in queue :
       /\ e.reserved => Expired(e)
       /\ LET r == [id |-> e.id, txn |-> e.txn, attempts |-> e.attempts + 1,
                    reserved |-> TRUE]
          IN /\ queue' = (queue \ {e}) \cup {r}
             /\ job' = [job EXCEPT ![w] = r]
  /\ Goto(w, "popped")
  /\ UNCHANGED <<dbVars, dispatched, nextId, mem, part, tooLong, kraVars, starts,
                 crashes>>

\* A job reserved more often than $tries fails without being run.
RefuseJob(w) ==
  /\ pc[w] = "popped"
  /\ job[w].attempts > Tries
  /\ Goto(w, "fail")
  /\ UNCHANGED <<dbVars, queueVars, localVars, kraVars, starts, crashes>>

\* A mistake to catch: attempts are not compared with $tries.
FindAnyAttempt(w) ==
  /\ pc[w] = "popped"
  /\ Goto(w, "loaded")
  /\ mem' = [mem EXCEPT ![w] = status[job[w].txn]]
  /\ starts' = [starts EXCEPT ![job[w].txn] = @ + 1]
  /\ UNCHANGED <<dbVars, queueVars, job, part, tooLong, kraVars, crashes>>

\* handle() begins: Transaction::findOrFail.
FindTransaction(w) ==
  LET t == job[w].txn IN
  /\ pc[w] = "popped"
  /\ job[w].attempts <= Tries
  /\ Goto(w, "loaded")
  /\ mem' = [mem EXCEPT ![w] = status[t]]
  /\ starts' = [starts EXCEPT ![t] = @ + 1]
  /\ UNCHANGED <<dbVars, queueVars, job, part, tooLong, kraVars, crashes>>

\* update(['journal_status' => 'QUEUED']): Eloquent writes a column only when
\* it differs from the value the model was loaded with.
MarkQueued(w) ==
  LET t == job[w].txn IN
  /\ pc[w] = "loaded"
  /\ status' = IF mem[w] = "QUEUED" THEN status
               ELSE [status EXCEPT ![t] = "QUEUED"]
  /\ mem' = [mem EXCEPT ![w] = "QUEUED"]
  /\ part' = [part EXCEPT ![w] = 1]
  /\ Goto(w, "sending")
  /\ UNCHANGED <<hasError, queueVars, job, tooLong, kraVars, starts, crashes>>

\* What becomes of message m at KRA when the sender gets the given answer.  A
\* message nobody answered may also reach KRA later.
Transmit(m, reply) ==
  \/ MayBeAccepted(reply) /\ journal' = journal \cup {m} /\ UNCHANGED late
  \/ MayBeRefused(reply) /\ UNCHANGED kraVars
  \/ reply = NoReply /\ late' = late \cup {m} /\ UNCHANGED journal

\* sendReceiptItem for each item and sendReceiptJournal after the last one.
SendPart(w) ==
  LET t == job[w].txn IN
  /\ pc[w] = "sending"
  /\ \E reply \in Replies :
       /\ Transmit(<<t, part[w]>>, reply)
       /\ IF SendCommandThrows(reply)
          THEN Goto(w, "caught") /\ UNCHANGED part
          ELSE /\ Goto(w, IF part[w] = Parts(t) THEN "sent" ELSE "sending")
               /\ part' = [part EXCEPT ![w] = @ + 1]
  /\ UNCHANGED <<dbVars, queueVars, job, mem, tooLong, starts, crashes>>

\* A mistake to catch: a status the enum of the column does not have.
MarkJournaled(w) ==
  /\ pc[w] = "sent"
  /\ status' = [status EXCEPT ![job[w].txn] = "JOURNALED"]
  /\ Goto(w, "done")
  /\ UNCHANGED <<hasError, queueVars, localVars, kraVars, starts, crashes>>

\* update(['journal_status' => 'COMPLETED']); the message column is left alone.
MarkCompleted(w) ==
  /\ pc[w] = "sent"
  /\ status' = [status EXCEPT ![job[w].txn] = "COMPLETED"]
  /\ Goto(w, "done")
  /\ UNCHANGED <<hasError, queueVars, localVars, kraVars, starts, crashes>>

\* The worker deletes the job that returned normally.
DeleteJob(w) ==
  /\ pc[w] = "done"
  /\ queue' = WithoutJob(w)
  /\ Release(w)
  /\ UNCHANGED <<dbVars, dispatched, nextId, kraVars, starts, crashes>>

\* catch (\Exception): the failure is recorded and the exception thrown again.
\* If its message does not fit the column, the update throws another exception
\* instead, with a longer message, and records nothing.
MarkFailed(w) ==
  LET t == job[w].txn IN
  /\ pc[w] = "caught"
  /\ \/ /\ status' = [status EXCEPT ![t] = "FAILED"]
        /\ hasError' = [hasError EXCEPT ![t] = TRUE]
        /\ UNCHANGED tooLong
     \/ /\ EnforcesLength
        /\ tooLong' = [tooLong EXCEPT ![w] = TRUE]
        /\ UNCHANGED dbVars
  /\ Goto(w, "thrown")
  /\ UNCHANGED <<queueVars, job, mem, part, kraVars, starts, crashes>>

\* The worker meets the exception on the last attempt: the job has failed.
GiveUp(w) ==
  /\ pc[w] = "thrown"
  /\ job[w].attempts >= Tries
  /\ Goto(w, "fail")
  /\ UNCHANGED <<dbVars, queueVars, localVars, kraVars, starts, crashes>>

\* On an earlier attempt the job is put back, to be run after its backoff: the
\* row is deleted if it still exists, and a new one is inserted in any case.
PutBack(w) ==
  /\ pc[w] = "thrown"
  /\ job[w].attempts < Tries
  /\ Push(job[w].txn, job[w].attempts, WithoutJob(w))
  /\ Release(w)
  /\ UNCHANGED <<dbVars, dispatched, kraVars, starts, crashes>>

\* A mistake to catch: the job class has no failed() method.
FailJobSilently(w) ==
  /\ pc[w] = "fail"
  /\ queue' = WithoutJob(w)
  /\ Release(w)
  /\ UNCHANGED <<dbVars, dispatched, nextId, kraVars, starts, crashes>>

\* The queue deletes a failed job, then calls its failed() method.
FailJob(w) ==
  /\ pc[w] = "fail"
  /\ queue' = WithoutJob(w)
  /\ Goto(w, "failed")
  /\ UNCHANGED <<dbVars, dispatched, nextId, localVars, kraVars, starts, crashes>>

\* failed(): Transaction::find.
FindFailed(w) ==
  /\ pc[w] = "failed"
  /\ mem' = [mem EXCEPT ![w] = status[job[w].txn]]
  /\ Goto(w, "failedLoaded")
  /\ UNCHANGED <<dbVars, queueVars, job, part, tooLong, kraVars, starts, crashes>>

\* failed(): the update, which again writes changed columns only, and nothing
\* at all if the message is too long for its column.
UpdateFailed(w) ==
  LET t == job[w].txn IN
  /\ pc[w] = "failedLoaded"
  /\ IF tooLong[w]
     THEN UNCHANGED dbVars
     ELSE /\ status' = IF mem[w] = "FAILED" THEN status
                       ELSE [status EXCEPT ![t] = "FAILED"]
          /\ hasError' = [hasError EXCEPT ![t] = TRUE]
  /\ Release(w)
  /\ UNCHANGED <<queueVars, kraVars, starts, crashes>>

-----------------------------------------------------------------------------
(* What goes wrong.                                                        *)

\* A worker that stops while it waits for KRA leaves its message unanswered.
AbandonMessage(w) ==
  IF pc[w] = "sending"
  THEN Transmit(<<job[w].txn, part[w]>>, NoReply)
  ELSE UNCHANGED kraVars

\* The job ran for Timeout seconds: the worker fails it when no attempt is
\* left, and kills its own process.
KillOnTimeout(w) ==
  /\ pc[w] \in InHandle \cup Ending
  /\ AbandonMessage(w)
  /\ IF job[w].attempts >= Tries
     THEN /\ Goto(w, "fail")
          /\ tooLong' = [tooLong EXCEPT ![w] = FALSE]
          /\ UNCHANGED <<job, mem, part>>
     ELSE Release(w)
  /\ UNCHANGED <<dbVars, queueVars, starts, crashes>>

\* The worker process dies; its reservation stays until it expires.
Crash(w) ==
  /\ pc[w] # "idle"
  /\ crashes < MaxCrashes
  /\ crashes' = crashes + 1
  /\ AbandonMessage(w)
  /\ Release(w)
  /\ UNCHANGED <<dbVars, queueVars, starts>>

\* A message whose sender has given up reaches KRA after all.
LateArrival ==
  /\ \E m \in late :
       /\ journal' = journal \cup {m}
       /\ late' = late \ {m}
  /\ UNCHANGED <<dbVars, queueVars, workerVars, starts, crashes>>

-----------------------------------------------------------------------------

\* What a worker does of its own accord.
Work(w) ==
  \/ Pop(w) \/ RefuseJob(w) \/ FindTransaction(w) \/ MarkQueued(w)
  \/ SendPart(w) \/ MarkCompleted(w) \/ DeleteJob(w)
  \/ MarkFailed(w) \/ GiveUp(w) \/ PutBack(w)
  \/ FailJob(w) \/ FindFailed(w) \/ UpdateFailed(w)

JournalStep ==
  \/ \E w \in Workers : Work(w) \/ KillOnTimeout(w) \/ Crash(w)
  \/ LateArrival

Next ==
  \/ \E t \in Txns : CreateTransaction(t) \/ DispatchJob(t)
  \/ JournalStep

\* Workers are kept running by their supervisor, and every statement of a job
\* ends: a KRA call answers or times out.  Nothing obliges the web process to
\* dispatch, a message to arrive, or a worker to die.
Fairness == \A w \in Workers : WF_vars(Work(w))

Spec == Init /\ [][Next]_vars
FairSpec == Spec /\ Fairness

-----------------------------------------------------------------------------
(* Properties.                                                             *)

\* The type of every variable.
TypeOK ==
  /\ status \in [Txns -> Statuses]
  /\ hasError \in [Txns -> BOOLEAN]
  /\ dispatched \subseteq Txns
  /\ queue \subseteq [id : Nat, txn : Txns, attempts : Nat, reserved : BOOLEAN]
  /\ nextId \in Nat
  /\ pc \in [Workers -> PC]
  /\ job \in [Workers -> Job]
  /\ mem \in [Workers -> Statuses]
  /\ part \in [Workers -> Nat]
  /\ tooLong \in [Workers -> BOOLEAN]
  /\ journal \subseteq Txns \X Nat
  /\ late \subseteq Txns \X Nat
  /\ starts \in [Txns -> Nat]
  /\ crashes \in 0..MaxCrashes

\* A transaction reported COMPLETED is journaled in full: KRA has accepted
\* every item and the receipt, whichever of the overlapping, killed and
\* repeated runs of handle() wrote the status, and in whatever order.
CompletedMeansJournaled ==
  \A t \in Txns : status[t] = "COMPLETED" => AllJournaled(t)

\* KRA never holds a message of a transaction without the messages before it;
\* in particular not the receipt without all its items.  Runs that restart at
\* the first item, messages that arrive after their run died and two runs at
\* once do not break the order in which handle() sends them.
JournalIsPrefix ==
  \A m \in journal : \A k \in 1..m[2] : <<m[1], k>> \in journal

\* When the queue waits longer than the job may run, no transaction is in the
\* hands of two workers, whatever dies.
ExclusiveRuns ==
  Overlap \/ \A v, w \in Workers :
               v # w /\ job[v].txn = job[w].txn => job[v].txn = NoTxn

\* The most runs of handle() a job can lead to that may still be started n times
\* when its reservation may expire: a run, the job that run puts back, and the
\* one another worker takes from under it.  That is 2^n - 1.
MostStarts[n \in 0..Tries] == IF n = 0 THEN 0 ELSE 1 + 2 * MostStarts[n - 1]

\* How often handle() is entered for one dispatch.  $tries bounds it only when
\* runs are exclusive: otherwise each run carries its own count of attempts
\* and puts a job of its own back into the table, and the runs multiply.
StartsBounded ==
  \A t \in Txns : starts[t] <= IF Overlap THEN MostStarts[Tries] ELSE Tries

InHands(t) ==
  \/ \E e \in queue : e.txn = t
  \/ \E w \in Workers : job[w].txn = t

\* A dispatched transaction whose job has gone from the table and from every
\* worker has an outcome, even when its worker was killed in the middle of every
\* attempt.  It takes exclusive runs, columns that hold every message, and no
\* worker that dies between deleting a job and calling failed().
NoJobLost ==
  \A t \in dispatched :
    InHands(t) \/ status[t] \in {"COMPLETED", "FAILED"}

\* A transaction that nobody will see to any more: its job has no row, no failure
\* callback of it is running, and neither KRA nor the database shows an outcome.
\* (A run whose row another worker deleted may still be under way.)
Forgotten(t) ==
  /\ t \in dispatched
  /\ \A e \in queue : e.txn # t
  /\ \A w \in Workers : job[w].txn = t => pc[w] \notin InCallback
  /\ ~AllJournaled(t) /\ ~hasError[t]

\* Overlapping or not, whatever dies and however long KRA's messages are, two
\* steps only forget a transaction: the death of a worker that has deleted the
\* failed job and not yet reported it, and failed()'s update refused for the
\* length of its message (ProcessKraJournalingJob.php:230).
ForgottenByTwoSteps ==
  [][\A t \in Txns : ~Forgotten(t) /\ Forgotten(t)' =>
       \E w \in Workers :
         /\ job[w].txn = t
         /\ \/ Crash(w) /\ pc[w] \in InCallback
            \/ UpdateFailed(w) /\ tooLong[w]]_vars

\* Every dispatched job leaves the queue and its workers in the end, although
\* crashed workers keep reservations and overlapping runs put jobs back.
QueueDrains == \A t \in Txns : InHands(t) ~> []~InHands(t)

\* What a reader of journal_status may rely on: see JournalContract.
Contract == INSTANCE JournalContract
ImplementsContract == Contract!Spec

-----------------------------------------------------------------------------
(* What tests and comments of the repository say, and the code does not do. *)

\* tests/Unit/ProcessKraJournalingJobTest.php, test_handle_already_journaled:
\* a transaction that is COMPLETED and handled once more is not FAILED for that.
CompletedNeverFails ==
  [][\A t \in Txns : status[t] = "COMPLETED" => status'[t] # "FAILED"]_vars

\* test_handle_retry_failed_transaction: after a successful retry of a failed
\* transaction no error is recorded.
CompletedHasNoError ==
  \A t \in Txns : status[t] = "COMPLETED" => ~hasError[t]
=============================================================================
