------------------------ MODULE KraJournaling_proofs ------------------------
(***************************************************************************)
(* What holds of KraJournaling for every set of transactions and workers,  *)
(* any number of items, tries and crashes, and any retry_after and         *)
(* timeout: the types, KRA's record and the reported status, that the jobs *)
(* implement JournalContract, that exclusive runs are exclusive and lose   *)
(* no job, which two steps forget a transaction in any configuration, and  *)
(* how often handle() starts, overlapping or not.                          *)
(*                                                                         *)
(* Neither of the two main properties is inductive.  That a COMPLETED      *)
(* transaction is journaled depends on what the worker that wrote the      *)
(* status had sent before, and that on every message, also those still     *)
(* under way, having been sent after KRA had accepted the ones before it.  *)
(***************************************************************************)
EXTENDS KraJournaling, FiniteSetTheorems, WellFoundedInduction, TLAPS

USE DEF InHandle, Ending, InCallback, PC

-----------------------------------------------------------------------------
(* The type invariant.                                                     *)

\* Only a worker that holds a job of a transaction leaves "idle".
Holding == \A w \in Workers : pc[w] # "idle" => job[w].txn \in Txns

TypeInv == TypeOK /\ Holding

\* Items and closing receipt make at least one message.
LEMMA PartsPositive == ASSUME NEW t \in Txns PROVE Parts(t) \in Nat \ {0}
  BY ItemsAssumption DEF Parts

LEMMA InitTypeInv == Init => TypeInv
  BY MaxCrashesAssumption
     DEF Init, TypeInv, TypeOK, Holding, NoJob, Job, Statuses

LEMMA NextTypeInv == TypeInv /\ [Next]_vars => TypeInv'
<1> SUFFICES ASSUME TypeInv, [Next]_vars
             PROVE  TypeInv'
  OBVIOUS
<1> USE DEF TypeInv, TypeOK, Holding, Job
<1> DEFINE Entry == [id : Nat, txn : Txns, attempts : Nat, reserved : BOOLEAN]
           Reserved(e) == [id |-> e.id, txn |-> e.txn,
                           attempts |-> e.attempts + 1, reserved |-> TRUE]
<1>1. ASSUME NEW t \in Txns, CreateTransaction(t)
      PROVE  TypeInv'
  BY <1>1 DEF CreateTransaction, Statuses, queueVars, workerVars, localVars, kraVars
<1>2. ASSUME NEW t \in Txns, DispatchJob(t)
      PROVE  TypeInv'
  <2>1. PICK new \in Entry : queue' = queue \cup {new}
    <3>1. [id |-> nextId, txn |-> t, attempts |-> 0, reserved |-> FALSE] \in Entry
      OBVIOUS
    <3> QED
      BY <1>2, <3>1, Zenon DEF DispatchJob, Push
  <2>2. queue' \subseteq Entry /\ nextId' \in Nat /\ dispatched' \subseteq Txns
    <3>1. nextId' \in Nat /\ dispatched' \subseteq Txns
      BY <1>2 DEF DispatchJob, Push
    <3> QED
      BY <2>1, <3>1, Zenon
  <2> QED
    BY <1>2, <2>2 DEF DispatchJob, dbVars, workerVars, localVars, kraVars
<1>3. ASSUME NEW w \in Workers, Pop(w)
      PROVE  TypeInv'
  <2>1. PICK e \in queue :
          /\ queue' = (queue \ {e}) \cup {Reserved(e)}
          /\ job' = [job EXCEPT ![w] = Reserved(e)]
    BY <1>3 DEF Pop
  <2>2. Reserved(e) \in Entry
    OBVIOUS
  <2>3. queue' \subseteq Entry
    BY <2>1, <2>2
  <2>4. job' \in [Workers -> Job] /\ job'[w].txn \in Txns
    BY <2>1, <2>2
  <2> QED
    BY <1>3, <2>1, <2>3, <2>4 DEF Pop, Goto, dbVars, kraVars
<1>4. ASSUME NEW w \in Workers, RefuseJob(w)
      PROVE  TypeInv'
  BY <1>4 DEF RefuseJob, Goto, dbVars, queueVars, localVars, kraVars
<1>5. ASSUME NEW w \in Workers, FindTransaction(w)
      PROVE  TypeInv'
  BY <1>5 DEF FindTransaction, Goto, dbVars, queueVars, kraVars
<1>6. ASSUME NEW w \in Workers, MarkQueued(w)
      PROVE  TypeInv'
  BY <1>6 DEF MarkQueued, Goto, Statuses, queueVars, kraVars
<1>7. ASSUME NEW w \in Workers, SendPart(w)
      PROVE  TypeInv'
  <2>1. PICK reply \in Replies :
           /\ Transmit(<<job[w].txn, part[w]>>, reply)
           /\ IF SendCommandThrows(reply)
              THEN Goto(w, "caught") /\ UNCHANGED part
              ELSE /\ Goto(w, IF part[w] = Parts(job[w].txn) THEN "sent" ELSE "sending")
                   /\ part' = [part EXCEPT ![w] = @ + 1]
    BY <1>7 DEF SendPart
  <2>2. job[w].txn \in Txns /\ part[w] \in Nat /\ pc[w] = "sending"
    BY <1>7 DEF SendPart
  <2>3. journal' \subseteq Txns \X Nat /\ late' \subseteq Txns \X Nat
    BY <2>1, <2>2 DEF Transmit, kraVars
  <2>4. /\ pc' \in [Workers -> PC] /\ part' \in [Workers -> Nat]
        /\ \A v \in Workers : pc'[v] # "idle" => pc[v] # "idle"
    BY <2>1, <2>2 DEF Goto
  <2>5. UNCHANGED <<dbVars, queueVars, job, mem, tooLong, starts, crashes>>
    BY <1>7 DEF SendPart
  <2> QED
    BY <2>3, <2>4, <2>5 DEF dbVars, queueVars
<1>8. ASSUME NEW w \in Workers, MarkCompleted(w)
      PROVE  TypeInv'
  BY <1>8 DEF MarkCompleted, Goto, Statuses, queueVars, localVars, kraVars
<1>9. ASSUME NEW w \in Workers, DeleteJob(w)
      PROVE  TypeInv'
  BY <1>9 DEF DeleteJob, WithoutJob, Release, Goto, NoJob, Statuses, dbVars, kraVars
<1>10. ASSUME NEW w \in Workers, MarkFailed(w)
       PROVE  TypeInv'
  BY <1>10 DEF MarkFailed, Goto, Statuses, dbVars, queueVars, kraVars
<1>11. ASSUME NEW w \in Workers, GiveUp(w)
       PROVE  TypeInv'
  BY <1>11 DEF GiveUp, Goto, dbVars, queueVars, localVars, kraVars
<1>12. ASSUME NEW w \in Workers, PutBack(w)
       PROVE  TypeInv'
  <2>1. [id |-> nextId, txn |-> job[w].txn, attempts |-> job[w].attempts,
         reserved |-> FALSE] \in Entry
    BY <1>12 DEF PutBack
  <2>2. nextId' \in Nat
    BY <1>12 DEF PutBack, Push
  <2>3. PICK new \in Entry : queue' = WithoutJob(w) \cup {new}
    BY <1>12, <2>1, Zenon DEF PutBack, Push
  <2>4. queue' \subseteq Entry
    BY <2>3, Zenon DEF WithoutJob
  <2> QED
    BY <1>12, <2>2, <2>4 DEF PutBack, Release, Goto, NoJob, Statuses, dbVars, kraVars
<1>13. ASSUME NEW w \in Workers, FailJob(w)
       PROVE  TypeInv'
  BY <1>13 DEF FailJob, WithoutJob, Goto, dbVars, localVars, kraVars
<1>14. ASSUME NEW w \in Workers, FindFailed(w)
       PROVE  TypeInv'
  BY <1>14 DEF FindFailed, Goto, dbVars, queueVars, kraVars
<1>15. ASSUME NEW w \in Workers, UpdateFailed(w)
       PROVE  TypeInv'
  BY <1>15 DEF UpdateFailed, Release, Goto, NoJob, Statuses, dbVars, queueVars, kraVars
<1>16. ASSUME NEW w \in Workers, KillOnTimeout(w)
       PROVE  TypeInv'
  <2>1. journal' \subseteq Txns \X Nat /\ late' \subseteq Txns \X Nat
    BY <1>16 DEF KillOnTimeout, AbandonMessage, Transmit, kraVars
  <2>2. CASE job[w].attempts >= Tries
    <3>1. /\ pc' = [pc EXCEPT ![w] = "fail"]
          /\ tooLong' = [tooLong EXCEPT ![w] = FALSE]
          /\ pc[w] # "idle"
          /\ UNCHANGED <<dbVars, queueVars, job, mem, part, starts, crashes>>
      BY <1>16, <2>2 DEF KillOnTimeout, Goto
    <3> QED
      BY <2>1, <3>1 DEF dbVars, queueVars
  <2>3. CASE ~(job[w].attempts >= Tries)
    <3>1. Release(w) /\ UNCHANGED <<dbVars, queueVars, starts, crashes>>
      BY <1>16, <2>3 DEF KillOnTimeout
    <3> QED
      BY <2>1, <3>1 DEF Release, Goto, NoJob, Statuses, dbVars, queueVars
  <2> QED
    BY <2>2, <2>3
<1>17. ASSUME NEW w \in Workers, Crash(w)
       PROVE  TypeInv'
  BY <1>17, MaxCrashesAssumption
     DEF Crash, AbandonMessage, Transmit, Release, Goto, NoJob, Statuses, dbVars,
         queueVars, kraVars
<1>18. ASSUME LateArrival
       PROVE  TypeInv'
  BY <1>18 DEF LateArrival, dbVars, queueVars, workerVars, localVars
<1>19. ASSUME UNCHANGED vars
       PROVE  TypeInv'
  BY <1>19 DEF vars
<1> QED
  BY <1>1, <1>2, <1>3, <1>4, <1>5, <1>6, <1>7, <1>8, <1>9, <1>10, <1>11, <1>12,
     <1>13, <1>14, <1>15, <1>16, <1>17, <1>18, <1>19 DEF Next, JournalStep, Work

\* The variables keep their types, whatever the workers do to each other.
THEOREM TypeCorrect == Spec => []TypeOK
<1>1. Init => TypeInv
  BY InitTypeInv
<1>2. TypeInv /\ [Next]_vars => TypeInv'
  BY NextTypeInv
<1>3. TypeInv => TypeOK
  BY DEF TypeInv
<1> QED
  BY <1>1, <1>2, <1>3, PTL DEF Spec

-----------------------------------------------------------------------------
(* KRA's record and the reported status.                                   *)

\* Every message KRA may hold belongs to a transaction, after all the messages
\* before it, and is none but an item or the receipt.
Behind(m) == m[2] \in 1..Parts(m[1]) /\ \A k \in 1..(m[2] - 1) : <<m[1], k>> \in journal

\* What a worker has seen accepted by the time it sends a message, and before
\* it reports COMPLETED.
RunInv(w) ==
  /\ pc[w] = "sending" => Behind(<<job[w].txn, part[w]>>)
  /\ pc[w] = "sent" => AllJournaled(job[w].txn)

IInv ==
  /\ TypeInv
  /\ \A m \in journal \cup late : Behind(m)
  /\ \A w \in Workers : RunInv(w)
  /\ CompletedMeansJournaled

\* What a step leaves alone: KRA's record only grows, and by messages that are
\* behind others; a worker stays where it sends; nothing becomes COMPLETED.
Grows ==
  /\ journal \subseteq journal'
  /\ \A m \in journal' \cup late' : m \in journal \cup late \/ Behind(m)
Keeps(w) ==
  pc'[w] \in {"sending", "sent"} =>
    pc'[w] = pc[w] /\ job'[w] = job[w] /\ part'[w] = part[w]
CompletesNothing ==
  \A t \in Txns : status'[t] = "COMPLETED" => status[t] = "COMPLETED"

\* What was behind others, or journaled in full, remains so.
LEMMA BehindStays ==
  ASSUME journal \subseteq journal', NEW m, Behind(m)
  PROVE  Behind(m)'
  BY DEF Behind

LEMMA JournaledStays ==
  ASSUME journal \subseteq journal', NEW t, AllJournaled(t)
  PROVE  AllJournaled(t)'
  BY DEF AllJournaled

LEMMA GrowsSuffices ==
  ASSUME Grows, \A m \in journal \cup late : Behind(m)
  PROVE  (\A m \in journal \cup late : Behind(m))'
<1>1. \A m \in journal' \cup late' : Behind(m)
  BY DEF Grows
<1> QED
  BY <1>1, BehindStays DEF Grows

LEMMA KeepsSuffices ==
  ASSUME journal \subseteq journal', NEW w \in Workers, Keeps(w), RunInv(w)
  PROVE  RunInv(w)'
<1>1. ASSUME pc'[w] = "sending"
      PROVE  Behind(<<job[w].txn, part[w]>>)' /\ job'[w] = job[w] /\ part'[w] = part[w]
  <2>1. pc[w] = "sending" /\ job'[w] = job[w] /\ part'[w] = part[w]
    BY <1>1 DEF Keeps
  <2>2. Behind(<<job[w].txn, part[w]>>)
    BY <2>1 DEF RunInv
  <2> QED
    BY <2>1, <2>2 DEF Behind
<1>2. ASSUME pc'[w] = "sent"
      PROVE  AllJournaled(job[w].txn)'
  <2>1. pc[w] = "sent" /\ job'[w] = job[w]
    BY <1>2 DEF Keeps
  <2>2. AllJournaled(job[w].txn)
    BY <2>1 DEF RunInv
  <2> QED
    BY <2>1, <2>2 DEF AllJournaled
<1> QED
  BY <1>1, <1>2 DEF RunInv

LEMMA CompletesNothingSuffices ==
  ASSUME journal \subseteq journal', CompletesNothing, CompletedMeansJournaled
  PROVE  CompletedMeansJournaled'
  BY DEF CompletesNothing, CompletedMeansJournaled, AllJournaled

\* Sending, or giving up on an answer, adds at most the message under way.
LEMMA TransmitGrows ==
  ASSUME IInv, NEW w \in Workers, pc[w] = "sending", NEW reply,
         Transmit(<<job[w].txn, part[w]>>, reply)
  PROVE  Grows
<1>1. Behind(<<job[w].txn, part[w]>>)
  BY DEF IInv, RunInv
<1> QED
  BY <1>1 DEF Grows, Transmit, kraVars

LEMMA AbandonGrows ==
  ASSUME IInv, NEW w \in Workers, AbandonMessage(w)
  PROVE  Grows
<1>1. CASE pc[w] = "sending"
  BY <1>1, TransmitGrows DEF AbandonMessage
<1>2. CASE pc[w] # "sending"
  BY <1>2 DEF AbandonMessage, Grows, kraVars
<1> QED
  BY <1>1, <1>2

LEMMA InitIInv == Init => IInv
  BY InitTypeInv
     DEF Init, IInv, RunInv, CompletedMeansJournaled

\* A step that sends nothing and reports nothing COMPLETED keeps the invariant.
LEMMA QuietSuffices ==
  ASSUME IInv, TypeInv', Grows, \A w \in Workers : Keeps(w), CompletesNothing
  PROVE  IInv'
<1>1. journal \subseteq journal'
  BY DEF Grows
<1>2. (\A m \in journal \cup late : Behind(m))'
  BY GrowsSuffices DEF IInv
<1>3. \A w \in Workers : RunInv(w)'
  BY <1>1, KeepsSuffices DEF IInv
<1>4. CompletedMeansJournaled'
  BY <1>1, CompletesNothingSuffices DEF IInv
<1> QED
  BY <1>2, <1>3, <1>4 DEF IInv

\* The first message is behind none; a worker that has its transaction QUEUED
\* starts there.
LEMMA MarkQueuedIInv ==
  ASSUME IInv, TypeInv', NEW w \in Workers, MarkQueued(w)
  PROVE  IInv'
<1>1. Grows /\ CompletesNothing
  BY DEF MarkQueued, Grows, CompletesNothing, kraVars, IInv, TypeInv, TypeOK
<1>2. \A v \in Workers : RunInv(v)'
  <2>1. RunInv(w)'
    <3>1. job[w].txn \in Txns /\ job' = job
      BY DEF MarkQueued, IInv, TypeInv, Holding
    <3>2. pc'[w] = "sending" /\ part'[w] = 1
      BY DEF MarkQueued, Goto, IInv, TypeInv, TypeOK
    <3>3. Behind(<<job[w].txn, 1>>)'
      BY <3>1, PartsPositive DEF Behind
    <3> QED
      BY <3>1, <3>2, <3>3 DEF RunInv, Behind
  <2>2. ASSUME NEW v \in Workers, v # w
        PROVE  RunInv(v)'
    <3>1. Keeps(v)
      BY <2>2 DEF MarkQueued, Goto, Keeps, IInv, TypeInv, TypeOK
    <3> QED
      BY <1>1, <3>1, KeepsSuffices DEF Grows, IInv
  <2> QED
    BY <2>1, <2>2
<1> QED
  BY <1>1, <1>2, GrowsSuffices, CompletesNothingSuffices DEF Grows, IInv

\* An answer that does not raise an exception is KRA's acceptance, so the next
\* message is behind the one just sent, and nothing is missing after the last.
LEMMA SendPartIInv ==
  ASSUME KraStatuses \subseteq {"P", "E"},
         IInv, TypeInv', NEW w \in Workers, SendPart(w)
  PROVE  IInv'
<1> DEFINE t == job[w].txn
<1>1. PICK reply \in Replies :
        /\ Transmit(<<t, part[w]>>, reply)
        /\ IF SendCommandThrows(reply)
           THEN Goto(w, "caught") /\ UNCHANGED part
           ELSE /\ Goto(w, IF part[w] = Parts(t) THEN "sent" ELSE "sending")
                /\ part' = [part EXCEPT ![w] = @ + 1]
  BY DEF SendPart
<1>2. pc[w] = "sending" /\ Behind(<<t, part[w]>>) /\ t \in Txns
  BY DEF SendPart, IInv, RunInv, TypeInv, Holding
<1>3. Grows
  BY <1>1, <1>2, TransmitGrows
<1>4. CompletesNothing
  BY DEF SendPart, CompletesNothing, dbVars
<1>5. \A v \in Workers : RunInv(v)'
  <2>1. ASSUME NEW v \in Workers, v # w
        PROVE  RunInv(v)'
    <3>1. Keeps(v)
      BY <1>1, <2>1 DEF SendPart, Goto, Keeps, IInv, TypeInv, TypeOK
    <3> QED
      BY <1>3, <3>1, KeepsSuffices DEF Grows, IInv
  <2>2. CASE SendCommandThrows(reply)
    <3>1. pc'[w] = "caught"
      BY <1>1, <2>2 DEF Goto, IInv, TypeInv, TypeOK
    <3>2. RunInv(w)'
      BY <3>1 DEF RunInv
    <3> QED
      BY <2>1, <3>2
  <2>3. CASE ~SendCommandThrows(reply)
    <3>1. reply = "P"
      BY <2>3 DEF Replies, SendCommandThrows
    <3>2. journal' = journal \cup {<<t, part[w]>>}
      BY <1>1, <3>1 DEF Transmit, MayBeRefused, NoReply
    <3>3. part[w] \in 1..Parts(t) /\ Parts(t) \in Nat /\ job' = job
      BY <1>2, PartsPositive DEF Behind, SendPart
    <3>4. \A k \in 1..part[w] : <<t, k>> \in journal'
      BY <1>2, <3>2, <3>3 DEF Behind
    <3>5. part'[w] = part[w] + 1
      BY <1>1, <2>3 DEF IInv, TypeInv, TypeOK
    <3>6. CASE part[w] = Parts(t)
      <4>1. pc'[w] = "sent"
        BY <1>1, <2>3, <3>6 DEF Goto, IInv, TypeInv, TypeOK
      <4>2. AllJournaled(t)'
        BY <3>3, <3>4, <3>6 DEF AllJournaled
      <4>3. RunInv(w)'
        BY <4>1, <4>2 DEF RunInv
      <4> QED
        BY <2>1, <4>3
    <3>7. CASE part[w] # Parts(t)
      <4>1. pc'[w] = "sending"
        BY <1>1, <2>3, <3>7 DEF Goto, IInv, TypeInv, TypeOK
      <4>2. Behind(<<t, part[w]>>)'
        BY <3>3, <3>4, <3>5, <3>7 DEF Behind
      <4>3. RunInv(w)'
        BY <4>1, <4>2 DEF RunInv
      <4> QED
        BY <2>1, <4>3
    <3> QED
      BY <3>6, <3>7
  <2> QED
    BY <2>2, <2>3
<1> QED
  BY <1>3, <1>4, <1>5, GrowsSuffices, CompletesNothingSuffices DEF Grows, IInv

\* COMPLETED is written by a worker that has seen every message accepted.
LEMMA MarkCompletedIInv ==
  ASSUME IInv, TypeInv', NEW w \in Workers, MarkCompleted(w)
  PROVE  IInv'
<1>1. Grows
  BY DEF MarkCompleted, Grows, kraVars
<1>2. \A v \in Workers : Keeps(v)
  BY DEF MarkCompleted, Goto, Keeps, localVars, IInv, TypeInv, TypeOK
<1>3. \A v \in Workers : RunInv(v)'
  BY <1>1, <1>2, KeepsSuffices DEF Grows, IInv
<1>4. AllJournaled(job[w].txn)
  BY DEF MarkCompleted, IInv, RunInv
<1>5. CompletedMeansJournaled'
  <2> SUFFICES ASSUME NEW t \in Txns, status'[t] = "COMPLETED"
               PROVE  AllJournaled(t)'
    BY DEF CompletedMeansJournaled
  <2>1. status[t] = "COMPLETED" \/ t = job[w].txn
    BY DEF MarkCompleted, IInv, TypeInv, TypeOK
  <2>2. AllJournaled(t)
    BY <1>4, <2>1 DEF IInv, CompletedMeansJournaled
  <2> QED
    BY <1>1, <2>2, JournaledStays DEF Grows
<1> QED
  BY <1>1, <1>3, <1>5, GrowsSuffices DEF IInv

LEMMA NextIInv ==
  ASSUME KraStatuses \subseteq {"P", "E"}
  PROVE  IInv /\ [Next]_vars => IInv'
<1> SUFFICES ASSUME IInv, [Next]_vars
             PROVE  IInv'
  OBVIOUS
<1>0. TypeInv'
  BY NextTypeInv DEF IInv
<1>1. ASSUME NEW t \in Txns, CreateTransaction(t)
      PROVE  IInv'
  <2>1. Grows
    BY <1>1 DEF CreateTransaction, Grows, kraVars
  <2>2. CompletesNothing /\ \A v \in Workers : Keeps(v)
    BY <1>1 DEF CreateTransaction, workerVars, localVars, CompletesNothing, Keeps, IInv, TypeInv, TypeOK
  <2> QED
    BY <1>0, <2>1, <2>2, QuietSuffices
<1>2. ASSUME NEW t \in Txns, DispatchJob(t)
      PROVE  IInv'
  <2>1. Grows
    BY <1>2 DEF DispatchJob, Grows, kraVars
  <2>2. CompletesNothing /\ \A v \in Workers : Keeps(v)
    BY <1>2 DEF DispatchJob, dbVars, workerVars, localVars, CompletesNothing, Keeps, IInv, TypeInv, TypeOK
  <2> QED
    BY <1>0, <2>1, <2>2, QuietSuffices
<1>3. ASSUME NEW w \in Workers, Pop(w)
      PROVE  IInv'
  <2>1. Grows
    BY <1>3 DEF Pop, Grows, kraVars
  <2>2. CompletesNothing /\ \A v \in Workers : Keeps(v)
    BY <1>3 DEF Pop, Goto, dbVars, CompletesNothing, Keeps, IInv, TypeInv, TypeOK
  <2> QED
    BY <1>0, <2>1, <2>2, QuietSuffices
<1>4. ASSUME NEW w \in Workers, RefuseJob(w)
      PROVE  IInv'
  <2>1. Grows
    BY <1>4 DEF RefuseJob, Grows, kraVars
  <2>2. CompletesNothing /\ \A v \in Workers : Keeps(v)
    BY <1>4 DEF RefuseJob, Goto, dbVars, localVars, CompletesNothing, Keeps, IInv, TypeInv, TypeOK
  <2> QED
    BY <1>0, <2>1, <2>2, QuietSuffices
<1>5. ASSUME NEW w \in Workers, FindTransaction(w)
      PROVE  IInv'
  <2>1. Grows
    BY <1>5 DEF FindTransaction, Grows, kraVars
  <2>2. CompletesNothing /\ \A v \in Workers : Keeps(v)
    BY <1>5 DEF FindTransaction, Goto, dbVars, CompletesNothing, Keeps, IInv, TypeInv, TypeOK
  <2> QED
    BY <1>0, <2>1, <2>2, QuietSuffices
<1>6. ASSUME NEW w \in Workers, DeleteJob(w)
      PROVE  IInv'
  <2>1. Grows
    BY <1>6 DEF DeleteJob, Grows, kraVars
  <2>2. CompletesNothing /\ \A v \in Workers : Keeps(v)
    BY <1>6 DEF DeleteJob, Release, Goto, dbVars, CompletesNothing, Keeps, IInv, TypeInv, TypeOK
  <2> QED
    BY <1>0, <2>1, <2>2, QuietSuffices
<1>7. ASSUME NEW w \in Workers, MarkFailed(w)
      PROVE  IInv'
  <2>1. Grows
    BY <1>7 DEF MarkFailed, Grows, kraVars
  <2>2. CompletesNothing /\ \A v \in Workers : Keeps(v)
    BY <1>7 DEF MarkFailed, Goto, dbVars, CompletesNothing, Keeps, IInv, TypeInv, TypeOK
  <2> QED
    BY <1>0, <2>1, <2>2, QuietSuffices
<1>8. ASSUME NEW w \in Workers, GiveUp(w)
      PROVE  IInv'
  <2>1. Grows
    BY <1>8 DEF GiveUp, Grows, kraVars
  <2>2. CompletesNothing /\ \A v \in Workers : Keeps(v)
    BY <1>8 DEF GiveUp, Goto, dbVars, localVars, CompletesNothing, Keeps, IInv, TypeInv, TypeOK
  <2> QED
    BY <1>0, <2>1, <2>2, QuietSuffices
<1>9. ASSUME NEW w \in Workers, PutBack(w)
      PROVE  IInv'
  <2>1. Grows
    BY <1>9 DEF PutBack, Grows, kraVars
  <2>2. CompletesNothing /\ \A v \in Workers : Keeps(v)
    BY <1>9 DEF PutBack, Release, Goto, dbVars, CompletesNothing, Keeps, IInv, TypeInv, TypeOK
  <2> QED
    BY <1>0, <2>1, <2>2, QuietSuffices
<1>10. ASSUME NEW w \in Workers, FailJob(w)
       PROVE  IInv'
  <2>1. Grows
    BY <1>10 DEF FailJob, Grows, kraVars
  <2>2. CompletesNothing /\ \A v \in Workers : Keeps(v)
    BY <1>10 DEF FailJob, Goto, dbVars, localVars, CompletesNothing, Keeps, IInv, TypeInv, TypeOK
  <2> QED
    BY <1>0, <2>1, <2>2, QuietSuffices
<1>11. ASSUME NEW w \in Workers, FindFailed(w)
       PROVE  IInv'
  <2>1. Grows
    BY <1>11 DEF FindFailed, Grows, kraVars
  <2>2. CompletesNothing /\ \A v \in Workers : Keeps(v)
    BY <1>11 DEF FindFailed, Goto, dbVars, CompletesNothing, Keeps, IInv, TypeInv, TypeOK
  <2> QED
    BY <1>0, <2>1, <2>2, QuietSuffices
<1>12. ASSUME NEW w \in Workers, UpdateFailed(w)
       PROVE  IInv'
  <2>1. Grows
    BY <1>12 DEF UpdateFailed, Grows, kraVars
  <2>2. CompletesNothing /\ \A v \in Workers : Keeps(v)
    BY <1>12 DEF UpdateFailed, Release, Goto, dbVars, CompletesNothing, Keeps, IInv, TypeInv, TypeOK
  <2> QED
    BY <1>0, <2>1, <2>2, QuietSuffices
<1>13. ASSUME NEW w \in Workers, KillOnTimeout(w)
       PROVE  IInv'
  <2>1. Grows
    BY <1>13, AbandonGrows DEF KillOnTimeout
  <2>2. CompletesNothing /\ \A v \in Workers : Keeps(v)
    BY <1>13 DEF KillOnTimeout, Release, Goto, dbVars, CompletesNothing, Keeps, IInv, TypeInv, TypeOK
  <2> QED
    BY <1>0, <2>1, <2>2, QuietSuffices
<1>14. ASSUME NEW w \in Workers, Crash(w)
       PROVE  IInv'
  <2>1. Grows
    BY <1>14, AbandonGrows DEF Crash
  <2>2. CompletesNothing /\ \A v \in Workers : Keeps(v)
    BY <1>14 DEF Crash, Release, Goto, dbVars, CompletesNothing, Keeps, IInv, TypeInv, TypeOK
  <2> QED
    BY <1>0, <2>1, <2>2, QuietSuffices
<1>15. ASSUME NEW w \in Workers, MarkQueued(w)
       PROVE  IInv'
  BY <1>0, <1>15, MarkQueuedIInv
<1>16. ASSUME NEW w \in Workers, SendPart(w)
       PROVE  IInv'
  BY <1>0, <1>16, SendPartIInv
<1>17. ASSUME NEW w \in Workers, MarkCompleted(w)
       PROVE  IInv'
  BY <1>0, <1>17, MarkCompletedIInv
<1>18. ASSUME LateArrival
       PROVE  IInv'
  <2>1. Grows
    BY <1>18 DEF LateArrival, Grows
  <2>2. CompletesNothing /\ \A v \in Workers : Keeps(v)
    BY <1>18 DEF LateArrival, CompletesNothing, Keeps, dbVars, workerVars, localVars
  <2> QED
    BY <1>0, <2>1, <2>2, QuietSuffices
<1>19. ASSUME UNCHANGED vars
       PROVE  IInv'
  <2>1. Grows /\ CompletesNothing /\ \A v \in Workers : Keeps(v)
    BY <1>19 DEF vars, Grows, CompletesNothing, Keeps
  <2> QED
    BY <1>0, <2>1, QuietSuffices
<1> QED
  BY <1>1, <1>2, <1>3, <1>4, <1>5, <1>6, <1>7, <1>8, <1>9, <1>10, <1>11,
     <1>12, <1>13, <1>14, <1>15, <1>16, <1>17, <1>18, <1>19 DEF Next,
     JournalStep, Work

\* COMPLETED means that KRA has accepted every message of the transaction, for
\* any number of workers, items, tries, crashes and late arrivals, and also
\* when runs of one job overlap, as long as KRA answers P or E.
THEOREM CompletedIsJournaled ==
  ASSUME KraStatuses \subseteq {"P", "E"}
  PROVE  Spec => []CompletedMeansJournaled
<1>1. Init => IInv
  BY InitIInv
<1>2. IInv /\ [Next]_vars => IInv'
  BY NextIInv
<1>3. IInv => CompletedMeansJournaled
  BY DEF IInv
<1> QED
  BY <1>1, <1>2, <1>3, PTL DEF Spec

\* KRA never holds a message without the ones before it, under the same
\* conditions.
THEOREM JournalInOrder ==
  ASSUME KraStatuses \subseteq {"P", "E"}
  PROVE  Spec => []JournalIsPrefix
<1>1. Init => IInv
  BY InitIInv
<1>2. IInv /\ [Next]_vars => IInv'
  BY NextIInv
<1>3. IInv => JournalIsPrefix
  <2> SUFFICES ASSUME IInv, NEW m \in journal, NEW k \in 1..m[2]
               PROVE  <<m[1], k>> \in journal
    BY DEF JournalIsPrefix
  <2>1. m[2] \in Nat /\ m = <<m[1], m[2]>> /\ Behind(m)
    BY DEF IInv, TypeInv, TypeOK
  <2>2. CASE k = m[2]
    BY <2>1, <2>2
  <2>3. CASE k # m[2]
    BY <2>1, <2>3 DEF Behind
  <2> QED
    BY <2>2, <2>3
<1> QED
  BY <1>1, <1>2, <1>3, PTL DEF Spec

-----------------------------------------------------------------------------
(* The contract: the jobs, the workers and the attempts are detail that no *)
(* reader of journal_status and no observer of KRA's record can tell from  *)
(* JournalContract.  The mapping is the identity on status and journal.    *)
(* Beyond the invariant above the simulation needs that nothing is ever    *)
(* done to a transaction that was not stored.                              *)

\* Jobs, workers and messages under way are about stored transactions.
AboutStored ==
  /\ \A t \in dispatched : status[t] # "absent"
  /\ \A e \in queue : e.txn \in dispatched
  /\ \A w \in Workers : pc[w] # "idle" => job[w].txn \in dispatched
  /\ \A m \in late : m[1] \in dispatched

LEMMA InitAboutStored == Init => AboutStored
  BY DEF Init, AboutStored

\* A step that dispatches nothing, makes no status "absent", and adds to the
\* table, to a worker and to the messages under way only what was there.
LEMMA AboutStoredKept ==
  ASSUME AboutStored, UNCHANGED dispatched,
         \A t \in Txns : status'[t] = "absent" => status[t] = "absent",
         dispatched \subseteq Txns,
         \A e \in queue' : e.txn \in dispatched,
         \A w \in Workers : pc'[w] # "idle" =>
           \/ pc[w] # "idle" /\ job'[w] = job[w]
           \/ job'[w].txn \in dispatched,
         \A m \in late' : m \in late \/ m[1] \in dispatched
  PROVE  AboutStored'
  BY DEF AboutStored

LEMMA NextAboutStored ==
  ASSUME TypeInv, AboutStored, [Next]_vars
  PROVE  AboutStored'
<1> USE DEF TypeInv, TypeOK, Goto
<1>1. ASSUME NEW t \in Txns, CreateTransaction(t)
      PROVE  AboutStored'
  BY <1>1 DEF CreateTransaction, queueVars, workerVars, localVars, kraVars, AboutStored
<1>2. ASSUME NEW t \in Txns, DispatchJob(t)
      PROVE  AboutStored'
  <2>1. \A e \in queue' : e \in queue \/ e.txn = t
    BY <1>2 DEF DispatchJob, Push
  <2> QED
    BY <1>2, <2>1 DEF DispatchJob, dbVars, workerVars, localVars, kraVars, AboutStored
<1>3. ASSUME NEW w \in Workers, Pop(w)
      PROVE  AboutStored'
  <2>1. PICK e \in queue :
          /\ \A f \in queue' : f \in queue \/ f.txn = e.txn
          /\ job'[w].txn = e.txn
    BY <1>3 DEF Pop
  <2>2. \A v \in Workers : v # w => pc'[v] = pc[v] /\ job'[v] = job[v]
    BY <1>3 DEF Pop
  <2> QED
    BY <1>3, <2>1, <2>2 DEF Pop, dbVars, kraVars, AboutStored
<1>4. ASSUME NEW w \in Workers, PutBack(w)
      PROVE  AboutStored'
  <2>1. \A e \in queue' : e \in queue \/ e.txn = job[w].txn
    BY <1>4 DEF PutBack, Push, WithoutJob
  <2>2. \A v \in Workers : pc'[v] # "idle" => pc[v] # "idle" /\ job'[v] = job[v]
    BY <1>4 DEF PutBack, Release
  <2> QED
    BY <1>4, <2>1, <2>2 DEF PutBack, dbVars, kraVars, AboutStored
<1>5. ASSUME NEW w \in Workers, DeleteJob(w) \/ FailJob(w)
      PROVE  AboutStored'
  <2>1. queue' \subseteq queue
    BY <1>5 DEF DeleteJob, FailJob, WithoutJob
  <2>2. \A v \in Workers : pc'[v] # "idle" => pc[v] # "idle" /\ job'[v] = job[v]
    BY <1>5 DEF DeleteJob, FailJob, Release, localVars
  <2> QED
    BY <1>5, <2>1, <2>2 DEF DeleteJob, FailJob, dbVars, kraVars, AboutStored
<1>6. ASSUME NEW w \in Workers,
             \/ RefuseJob(w) \/ FindTransaction(w) \/ MarkQueued(w)
             \/ MarkCompleted(w) \/ MarkFailed(w) \/ GiveUp(w)
             \/ FindFailed(w) \/ UpdateFailed(w)
      PROVE  AboutStored'
  <2>1. UNCHANGED <<queueVars, kraVars>>
    BY <1>6 DEF RefuseJob, FindTransaction, MarkQueued, MarkCompleted, MarkFailed,
                GiveUp, FindFailed, UpdateFailed
  <2>2. \A v \in Workers : pc'[v] # "idle" => pc[v] # "idle" /\ job'[v] = job[v]
    BY <1>6 DEF RefuseJob, FindTransaction, MarkQueued, MarkCompleted, MarkFailed,
                GiveUp, FindFailed, UpdateFailed, Release, localVars
  <2>3. \A t \in Txns : status'[t] = "absent" => status[t] = "absent"
    BY <1>6 DEF RefuseJob, FindTransaction, MarkQueued, MarkCompleted, MarkFailed,
                GiveUp, FindFailed, UpdateFailed, dbVars
  <2> QED
    BY <2>1, <2>2, <2>3 DEF queueVars, kraVars, AboutStored
<1>7. ASSUME NEW w \in Workers, SendPart(w) \/ KillOnTimeout(w) \/ Crash(w)
      PROVE  AboutStored'
  <2>1. UNCHANGED <<dbVars, queueVars>>
    BY <1>7 DEF SendPart, KillOnTimeout, Crash
  <2>2. \A v \in Workers : pc'[v] # "idle" => pc[v] # "idle" /\ job'[v] = job[v]
    <3>1. CASE SendPart(w)
      BY <3>1 DEF SendPart
    <3>2. CASE KillOnTimeout(w)
      BY <3>2 DEF KillOnTimeout, Release
    <3>3. CASE Crash(w)
      BY <3>3 DEF Crash, Release
    <3> QED
      BY <1>7, <3>1, <3>2, <3>3
  <2>3. pc[w] # "idle" /\ \A m \in late' : m \in late \/ m[1] = job[w].txn
    BY <1>7 DEF SendPart, KillOnTimeout, Crash, AbandonMessage, Transmit, kraVars
  <2> QED
    BY <2>1, <2>2, <2>3 DEF dbVars, queueVars, AboutStored
<1>8. CASE LateArrival \/ UNCHANGED vars
  BY <1>8 DEF LateArrival, vars, dbVars, queueVars, workerVars, localVars, AboutStored
<1> QED
  BY <1>1, <1>2, <1>3, <1>4, <1>5, <1>6, <1>7, <1>8 DEF Next, JournalStep, Work

-----------------------------------------------------------------------------
(* The simulation.                                                         *)

\* A message that is behind others and new is the contract's next one.
LEMMA NextMessage ==
  ASSUME IInv, NEW m \in Txns \X Nat, Behind(m), m \notin journal,
         status[m[1]] # "absent", UNCHANGED status, journal' = journal \cup {m}
  PROVE  Contract!Accept(m[1])
<1> DEFINE t == m[1]
           i == m[2]
<1>1. m = <<t, i>> /\ i \in 1..Contract!Parts(t) /\ Parts(t) \in Nat
  BY PartsPositive DEF Behind, Parts, Contract!Parts
<1>2. \A j \in 1..(i - 1) : <<t, j>> \in journal /\ j \in 1..Contract!Parts(t)
  BY <1>1 DEF Behind, Parts, Contract!Parts
<1>3. ASSUME NEW j \in 1..Contract!Parts(t), <<t, j>> \in journal
      PROVE  j \in 1..(i - 1)
  <2>1. Behind(<<t, j>>) /\ j # i
    BY <1>1, <1>3 DEF IInv
  <2>2. \A k \in 1..(j - 1) : <<t, k>> \in journal
    BY <2>1 DEF Behind
  <2> QED
    BY <1>1, <1>3, <2>1, <2>2
<1>4. Contract!Journaled(t) = 1..(i - 1)
  BY <1>2, <1>3 DEF Contract!Journaled
<1> QED
  BY <1>1, <1>4 DEF Contract!Accept

\* KRA's record grows by at most one message, and the statuses stay.
Delivers ==
  /\ UNCHANGED status
  /\ \/ UNCHANGED journal
     \/ \E m \in Txns \X Nat : /\ Behind(m) /\ m[1] \in dispatched
                               /\ journal' = journal \cup {m}

LEMMA DeliversSimulated ==
  ASSUME IInv, AboutStored, Delivers
  PROVE  [Contract!Next]_(Contract!vars)
<1>1. CASE UNCHANGED journal
  BY <1>1 DEF Delivers, Contract!vars
<1>2. ASSUME NEW m \in Txns \X Nat, Behind(m), m[1] \in dispatched,
             journal' = journal \cup {m}
      PROVE  [Contract!Next]_(Contract!vars)
  <2>1. CASE m \in journal
    BY <1>2, <2>1 DEF Delivers, Contract!vars
  <2>2. CASE m \notin journal
    BY <1>2, <2>2, NextMessage DEF Delivers, AboutStored, Contract!Next
  <2> QED
    BY <2>1, <2>2
<1> QED
  BY <1>1, <1>2 DEF Delivers

\* A status is written for a transaction that is stored, and COMPLETED only
\* when KRA has all of it.
LEMMA ReportSimulated ==
  ASSUME NEW t \in Txns, NEW s \in {"QUEUED", "COMPLETED", "FAILED"},
         status[t] # "absent", status' = [status EXCEPT ![t] = s],
         UNCHANGED journal, s = "COMPLETED" => AllJournaled(t)
  PROVE  Contract!Next
<1>1. s = "COMPLETED" => Contract!Journaled(t) = 1..Contract!Parts(t)
  BY DEF AllJournaled, Parts, Contract!Journaled, Contract!Parts
<1> QED
  BY <1>1 DEF Contract!Report, Contract!Next

\* Every step of the journaling is a step of the contract, or none.
LEMMA NextSimulated ==
  ASSUME IInv, AboutStored, [Next]_vars
  PROVE  [Contract!Next]_(Contract!vars)
<1> USE DEF IInv, TypeInv
<1>1. ASSUME NEW t \in Txns, CreateTransaction(t)
      PROVE  Contract!Next
  BY <1>1 DEF CreateTransaction, kraVars, Contract!Next, Contract!Record
<1>2. ASSUME NEW w \in Workers, MarkQueued(w) \/ MarkFailed(w) \/ UpdateFailed(w)
      PROVE  [Contract!Next]_(Contract!vars)
  <2>1. /\ job[w].txn \in Txns /\ status[job[w].txn] # "absent"
        /\ UNCHANGED journal
    BY <1>2 DEF MarkQueued, MarkFailed, UpdateFailed, kraVars, Holding, AboutStored
  <2>2. \/ UNCHANGED status
        \/ \E s \in {"QUEUED", "FAILED"} : status' = [status EXCEPT ![job[w].txn] = s]
    BY <1>2 DEF MarkQueued, MarkFailed, UpdateFailed, dbVars
  <2> QED
    BY <2>1, <2>2, ReportSimulated DEF Contract!vars
<1>3. ASSUME NEW w \in Workers, MarkCompleted(w)
      PROVE  Contract!Next
  <2>1. /\ job[w].txn \in Txns /\ status[job[w].txn] # "absent"
        /\ AllJournaled(job[w].txn)
    BY <1>3 DEF MarkCompleted, Holding, AboutStored, RunInv
  <2> QED
    BY <1>3, <2>1, ReportSimulated DEF MarkCompleted, kraVars
<1>4. ASSUME NEW w \in Workers, SendPart(w) \/ KillOnTimeout(w) \/ Crash(w)
      PROVE  [Contract!Next]_(Contract!vars)
  <2> DEFINE m == <<job[w].txn, part[w]>>
  <2>1. job[w].txn \in Txns /\ job[w].txn \in dispatched /\ part[w] \in Nat
    BY <1>4 DEF SendPart, KillOnTimeout, Crash, Holding, AboutStored, TypeOK
  <2>2. UNCHANGED status
    BY <1>4 DEF SendPart, KillOnTimeout, Crash, dbVars
  <2>3. \/ UNCHANGED journal
        \/ pc[w] = "sending" /\ journal' = journal \cup {m}
    BY <1>4 DEF SendPart, KillOnTimeout, Crash, AbandonMessage, Transmit, kraVars
  <2>4. pc[w] = "sending" => Behind(m)
    BY DEF RunInv
  <2>5. Delivers
    BY <2>1, <2>2, <2>3, <2>4 DEF Delivers
  <2> QED
    BY <2>5, DeliversSimulated
<1>5. ASSUME LateArrival
      PROVE  [Contract!Next]_(Contract!vars)
  <2>1. PICK m \in late : journal' = journal \cup {m}
    BY <1>5 DEF LateArrival
  <2>2. m \in Txns \X Nat /\ Behind(m) /\ m[1] \in dispatched
    BY <2>1 DEF TypeOK, AboutStored
  <2>3. Delivers
    BY <1>5, <2>1, <2>2 DEF Delivers, LateArrival, dbVars
  <2> QED
    BY <2>3, DeliversSimulated
<1>6. ASSUME NEW w \in Workers,
             \/ Pop(w) \/ RefuseJob(w) \/ FindTransaction(w) \/ DeleteJob(w)
             \/ GiveUp(w) \/ PutBack(w) \/ FailJob(w) \/ FindFailed(w)
      PROVE  UNCHANGED Contract!vars
  BY <1>6 DEF Pop, RefuseJob, FindTransaction, DeleteJob, GiveUp, PutBack, FailJob,
              FindFailed, dbVars, kraVars, Contract!vars
<1>7. ASSUME UNCHANGED vars \/ \E t \in Txns : DispatchJob(t)
      PROVE  UNCHANGED Contract!vars
  BY <1>7 DEF vars, DispatchJob, dbVars, kraVars, Contract!vars
<1> QED
  BY <1>1, <1>2, <1>3, <1>4, <1>5, <1>6, <1>7 DEF Next, JournalStep, Work

\* Where every status KRA may answer is an acceptance or a rejection, the jobs,
\* overlapping or not, implement the contract.
THEOREM JournalingImplementsContract ==
  ASSUME KraStatuses \subseteq {"P", "E"}
  PROVE  Spec => ImplementsContract
<1>1. Init => IInv /\ AboutStored /\ Contract!Init
  BY InitIInv, InitAboutStored DEF Init, Contract!Init
<1>2. IInv /\ AboutStored /\ [Next]_vars => (IInv /\ AboutStored)'
  BY NextIInv, NextAboutStored DEF IInv
<1>3. IInv /\ AboutStored /\ [Next]_vars => [Contract!Next]_(Contract!vars)
  BY NextSimulated
<1> QED
  BY <1>1, <1>2, <1>3, PTL DEF Spec, ImplementsContract, Contract!Spec

-----------------------------------------------------------------------------
(* Exclusive runs: when the queue waits longer before it hands out a job   *)
(* again than the job may run, no transaction is in the hands of two       *)
(* workers and handle() starts at most $tries times, for every number of   *)
(* workers and whatever dies.                                              *)
(*                                                                         *)
(* Neither property is inductive: they hold because there is one job per   *)
(* transaction, which is in the table while a worker may run it and gone   *)
(* when its failure callback runs, and because every start has used up one *)
(* of its attempts.                                                        *)
(*                                                                         *)
(* When runs are exclusive, whoever ends a job is alone with its row: so   *)
(* no job is lost, unless the report of its failure is refused or its      *)
(* worker dies before it.                                                  *)

Busy(w) == pc[w] # "idle"

\* The table holds one job per transaction at most, one that was dispatched.
OneJob ==
  /\ \A e, f \in queue : e.txn = f.txn \/ e.id = f.id => e = f
  /\ \A e \in queue : e.txn \in dispatched /\ e.id < nextId

\* A worker's job is in the table until the failure callback; from then on the
\* transaction has no job left.
JobInTable ==
  \A w \in Workers :
    /\ Busy(w) => job[w].txn \in dispatched /\ job[w].reserved
    /\ Busy(w) /\ pc[w] \notin InCallback => job[w] \in queue
    /\ pc[w] \in InCallback => \A e \in queue : e.txn # job[w].txn

OneWorker ==
  \A v, w \in Workers : v # w /\ Busy(v) /\ Busy(w) => job[v].txn # job[w].txn

\* Each start has used up an attempt of the one job there is.
StartsCounted ==
  /\ \A t \in Txns : starts[t] <= Tries
  /\ \A t \in Txns \ dispatched : starts[t] = 0
  /\ \A e \in queue : starts[e.txn] <= e.attempts
  /\ \A w \in Workers : pc[w] = "popped" => starts[job[w].txn] < job[w].attempts

TableInv == OneJob /\ JobInTable /\ OneWorker

EInv == TypeInv /\ TableInv /\ StartsCounted

-----------------------------------------------------------------------------
(* Steps that leave the table alone.                                       *)

\* A worker that has not taken a job in this step: it is idle now, or it holds
\* the job it held, in the failure callback if it was there before.
Holds(v) ==
  \/ pc'[v] = "idle"
  \/ /\ Busy(v)
     /\ job'[v] = job[v]
     /\ pc'[v] \in InCallback <=> pc[v] \in InCallback

LEMMA SameTable ==
  ASSUME TableInv, UNCHANGED queueVars, \A v \in Workers : Holds(v)
  PROVE  TableInv'
<1>1. OneJob'
  BY DEF TableInv, OneJob, queueVars
<1>2. JobInTable'
  BY DEF TableInv, JobInTable, Holds, Busy, queueVars
<1>3. OneWorker'
  BY DEF TableInv, OneWorker, Holds, Busy
<1> QED
  BY <1>1, <1>2, <1>3 DEF TableInv

LEMMA SameCount ==
  ASSUME StartsCounted, UNCHANGED <<queueVars, starts>>,
         \A v \in Workers : pc'[v] = "popped" => pc[v] = "popped" /\ job'[v] = job[v]
  PROVE  StartsCounted'
BY DEF StartsCounted, queueVars

-----------------------------------------------------------------------------
(* Steps that change it.                                                   *)

LEMMA DispatchJobEInv ==
  ASSUME EInv, TypeInv', NEW t \in Txns, DispatchJob(t)
  PROVE  EInv'
<1> DEFINE new == [id |-> nextId, txn |-> t, attempts |-> 0, reserved |-> FALSE]
<1>1. /\ t \notin dispatched
      /\ dispatched' = dispatched \cup {t}
      /\ queue' = queue \cup {new}
      /\ nextId' = nextId + 1
      /\ UNCHANGED <<pc, job, starts>>
  BY DEF DispatchJob, Push, workerVars, localVars
<1>2. \A e \in queue : e.txn # t /\ e.id # nextId /\ e.id < nextId + 1
  BY <1>1 DEF EInv, TableInv, OneJob, TypeInv, TypeOK
<1>3. OneJob'
  BY <1>1, <1>2 DEF EInv, TableInv, OneJob, TypeInv, TypeOK
<1>4. JobInTable'
  BY <1>1 DEF EInv, TableInv, JobInTable, Busy
<1>5. OneWorker'
  BY <1>1 DEF EInv, TableInv, OneWorker, Busy
<1>6. StartsCounted'
  BY <1>1 DEF EInv, StartsCounted
<1> QED
  BY <1>3, <1>4, <1>5, <1>6 DEF EInv, TableInv

\* A free job is in nobody's hands, and one whose reservation has expired
\* neither, because workers stop in time.
LEMMA PopEInv ==
  ASSUME ~Overlap, EInv, TypeInv', NEW w \in Workers, Pop(w)
  PROVE  EInv'
<1> DEFINE Reserved(e) == [id |-> e.id, txn |-> e.txn,
                           attempts |-> e.attempts + 1, reserved |-> TRUE]
<1>1. PICK e \in queue :
        /\ e.reserved => Expired(e)
        /\ queue' = (queue \ {e}) \cup {Reserved(e)}
        /\ job' = [job EXCEPT ![w] = Reserved(e)]
  BY DEF Pop
<1>2. /\ pc[w] = "idle" /\ pc' = [pc EXCEPT ![w] = "popped"]
      /\ UNCHANGED <<dispatched, nextId, starts>>
  BY DEF Pop, Goto
<1>3. PICK r : r = Reserved(e)
  OBVIOUS
<1>4. /\ r.id = e.id /\ r.txn = e.txn /\ r.attempts = e.attempts + 1
      /\ r.reserved = TRUE
      /\ queue' = (queue \ {e}) \cup {r}
      /\ job' = [job EXCEPT ![w] = r]
  BY <1>1, <1>3
<1> HIDE DEF Reserved
<1>5. pc'[w] = "popped" /\ job'[w] = r
  BY <1>2, <1>4 DEF TypeInv, TypeOK, EInv
<1>6. \A v \in Workers : v # w => pc'[v] = pc[v] /\ job'[v] = job[v]
  BY <1>2, <1>4 DEF TypeInv, TypeOK, EInv
<1>7. \A v \in Workers : Busy(v) => job[v] # e
  BY <1>1 DEF Expired, EInv, TableInv, JobInTable
<1>8. \A v \in Workers : Busy(v) => job[v].txn # e.txn
  BY <1>7 DEF EInv, TableInv, JobInTable, OneJob
<1>9. OneJob'
  BY <1>2, <1>4 DEF EInv, TableInv, OneJob
<1>10. JobInTable'
  <2> SUFFICES ASSUME NEW v \in Workers
               PROVE  /\ Busy(v)' => job'[v].txn \in dispatched' /\ job'[v].reserved
                      /\ Busy(v)' /\ pc'[v] \notin InCallback => job'[v] \in queue'
                      /\ pc'[v] \in InCallback => \A f \in queue' : f.txn # job'[v].txn
    BY DEF JobInTable
  <2>1. CASE v = w
    BY <1>2, <1>4, <1>5, <2>1 DEF EInv, TableInv, OneJob
  <2>2. CASE v # w
    BY <1>2, <1>4, <1>6, <1>7, <1>8, <2>2 DEF EInv, TableInv, JobInTable, Busy
  <2> QED
    BY <2>1, <2>2
<1>11. OneWorker'
  BY <1>4, <1>5, <1>6, <1>8 DEF EInv, TableInv, OneWorker, Busy
<1>12. StartsCounted'
  <2>1. e.txn \in Txns /\ e.attempts \in Nat /\ starts \in [Txns -> Nat]
    BY DEF EInv, TypeInv, TypeOK
  <2>2. starts[e.txn] <= e.attempts
    BY DEF EInv, StartsCounted
  <2>3. starts'[r.txn] < r.attempts
    BY <1>2, <1>4, <2>1, <2>2
  <2>4. \A f \in queue' : starts'[f.txn] <= f.attempts
    BY <1>2, <1>4, <2>1, <2>2 DEF EInv, StartsCounted
  <2>5. \A v \in Workers : pc'[v] = "popped" => starts'[job'[v].txn] < job'[v].attempts
    BY <1>2, <1>5, <1>6, <2>3 DEF EInv, StartsCounted
  <2> QED
    BY <1>2, <2>4, <2>5 DEF EInv, StartsCounted
<1> QED
  BY <1>9, <1>10, <1>11, <1>12 DEF EInv, TableInv

\* No other worker holds this transaction, so no other count is touched.
LEMMA FindTransactionEInv ==
  ASSUME EInv, TypeInv', NEW w \in Workers, FindTransaction(w)
  PROVE  EInv'
<1> DEFINE t == job[w].txn
<1>1. /\ pc[w] = "popped" /\ pc' = [pc EXCEPT ![w] = "loaded"]
      /\ job[w].attempts <= Tries
      /\ starts' = [starts EXCEPT ![t] = @ + 1]
      /\ UNCHANGED <<queueVars, job>>
  BY DEF FindTransaction, Goto
<1>2. TableInv'
  <2>1. \A v \in Workers : Holds(v)
    BY <1>1 DEF EInv, TypeInv, TypeOK, Holds, Busy
  <2> QED
    BY <1>1, <2>1, SameTable DEF EInv
<1>3. t \in dispatched /\ t \in Txns /\ job[w] \in queue /\ starts[t] < job[w].attempts
  BY <1>1 DEF EInv, TypeInv, Holding, TableInv, JobInTable, StartsCounted, Busy
<1>4. starts'[t] = starts[t] + 1 /\ \A u \in Txns : u # t => starts'[u] = starts[u]
  BY <1>1, <1>3 DEF EInv, TypeInv, TypeOK
<1>5. starts[t] \in Nat /\ job[w].attempts \in Nat
  BY <1>3 DEF EInv, TypeInv, TypeOK, Job
<1>6. StartsCounted'
  <2>1. \A u \in Txns : starts'[u] <= Tries
    BY <1>1, <1>3, <1>4, <1>5, TriesAssumption DEF EInv, StartsCounted
  <2>2. \A u \in Txns \ dispatched' : starts'[u] = 0
    BY <1>1, <1>3, <1>4 DEF EInv, StartsCounted, queueVars
  <2>3. ASSUME NEW f \in queue
        PROVE  starts'[f.txn] <= f.attempts
    <3>1. CASE f.txn = t
      <4>1. f = job[w]
        BY <1>3, <3>1 DEF EInv, TableInv, OneJob
      <4> QED
        BY <1>3, <1>4, <1>5, <4>1
    <3>2. CASE f.txn # t
      BY <1>4, <3>2 DEF EInv, StartsCounted, TypeInv, TypeOK
    <3> QED
      BY <3>1, <3>2
  <2>4. ASSUME NEW v \in Workers, pc'[v] = "popped"
        PROVE  starts'[job'[v].txn] < job'[v].attempts
    <3>1. v # w /\ pc[v] = "popped" /\ job'[v] = job[v]
      BY <1>1, <2>4 DEF EInv, TypeInv, TypeOK
    <3>2. job[v].txn # t /\ job[v].txn \in Txns
      BY <1>1, <3>1 DEF EInv, TypeInv, Holding, TableInv, OneWorker, Busy
    <3> QED
      BY <1>4, <3>1, <3>2 DEF EInv, StartsCounted
  <2> QED
    BY <1>1, <2>1, <2>2, <2>3, <2>4 DEF StartsCounted, queueVars
<1> QED
  BY <1>2, <1>6 DEF EInv

\* What is left when the row of w's job has gone: every other worker's job.
LEMMA OthersStay ==
  ASSUME EInv, NEW w \in Workers, Busy(w), NEW v \in Workers, v # w, Busy(v),
         job[v] \in queue, job[w] \in queue
  PROVE  job[v] \in WithoutJob(w)
BY DEF EInv, TableInv, OneJob, OneWorker, WithoutJob

LEMMA DeleteJobEInv ==
  ASSUME EInv, TypeInv', NEW w \in Workers, DeleteJob(w)
  PROVE  EInv'
<1>1. /\ pc[w] = "done" /\ pc' = [pc EXCEPT ![w] = "idle"]
      /\ job' = [job EXCEPT ![w] = NoJob]
      /\ queue' = WithoutJob(w)
      /\ UNCHANGED <<dispatched, nextId, starts>>
  BY DEF DeleteJob, Release, Goto
<1>2. pc'[w] = "idle" /\ \A v \in Workers : v # w => pc'[v] = pc[v] /\ job'[v] = job[v]
  BY <1>1 DEF EInv, TypeInv, TypeOK
<1>3. job[w] \in queue /\ Busy(w)
  BY <1>1 DEF EInv, TableInv, JobInTable, Busy
<1>4. OneJob' /\ OneWorker'
  BY <1>1, <1>2 DEF EInv, TableInv, OneJob, OneWorker, WithoutJob, Busy
<1>5. JobInTable'
  BY <1>1, <1>2, <1>3, OthersStay DEF EInv, TableInv, JobInTable, WithoutJob, Busy
<1>6. StartsCounted'
  BY <1>1, <1>2 DEF EInv, StartsCounted, WithoutJob
<1> QED
  BY <1>4, <1>5, <1>6 DEF EInv, TableInv

LEMMA FailJobEInv ==
  ASSUME EInv, TypeInv', NEW w \in Workers, FailJob(w)
  PROVE  EInv'
<1>1. /\ pc[w] = "fail" /\ pc' = [pc EXCEPT ![w] = "failed"]
      /\ queue' = WithoutJob(w)
      /\ UNCHANGED <<dispatched, nextId, job, starts>>
  BY DEF FailJob, Goto, localVars
<1>2. pc'[w] = "failed" /\ \A v \in Workers : v # w => pc'[v] = pc[v]
  BY <1>1 DEF EInv, TypeInv, TypeOK
<1>3. job[w] \in queue /\ Busy(w)
  BY <1>1 DEF EInv, TableInv, JobInTable, Busy
<1>4. \A e \in queue' : e.txn # job[w].txn
  BY <1>1, <1>3 DEF EInv, TableInv, OneJob, WithoutJob
<1>5. OneJob' /\ OneWorker'
  BY <1>1, <1>2, <1>3 DEF EInv, TableInv, OneJob, OneWorker, WithoutJob, Busy
<1>6. JobInTable'
  BY <1>1, <1>2, <1>3, <1>4, OthersStay DEF EInv, TableInv, JobInTable, WithoutJob, Busy
<1>7. StartsCounted'
  BY <1>1, <1>2 DEF EInv, StartsCounted, WithoutJob
<1> QED
  BY <1>5, <1>6, <1>7 DEF EInv, TableInv

LEMMA PutBackEInv ==
  ASSUME EInv, TypeInv', NEW w \in Workers, PutBack(w)
  PROVE  EInv'
<1>1. PICK new : new = [id |-> nextId, txn |-> job[w].txn,
                        attempts |-> job[w].attempts, reserved |-> FALSE]
  OBVIOUS
<1>2. new.id = nextId /\ new.txn = job[w].txn /\ new.attempts = job[w].attempts
  BY <1>1
<1>3. /\ pc[w] = "thrown" /\ pc' = [pc EXCEPT ![w] = "idle"]
      /\ job' = [job EXCEPT ![w] = NoJob]
      /\ queue' = WithoutJob(w) \cup {new}
      /\ nextId' = nextId + 1
      /\ UNCHANGED <<dispatched, starts>>
  BY <1>1 DEF PutBack, Push, Release, Goto
<1>4. pc'[w] = "idle" /\ \A v \in Workers : v # w => pc'[v] = pc[v] /\ job'[v] = job[v]
  BY <1>3 DEF EInv, TypeInv, TypeOK
<1>5. job[w] \in queue /\ Busy(w) /\ job[w].txn \in dispatched
  BY <1>3 DEF EInv, TableInv, JobInTable, Busy
<1>6. \A e \in WithoutJob(w) :
        /\ e \in queue
        /\ e.txn # job[w].txn
        /\ e.id # nextId
        /\ e.id < nextId + 1
  BY <1>5 DEF EInv, TableInv, OneJob, WithoutJob, TypeInv, TypeOK
<1>7. OneJob'
  BY <1>2, <1>3, <1>5, <1>6 DEF EInv, TableInv, OneJob, TypeInv, TypeOK
<1>8. JobInTable'
  <2> SUFFICES ASSUME NEW v \in Workers, v # w
               PROVE  /\ Busy(v)' => job'[v].txn \in dispatched' /\ job'[v].reserved
                      /\ Busy(v)' /\ pc'[v] \notin InCallback => job'[v] \in queue'
                      /\ pc'[v] \in InCallback => \A f \in queue' : f.txn # job'[v].txn
    BY <1>4 DEF JobInTable, Busy
  <2>1. Busy(v) => job[v].txn \in dispatched /\ job[v].reserved
    BY DEF EInv, TableInv, JobInTable
  <2>2. Busy(v) /\ pc[v] \notin InCallback => job[v] \in WithoutJob(w)
    BY <1>5, OthersStay DEF EInv, TableInv, JobInTable
  <2>3. pc[v] \in InCallback => Busy(v) /\ \A f \in queue : f.txn # job[v].txn
    BY DEF EInv, TableInv, JobInTable, Busy
  <2>4. Busy(v) => job[v].txn # new.txn
    BY <1>2, <1>5 DEF EInv, TableInv, OneWorker
  <2> QED
    BY <1>3, <1>4, <1>6, <2>1, <2>2, <2>3, <2>4 DEF Busy
<1>9. OneWorker'
  BY <1>4 DEF EInv, TableInv, OneWorker, Busy
<1>10. StartsCounted'
  BY <1>2, <1>3, <1>4, <1>5, <1>6 DEF EInv, StartsCounted
<1> QED
  BY <1>7, <1>8, <1>9, <1>10 DEF EInv, TableInv

-----------------------------------------------------------------------------
(* The theorems.                                                           *)

LEMMA InitEInv == Init => EInv
  BY InitTypeInv, TriesAssumption
     DEF Init, EInv, TableInv, OneJob, JobInTable, OneWorker, StartsCounted, Busy

LEMMA NextEInv ==
  ASSUME ~Overlap
  PROVE  EInv /\ [Next]_vars => EInv'
<1> SUFFICES ASSUME EInv, [Next]_vars
             PROVE  EInv'
  OBVIOUS
<1>0. TypeInv'
  BY NextTypeInv DEF EInv
<1>1. ASSUME NEW t \in Txns, CreateTransaction(t)
      PROVE  EInv'
  <2>1. UNCHANGED <<queueVars, starts>>
    BY <1>1 DEF CreateTransaction
  <2>2. \A v \in Workers :
          Holds(v) /\ (pc'[v] = "popped" => pc[v] = "popped" /\ job'[v] = job[v])
    BY <1>1 DEF CreateTransaction, workerVars, localVars, Holds, Busy, EInv, TypeInv, TypeOK
  <2> QED
    BY <1>0, <2>1, <2>2, SameTable, SameCount DEF EInv
<1>2. ASSUME NEW w \in Workers, RefuseJob(w)
      PROVE  EInv'
  <2>1. UNCHANGED <<queueVars, starts>>
    BY <1>2 DEF RefuseJob
  <2>2. \A v \in Workers :
          Holds(v) /\ (pc'[v] = "popped" => pc[v] = "popped" /\ job'[v] = job[v])
    BY <1>2 DEF RefuseJob, Goto, localVars, Holds, Busy, EInv, TypeInv, TypeOK
  <2> QED
    BY <1>0, <2>1, <2>2, SameTable, SameCount DEF EInv
<1>3. ASSUME NEW w \in Workers, MarkQueued(w)
      PROVE  EInv'
  <2>1. UNCHANGED <<queueVars, starts>>
    BY <1>3 DEF MarkQueued
  <2>2. \A v \in Workers :
          Holds(v) /\ (pc'[v] = "popped" => pc[v] = "popped" /\ job'[v] = job[v])
    BY <1>3 DEF MarkQueued, Goto, Holds, Busy, EInv, TypeInv, TypeOK
  <2> QED
    BY <1>0, <2>1, <2>2, SameTable, SameCount DEF EInv
<1>4. ASSUME NEW w \in Workers, SendPart(w)
      PROVE  EInv'
  <2>1. UNCHANGED <<queueVars, starts>>
    BY <1>4 DEF SendPart
  <2>2. \A v \in Workers :
          Holds(v) /\ (pc'[v] = "popped" => pc[v] = "popped" /\ job'[v] = job[v])
    BY <1>4 DEF SendPart, Goto, Holds, Busy, EInv, TypeInv, TypeOK
  <2> QED
    BY <1>0, <2>1, <2>2, SameTable, SameCount DEF EInv
<1>5. ASSUME NEW w \in Workers, MarkCompleted(w)
      PROVE  EInv'
  <2>1. UNCHANGED <<queueVars, starts>>
    BY <1>5 DEF MarkCompleted
  <2>2. \A v \in Workers :
          Holds(v) /\ (pc'[v] = "popped" => pc[v] = "popped" /\ job'[v] = job[v])
    BY <1>5 DEF MarkCompleted, Goto, localVars, Holds, Busy, EInv, TypeInv, TypeOK
  <2> QED
    BY <1>0, <2>1, <2>2, SameTable, SameCount DEF EInv
<1>6. ASSUME NEW w \in Workers, MarkFailed(w)
      PROVE  EInv'
  <2>1. UNCHANGED <<queueVars, starts>>
    BY <1>6 DEF MarkFailed
  <2>2. \A v \in Workers :
          Holds(v) /\ (pc'[v] = "popped" => pc[v] = "popped" /\ job'[v] = job[v])
    BY <1>6 DEF MarkFailed, Goto, Holds, Busy, EInv, TypeInv, TypeOK
  <2> QED
    BY <1>0, <2>1, <2>2, SameTable, SameCount DEF EInv
<1>7. ASSUME NEW w \in Workers, GiveUp(w)
      PROVE  EInv'
  <2>1. UNCHANGED <<queueVars, starts>>
    BY <1>7 DEF GiveUp
  <2>2. \A v \in Workers :
          Holds(v) /\ (pc'[v] = "popped" => pc[v] = "popped" /\ job'[v] = job[v])
    BY <1>7 DEF GiveUp, Goto, localVars, Holds, Busy, EInv, TypeInv, TypeOK
  <2> QED
    BY <1>0, <2>1, <2>2, SameTable, SameCount DEF EInv
<1>8. ASSUME NEW w \in Workers, FindFailed(w)
      PROVE  EInv'
  <2>1. UNCHANGED <<queueVars, starts>>
    BY <1>8 DEF FindFailed
  <2>2. \A v \in Workers :
          Holds(v) /\ (pc'[v] = "popped" => pc[v] = "popped" /\ job'[v] = job[v])
    BY <1>8 DEF FindFailed, Goto, Holds, Busy, EInv, TypeInv, TypeOK
  <2> QED
    BY <1>0, <2>1, <2>2, SameTable, SameCount DEF EInv
<1>9. ASSUME NEW w \in Workers, UpdateFailed(w)
      PROVE  EInv'
  <2>1. UNCHANGED <<queueVars, starts>>
    BY <1>9 DEF UpdateFailed
  <2>2. \A v \in Workers :
          Holds(v) /\ (pc'[v] = "popped" => pc[v] = "popped" /\ job'[v] = job[v])
    BY <1>9 DEF UpdateFailed, Release, Goto, Holds, Busy, EInv, TypeInv, TypeOK
  <2> QED
    BY <1>0, <2>1, <2>2, SameTable, SameCount DEF EInv
<1>10. ASSUME NEW w \in Workers, KillOnTimeout(w)
       PROVE  EInv'
  <2>1. UNCHANGED <<queueVars, starts>>
    BY <1>10 DEF KillOnTimeout
  <2>2. \A v \in Workers :
          Holds(v) /\ (pc'[v] = "popped" => pc[v] = "popped" /\ job'[v] = job[v])
    BY <1>10 DEF KillOnTimeout, Release, Goto, Holds, Busy, EInv, TypeInv, TypeOK
  <2> QED
    BY <1>0, <2>1, <2>2, SameTable, SameCount DEF EInv
<1>11. ASSUME NEW w \in Workers, Crash(w)
       PROVE  EInv'
  <2>1. UNCHANGED <<queueVars, starts>>
    BY <1>11 DEF Crash
  <2>2. \A v \in Workers :
          Holds(v) /\ (pc'[v] = "popped" => pc[v] = "popped" /\ job'[v] = job[v])
    BY <1>11 DEF Crash, Release, Goto, Holds, Busy, EInv, TypeInv, TypeOK
  <2> QED
    BY <1>0, <2>1, <2>2, SameTable, SameCount DEF EInv
<1>12. ASSUME LateArrival
       PROVE  EInv'
  <2>1. UNCHANGED <<queueVars, starts>>
    BY <1>12 DEF LateArrival
  <2>2. \A v \in Workers :
          Holds(v) /\ (pc'[v] = "popped" => pc[v] = "popped" /\ job'[v] = job[v])
    BY <1>12 DEF LateArrival, workerVars, localVars, Holds, Busy, EInv, TypeInv, TypeOK
  <2> QED
    BY <1>0, <2>1, <2>2, SameTable, SameCount DEF EInv
<1>13. ASSUME NEW t \in Txns, DispatchJob(t)
       PROVE  EInv'
  BY <1>0, <1>13, DispatchJobEInv
<1>14. ASSUME NEW w \in Workers, Pop(w)
       PROVE  EInv'
  BY <1>0, <1>14, PopEInv
<1>15. ASSUME NEW w \in Workers, FindTransaction(w)
       PROVE  EInv'
  BY <1>0, <1>15, FindTransactionEInv
<1>16. ASSUME NEW w \in Workers, DeleteJob(w)
       PROVE  EInv'
  BY <1>0, <1>16, DeleteJobEInv
<1>17. ASSUME NEW w \in Workers, PutBack(w)
       PROVE  EInv'
  BY <1>0, <1>17, PutBackEInv
<1>18. ASSUME NEW w \in Workers, FailJob(w)
       PROVE  EInv'
  BY <1>0, <1>18, FailJobEInv
<1>19. ASSUME UNCHANGED vars
       PROVE  EInv'
  <2>1. /\ UNCHANGED <<queueVars, starts>>
        /\ \A v \in Workers :
             Holds(v) /\ (pc'[v] = "popped" => pc[v] = "popped" /\ job'[v] = job[v])
    BY <1>19 DEF vars, queueVars, Holds, Busy
  <2> QED
    BY <1>0, <2>1, SameTable, SameCount DEF EInv
<1> QED
  BY <1>1, <1>2, <1>3, <1>4, <1>5, <1>6, <1>7, <1>8, <1>9, <1>10, <1>11,
     <1>12, <1>13, <1>14, <1>15, <1>16, <1>17, <1>18, <1>19 DEF Next,
     JournalStep, Work

\* A worker that runs no job holds none.
IdleHoldsNothing == \A w \in Workers : ~Busy(w) => job[w].txn = NoTxn

LEMMA NextIdle ==
  ASSUME TypeInv, IdleHoldsNothing, [Next]_vars
  PROVE  IdleHoldsNothing'
<1> USE DEF IdleHoldsNothing, Busy, TypeInv, TypeOK, Goto
<1>1. ASSUME NEW w \in Workers,
             DeleteJob(w) \/ PutBack(w) \/ UpdateFailed(w) \/ Crash(w)
      PROVE  IdleHoldsNothing'
  BY <1>1 DEF DeleteJob, PutBack, UpdateFailed, Crash, Release, NoJob
<1>2. ASSUME NEW w \in Workers, KillOnTimeout(w)
      PROVE  IdleHoldsNothing'
  BY <1>2 DEF KillOnTimeout, Release, NoJob
<1>3. ASSUME NEW w \in Workers, Pop(w)
      PROVE  IdleHoldsNothing'
  BY <1>3 DEF Pop
<1>4. ASSUME NEW w \in Workers,
             \/ RefuseJob(w) \/ FindTransaction(w) \/ MarkQueued(w)
             \/ MarkCompleted(w) \/ MarkFailed(w) \/ GiveUp(w)
             \/ FailJob(w) \/ FindFailed(w)
      PROVE  IdleHoldsNothing'
  BY <1>4 DEF RefuseJob, FindTransaction, MarkQueued, MarkCompleted, MarkFailed,
              GiveUp, FailJob, FindFailed, localVars
<1>5. ASSUME NEW w \in Workers, SendPart(w)
      PROVE  IdleHoldsNothing'
  BY <1>5 DEF SendPart
<1>6. CASE \/ LateArrival \/ UNCHANGED vars
           \/ \E t \in Txns : CreateTransaction(t) \/ DispatchJob(t)
  BY <1>6 DEF LateArrival, CreateTransaction, DispatchJob, vars, workerVars,
              localVars
<1> QED
  BY <1>1, <1>2, <1>3, <1>4, <1>5, <1>6 DEF Next, JournalStep, Work

\* No transaction is in the hands of two workers, for every number of workers
\* and crashes.
THEOREM RunsAreExclusive == Spec => []ExclusiveRuns
<1> DEFINE XInv == Overlap \/ (EInv /\ IdleHoldsNothing)
<1>1. Init => XInv
  BY InitEInv DEF Init, IdleHoldsNothing, NoJob
<1>2. XInv /\ [Next]_vars => XInv'
  <2>1. CASE Overlap
    BY <2>1 DEF Overlap
  <2>2. ASSUME ~Overlap, EInv, IdleHoldsNothing, [Next]_vars
        PROVE  XInv'
    BY <2>2, NextEInv, NextIdle DEF EInv
  <2> QED
    BY <2>1, <2>2
<1>3. XInv => ExclusiveRuns
  BY DEF EInv, TableInv, OneWorker, ExclusiveRuns, IdleHoldsNothing, Busy
<1> QED
  BY <1>1, <1>2, <1>3, PTL DEF Spec

\* handle() starts at most $tries times for one dispatch when runs are
\* exclusive.
LEMMA StartsAtMostTries ==
  ASSUME ~Overlap
  PROVE  Spec => []StartsBounded
<1>1. Init => EInv
  BY InitEInv
<1>2. EInv /\ [Next]_vars => EInv'
  BY NextEInv
<1>3. EInv => StartsBounded
  BY DEF EInv, StartsCounted, StartsBounded
<1> QED
  BY <1>1, <1>2, <1>3, PTL DEF Spec

-----------------------------------------------------------------------------
(* No job is lost.  A worker deletes a job that returned only after it has *)
(* written COMPLETED, and lets go of one that failed only after it has     *)
(* written FAILED; nobody else writes the status in between, since nobody  *)
(* else holds the transaction.                                             *)

Outcome(t) == status[t] \in {"COMPLETED", "FAILED"}

\* What a worker knows of the status it has written, or is about to.
Reported(w) ==
  /\ pc[w] = "done" => status[job[w].txn] = "COMPLETED"
  /\ pc[w] = "failedLoaded" => mem[w] = status[job[w].txn]

\* Every message of an exception fits its column.
AllShort == \A w \in Workers : ~tooLong[w]

LossInv ==
  /\ EInv
  /\ AllShort
  /\ \A w \in Workers : Reported(w)
  /\ NoJobLost

\* A step of worker w, which holds a job: the other workers and the status of
\* the other transactions stay as they are.
ActsAlone(w) ==
  /\ Busy(w)
  /\ \A t \in Txns : t # job[w].txn => status'[t] = status[t]
  /\ \A v \in Workers : v # w =>
       pc'[v] = pc[v] /\ job'[v] = job[v] /\ mem'[v] = mem[v] /\ tooLong'[v] = tooLong[v]
  /\ UNCHANGED dispatched

\* Nothing is lost if the transaction of w is in somebody's hands, or has an
\* outcome, after the step.
LEMMA ActsAloneSuffices ==
  ASSUME LossInv, EInv', NEW w \in Workers, ActsAlone(w), NEW t, t = job[w].txn,
         \A e \in queue : e.txn # t => e \in queue',
         ~tooLong'[w], Reported(w)',
         InHands(t)' \/ Outcome(t)'
  PROVE  LossInv'
<1>1. AllShort'
  BY DEF LossInv, AllShort, ActsAlone
<1>2. ASSUME NEW v \in Workers, v # w
      PROVE  Reported(v)'
  <2>1. CASE Busy(v)
    <3>1. job[v].txn # t /\ job[v].txn \in Txns
      BY <1>2, <2>1 DEF LossInv, EInv, TableInv, OneWorker, TypeInv, Holding, ActsAlone, Busy
    <3>2. status'[job[v].txn] = status[job[v].txn]
      BY <3>1 DEF ActsAlone
    <3> QED
      BY <1>2, <3>2 DEF LossInv, Reported, ActsAlone
  <2>2. CASE ~Busy(v)
    BY <1>2, <2>2 DEF Reported, ActsAlone, Busy
  <2> QED
    BY <2>1, <2>2
<1>3. ASSUME NEW u \in dispatched', u # t
      PROVE  InHands(u)' \/ Outcome(u)'
  <2>1. u \in dispatched /\ u \in Txns /\ (InHands(u) \/ Outcome(u))
    BY <1>3 DEF ActsAlone, LossInv, NoJobLost, Outcome, EInv, TypeInv, TypeOK
  <2>2. CASE Outcome(u)
    BY <1>3, <2>1, <2>2 DEF ActsAlone, Outcome
  <2>3. ASSUME NEW e \in queue, e.txn = u
        PROVE  InHands(u)'
    BY <1>3, <2>3 DEF InHands
  <2>4. ASSUME NEW v \in Workers, job[v].txn = u
        PROVE  InHands(u)'
    BY <1>3, <2>4 DEF InHands, ActsAlone
  <2> QED
    BY <2>1, <2>2, <2>3, <2>4 DEF InHands
<1>4. NoJobLost'
  BY <1>3 DEF NoJobLost, Outcome
<1>5. \A v \in Workers : Reported(v)'
  BY <1>2
<1> QED
  BY <1>1, <1>4, <1>5 DEF LossInv

\* While w keeps its job, or the row of the job stays, it is not lost.
LEMMA StaysInHands ==
  ASSUME EInv, NEW w \in Workers, Busy(w), NEW t, t = job[w].txn,
         job'[w] = job[w] \/ (pc[w] \notin InCallback /\ queue' = queue)
  PROVE  InHands(t)'
BY DEF InHands, EInv, TableInv, JobInTable

LEMMA InitLossInv == Init => LossInv
  BY InitEInv DEF Init, LossInv, AllShort, Reported, NoJobLost

\* Every action of a worker that holds a job and only goes on with it.
LEMMA GoesOnLossInv ==
  ASSUME ~EnforcesLength, LossInv, EInv', NEW w \in Workers,
         \/ RefuseJob(w) \/ FindTransaction(w) \/ MarkQueued(w) \/ SendPart(w)
         \/ MarkCompleted(w) \/ MarkFailed(w) \/ GiveUp(w) \/ FindFailed(w)
  PROVE  LossInv'
<1> USE DEF EInv, TypeInv, TypeOK, Busy, Goto, Reported
<1> DEFINE t == job[w].txn
<1>0. t \in Txns /\ pc[w] # "idle" /\ ~tooLong[w]
  BY DEF LossInv, AllShort, Holding, RefuseJob, FindTransaction, MarkQueued, SendPart,
         MarkCompleted, MarkFailed, GiveUp, FindFailed
<1>1. /\ UNCHANGED <<queue, dispatched, job>>
      /\ \A v \in Workers : v # w =>
           pc'[v] = pc[v] /\ mem'[v] = mem[v] /\ tooLong'[v] = tooLong[v]
      /\ ~tooLong'[w]
  <2>1. CASE RefuseJob(w) \/ MarkCompleted(w) \/ GiveUp(w)
    BY <1>0, <2>1 DEF LossInv, RefuseJob, MarkCompleted, GiveUp, queueVars, localVars
  <2>2. CASE FindTransaction(w) \/ MarkQueued(w) \/ FindFailed(w)
    BY <1>0, <2>2 DEF LossInv, FindTransaction, MarkQueued, FindFailed, queueVars
  <2>3. CASE SendPart(w)
    BY <1>0, <2>3 DEF LossInv, SendPart, queueVars
  <2>4. CASE MarkFailed(w)
    BY <1>0, <2>4 DEF LossInv, MarkFailed, queueVars
  <2> QED
    BY <2>1, <2>2, <2>3, <2>4
<1>2. \A u \in Txns : u # t => status'[u] = status[u]
  BY <1>0 DEF LossInv, RefuseJob, FindTransaction, MarkQueued, SendPart, MarkCompleted,
              MarkFailed, GiveUp, FindFailed, dbVars
<1>3. Reported(w)'
  <2>1. CASE RefuseJob(w) \/ GiveUp(w)
    BY <1>0, <2>1 DEF LossInv, RefuseJob, GiveUp
  <2>2. CASE MarkCompleted(w)
    BY <1>0, <1>1, <2>2 DEF LossInv, MarkCompleted
  <2>3. CASE FindTransaction(w) \/ MarkQueued(w)
    BY <1>0, <2>3 DEF LossInv, FindTransaction, MarkQueued
  <2>4. CASE FindFailed(w)
    BY <1>0, <1>1, <2>4 DEF LossInv, FindFailed, dbVars
  <2>5. CASE SendPart(w)
    BY <1>0, <2>5 DEF LossInv, SendPart
  <2>6. CASE MarkFailed(w)
    BY <1>0, <2>6 DEF LossInv, MarkFailed
  <2> QED
    BY <2>1, <2>2, <2>3, <2>4, <2>5, <2>6
<1>4. PICK x : x = t
  OBVIOUS
<1>6. InHands(x)'
  BY <1>0, <1>1, <1>4, StaysInHands DEF LossInv
<1>5. ActsAlone(w)
  BY <1>0, <1>1, <1>2 DEF ActsAlone
<1> QED
  BY <1>1, <1>3, <1>4, <1>5, <1>6, ActsAloneSuffices

\* A worker lets go of its job after its outcome, or leaves the row.
LEMMA LetsGoLossInv ==
  ASSUME LossInv, EInv', NEW w \in Workers,
         \/ DeleteJob(w) \/ PutBack(w) \/ UpdateFailed(w)
         \/ Crash(w) /\ pc[w] \notin InCallback
         \/ KillOnTimeout(w) /\ ~(job[w].attempts >= Tries)
  PROVE  LossInv'
<1> USE DEF EInv, TypeInv, TypeOK, Busy, Goto
<1> DEFINE t == job[w].txn
<1>0. t \in Txns /\ pc[w] # "idle" /\ ~tooLong[w]
  BY DEF LossInv, AllShort, Holding, DeleteJob, PutBack, UpdateFailed, Crash, KillOnTimeout
<1>1. Release(w) /\ UNCHANGED dispatched
  BY DEF DeleteJob, PutBack, UpdateFailed, Crash, KillOnTimeout, queueVars
<1>2. /\ pc'[w] = "idle" /\ ~tooLong'[w]
      /\ \A v \in Workers : v # w =>
           pc'[v] = pc[v] /\ job'[v] = job[v] /\ mem'[v] = mem[v] /\ tooLong'[v] = tooLong[v]
  BY <1>1 DEF LossInv, Release
<1>3. \A u \in Txns : u # t => status'[u] = status[u]
  BY <1>0 DEF LossInv, DeleteJob, PutBack, UpdateFailed, Crash, KillOnTimeout, dbVars
<1>4. PICK x : x = t
  OBVIOUS
<1>7. /\ \A e \in queue : e.txn # x => e \in queue'
      /\ InHands(x)' \/ Outcome(x)'
  <2>1. CASE DeleteJob(w)
    <3>1. job[w] \in queue /\ status[job[w].txn] = "COMPLETED"
      BY <2>1 DEF DeleteJob, LossInv, Reported, TableInv, JobInTable
    <3> QED
      BY <1>4, <2>1, <3>1 DEF DeleteJob, dbVars, Outcome, LossInv, TableInv, OneJob, WithoutJob
  <2>2. CASE PutBack(w)
    <3>1. PICK new : new = [id |-> nextId, txn |-> job[w].txn,
                            attempts |-> job[w].attempts, reserved |-> FALSE]
      OBVIOUS
    <3>2. new.txn = job[w].txn /\ queue' = WithoutJob(w) \cup {new} /\ job[w] \in queue
      BY <2>2, <3>1 DEF PutBack, Push, LossInv, TableInv, JobInTable
    <3> QED
      BY <1>4, <3>2 DEF InHands, LossInv, TableInv, OneJob, WithoutJob
  <2>3. CASE UpdateFailed(w)
    <3>1. status'[job[w].txn] = "FAILED"
      BY <1>0, <2>3 DEF UpdateFailed, LossInv, Reported
    <3> QED
      BY <1>4, <2>3, <3>1 DEF UpdateFailed, queueVars, Outcome
  <2>4. CASE \/ Crash(w) /\ pc[w] \notin InCallback
             \/ KillOnTimeout(w) /\ ~(job[w].attempts >= Tries)
    <3>1. pc[w] \notin InCallback /\ queue' = queue
      BY <2>4 DEF Crash, KillOnTimeout, queueVars
    <3> QED
      BY <1>0, <1>4, <3>1, StaysInHands DEF LossInv
  <2> QED
    BY <2>1, <2>2, <2>3, <2>4
<1>5. Reported(w)'
  BY <1>2 DEF Reported
<1>6. ActsAlone(w)
  BY <1>0, <1>1, <1>2, <1>3 DEF ActsAlone
<1> QED
  BY <1>2, <1>4, <1>5, <1>6, <1>7, ActsAloneSuffices


\* A worker takes a job from the table, or is about to give up on one.
LEMMA PopLossInv ==
  ASSUME LossInv, IdleHoldsNothing, EInv', NEW w \in Workers, Pop(w)
  PROVE  LossInv'
<1> USE DEF EInv, TypeInv, TypeOK, Goto
<1>0. PICK e \in queue :
        \E r : /\ r = [id |-> e.id, txn |-> e.txn, attempts |-> e.attempts + 1, reserved |-> TRUE]
              /\ queue' = (queue \ {e}) \cup {r}
              /\ job' = [job EXCEPT ![w] = r]
  BY DEF Pop
<1>1. PICK r :
        /\ r = [id |-> e.id, txn |-> e.txn, attempts |-> e.attempts + 1, reserved |-> TRUE]
        /\ queue' = (queue \ {e}) \cup {r}
        /\ job' = [job EXCEPT ![w] = r]
  BY <1>0
<1>2. /\ pc[w] = "idle" /\ pc' = [pc EXCEPT ![w] = "popped"]
      /\ UNCHANGED <<status, dispatched, mem, tooLong>>
      /\ r.txn = e.txn
  BY <1>1 DEF Pop, dbVars
<1>3. \A v \in Workers : Reported(v)'
  BY <1>1, <1>2 DEF LossInv, Reported
<1>4. ASSUME NEW t \in dispatched', ~Outcome(t)'
      PROVE  InHands(t)'
  <2>1. t \in Txns /\ InHands(t)
    BY <1>2, <1>4 DEF LossInv, NoJobLost, Outcome
  <2>2. ASSUME NEW f \in queue, f.txn = t
        PROVE  InHands(t)'
    BY <1>1, <1>2, <2>2 DEF InHands
  <2>3. ASSUME NEW v \in Workers, job[v].txn = t
        PROVE  InHands(t)'
    <3>1. v # w
      BY <1>2, <2>1, <2>3, NoTxnAssumption DEF IdleHoldsNothing, Busy
    <3> QED
      BY <1>1, <2>3, <3>1 DEF InHands, LossInv
  <2> QED
    BY <2>1, <2>2, <2>3 DEF InHands
<1> QED
  BY <1>2, <1>3, <1>4 DEF LossInv, AllShort, NoJobLost, Outcome

LEMMA FailsLossInv ==
  ASSUME LossInv, EInv', NEW w \in Workers,
         FailJob(w) \/ (KillOnTimeout(w) /\ job[w].attempts >= Tries)
  PROVE  LossInv'
<1> USE DEF EInv, TypeInv, TypeOK, Busy, Goto
<1>1. /\ pc[w] # "idle" /\ pc'[w] \in {"fail", "failed"} /\ ~tooLong'[w]
      /\ \A v \in Workers : v # w => pc'[v] = pc[v] /\ tooLong'[v] = tooLong[v]
      /\ UNCHANGED <<status, dispatched, job, mem>>
  <2>1. CASE FailJob(w)
    BY <2>1 DEF FailJob, localVars, dbVars, LossInv, AllShort
  <2>2. CASE KillOnTimeout(w) /\ job[w].attempts >= Tries
    BY <2>2 DEF KillOnTimeout, dbVars, queueVars, LossInv
  <2> QED
    BY <2>1, <2>2
<1>2. PICK x : x = job[w].txn
  OBVIOUS
<1>3. InHands(x)'
  BY <1>1, <1>2, StaysInHands DEF LossInv
<1>4. \A e \in queue : e.txn # x => e \in queue'
  <2>1. CASE FailJob(w)
    <3>1. job[w] \in queue
      BY <2>1 DEF FailJob, LossInv, TableInv, JobInTable
    <3> QED
      BY <1>2, <2>1, <3>1 DEF FailJob, WithoutJob, LossInv, TableInv, OneJob
  <2>2. CASE KillOnTimeout(w)
    BY <2>2 DEF KillOnTimeout, queueVars
  <2> QED
    BY <2>1, <2>2
<1>5. Reported(w)'
  BY <1>1 DEF Reported
<1>6. ActsAlone(w)
  BY <1>1 DEF ActsAlone
<1> QED
  BY <1>1, <1>2, <1>3, <1>4, <1>5, <1>6, ActsAloneSuffices

\* The worker of a deleted job does not die before it has called failed().
DiesOutsideCallback == \A w \in Workers : pc[w] \in InCallback => ~Crash(w)

LInv == LossInv /\ AboutStored /\ IdleHoldsNothing

LEMMA InitLInv == Init => LInv
  BY InitLossInv, InitAboutStored DEF LInv, Init, IdleHoldsNothing, NoJob

LEMMA NextLInv ==
  ASSUME ~Overlap, ~EnforcesLength, LInv, [Next]_vars, DiesOutsideCallback
  PROVE  LInv'
<1>1. EInv' /\ AboutStored' /\ IdleHoldsNothing'
  BY NextEInv, NextAboutStored, NextIdle DEF LInv, LossInv, EInv
<1> USE DEF LInv
<1>2. ASSUME NEW t \in Txns, CreateTransaction(t)
      PROVE  LossInv'
  <2>1. /\ status[t] = "absent" /\ status' = [status EXCEPT ![t] = "PENDING"]
        /\ UNCHANGED <<pc, job, mem, tooLong, dispatched, queue>>
    BY <1>2 DEF CreateTransaction, queueVars, workerVars, localVars
  <2>2. t \notin dispatched
    BY <2>1 DEF AboutStored
  <2>3. \A w \in Workers : Busy(w) => job[w].txn # t
    BY <2>2 DEF AboutStored, Busy
  <2>4. \A w \in Workers : Reported(w)'
    BY <2>1, <2>3 DEF LossInv, Reported, Busy, EInv, TypeInv, TypeOK
  <2> QED
    BY <1>1, <2>1, <2>2, <2>4
       DEF LossInv, AllShort, NoJobLost, InHands, EInv, TypeInv, TypeOK
<1>3. ASSUME NEW t \in Txns, DispatchJob(t)
      PROVE  LossInv'
  <2>1. PICK new : new = [id |-> nextId, txn |-> t, attempts |-> 0, reserved |-> FALSE]
    OBVIOUS
  <2>2. /\ dispatched' = dispatched \cup {t} /\ queue' = queue \cup {new} /\ new.txn = t
        /\ UNCHANGED <<status, pc, job, mem, tooLong>>
    BY <1>3, <2>1 DEF DispatchJob, Push, dbVars, workerVars, localVars
  <2> QED
    BY <1>1, <2>2 DEF LossInv, AllShort, Reported, NoJobLost, InHands
<1>4. ASSUME NEW w \in Workers, Work(w) \/ KillOnTimeout(w) \/ Crash(w)
      PROVE  LossInv'
  BY <1>1, <1>4, PopLossInv, FailsLossInv, GoesOnLossInv, LetsGoLossInv
     DEF Work, DiesOutsideCallback
<1>5. CASE LateArrival \/ UNCHANGED vars
  BY <1>1, <1>5 DEF LateArrival, vars, dbVars, queueVars, workerVars, localVars, LossInv,
     AllShort, Reported, NoJobLost, InHands
<1> QED
  BY <1>1, <1>2, <1>3, <1>4, <1>5 DEF Next, JournalStep

\* A dispatched transaction is in the table, in the hands of a worker, or has
\* an outcome, when runs are exclusive and every message fits its column:
\* however many workers are killed or die, except between the deletion of a job
\* and the call of its failed() method.
THEOREM NoJobIsLost ==
  ASSUME ~Overlap, ~EnforcesLength
  PROVE  Spec /\ [][DiesOutsideCallback]_vars => []NoJobLost
<1>1. Init => LInv
  BY InitLInv
<1>2. LInv /\ [Next]_vars /\ [DiesOutsideCallback]_vars => LInv'
  <2>1. CASE DiesOutsideCallback
    BY <2>1, NextLInv
  <2>2. CASE UNCHANGED vars
    BY <2>2 DEF vars, LInv, LossInv, AboutStored, IdleHoldsNothing, EInv, TypeInv, TypeOK,
       Holding, TableInv, StartsCounted, OneJob, JobInTable, OneWorker, Busy, AllShort,
       Reported, NoJobLost, InHands
  <2> QED
    BY <2>1, <2>2
<1>3. LInv => NoJobLost
  BY DEF LInv, LossInv
<1> QED
  BY <1>1, <1>2, <1>3, PTL DEF Spec

-----------------------------------------------------------------------------
(* What may forget a transaction, overlapping or not.  Several rows and    *)
(* several workers may stand for one transaction then, so that the table   *)
(* says less: no more than that rows and jobs of one id are of one         *)
(* transaction, which is what makes a worker delete its own row only.      *)

RowsInv ==
  /\ \A e \in queue : e.id < nextId
  /\ \A w \in Workers : Busy(w) => job[w].id < nextId
  /\ \A e, f \in queue : e.id = f.id => e.txn = f.txn
  /\ \A w \in Workers : \A e \in queue :
       Busy(w) /\ e.id = job[w].id => e.txn = job[w].txn

DoneInv == \A w \in Workers : pc[w] = "done" => AllJournaled(job[w].txn)

FInv == IInv /\ RowsInv /\ DoneInv

\* Somebody will see to t, or nobody has to.
SeenTo(t) ==
  \/ \E e \in queue : e.txn = t
  \/ \E w \in Workers : job[w].txn = t /\ pc[w] \in InCallback
  \/ AllJournaled(t)
  \/ hasError[t]

\* What a step makes of the rows, and of a worker.
RowsGoOn ==
  \A e \in queue :
    \/ \E f \in queue' : f.txn = e.txn
    \/ \E v \in Workers : job'[v].txn = e.txn /\ pc'[v] \in InCallback
    \/ AllJournaled(e.txn)
NoNewJob(v) == pc'[v] = "idle" \/ (Busy(v) /\ job'[v] = job[v])
InCallbackStill(v) == pc[v] \in InCallback => pc'[v] \in InCallback /\ job'[v] = job[v]
DoneWhenJournaled(v) ==
  pc'[v] = "done" => job'[v] = job[v] /\ (pc[v] = "done" \/ AllJournaled(job[v].txn))

\* Outcomes stay, and nobody is done before KRA has everything.
Onwards ==
  /\ journal \subseteq journal'
  /\ \A t \in Txns : hasError[t] => hasError'[t]
  /\ \A v \in Workers : DoneWhenJournaled(v)

LEMMA RowsKept ==
  ASSUME RowsInv, queue' \subseteq queue, nextId' = nextId, \A v \in Workers : NoNewJob(v)
  PROVE  RowsInv'
BY DEF RowsInv, NoNewJob, Busy

LEMMA DoneKept ==
  ASSUME DoneInv, Onwards
  PROVE  DoneInv'
<1> SUFFICES ASSUME NEW v \in Workers, pc'[v] = "done"
             PROVE  AllJournaled(job[v].txn)'
  BY DEF DoneInv
<1>1. AllJournaled(job[v].txn) /\ job'[v] = job[v]
  BY DEF DoneInv, Onwards, DoneWhenJournaled
<1> QED
  BY <1>1 DEF Onwards, AllJournaled

LEMMA SeenKept ==
  ASSUME NEW t \in Txns, SeenTo(t), Onwards, RowsGoOn,
         \A v \in Workers : job[v].txn = t => InCallbackStill(v)
  PROVE  SeenTo(t)'
<1>1. CASE \E e \in queue : e.txn = t
  BY <1>1, JournaledStays DEF RowsGoOn, Onwards, SeenTo
<1>2. CASE \E w \in Workers : job[w].txn = t /\ pc[w] \in InCallback
  BY <1>2 DEF InCallbackStill, SeenTo
<1>3. CASE AllJournaled(t)
  BY <1>3, JournaledStays DEF Onwards, SeenTo
<1>4. CASE hasError[t]
  BY <1>4 DEF Onwards, SeenTo
<1> QED
  BY <1>1, <1>2, <1>3, <1>4 DEF SeenTo

\* Every step goes onwards.
LEMMA NextOnwards ==
  ASSUME FInv, [Next]_vars
  PROVE  Onwards
<1> USE DEF FInv, IInv, TypeInv, TypeOK, Onwards, DoneWhenJournaled
<1>1. ASSUME NEW t \in Txns, CreateTransaction(t) \/ DispatchJob(t)
      PROVE  Onwards
  BY <1>1 DEF CreateTransaction, DispatchJob, dbVars, kraVars, workerVars, localVars
<1>2. ASSUME NEW w \in Workers, Pop(w) \/ RefuseJob(w) \/ FindTransaction(w) \/ MarkQueued(w)
      PROVE  Onwards
  BY <1>2 DEF Pop, RefuseJob, FindTransaction, MarkQueued, Goto, dbVars, kraVars, localVars
<1>3. ASSUME NEW w \in Workers, SendPart(w)
      PROVE  Onwards
  <2>1. journal \subseteq journal'
    BY <1>3 DEF SendPart, Transmit, kraVars
  <2>2. \A v \in Workers : pc'[v] = "done" => pc[v] = "done"
    BY <1>3 DEF SendPart, Goto
  <2> QED
    BY <1>3, <2>1, <2>2 DEF SendPart, dbVars
<1>4. ASSUME NEW w \in Workers, MarkCompleted(w)
      PROVE  Onwards
  BY <1>4 DEF MarkCompleted, Goto, RunInv, kraVars, localVars
<1>5. ASSUME NEW w \in Workers, DeleteJob(w) \/ PutBack(w)
      PROVE  Onwards
  BY <1>5 DEF DeleteJob, PutBack, Release, Goto, dbVars, kraVars
<1>6. ASSUME NEW w \in Workers, MarkFailed(w)
      PROVE  Onwards
  BY <1>6 DEF MarkFailed, Goto, dbVars, kraVars
<1>7. ASSUME NEW w \in Workers, GiveUp(w) \/ FailJob(w) \/ FindFailed(w)
      PROVE  Onwards
  BY <1>7 DEF GiveUp, FailJob, FindFailed, Goto, dbVars, kraVars, localVars
<1>8. ASSUME NEW w \in Workers, UpdateFailed(w)
      PROVE  Onwards
  BY <1>8 DEF UpdateFailed, Release, Goto, dbVars, kraVars
<1>9. ASSUME NEW w \in Workers, KillOnTimeout(w) \/ Crash(w)
      PROVE  Onwards
  <2>1. journal \subseteq journal'
    BY <1>9 DEF KillOnTimeout, Crash, AbandonMessage, Transmit, kraVars
  <2>2. \A v \in Workers : pc'[v] = "done" => pc[v] = "done" /\ job'[v] = job[v]
    BY <1>9 DEF KillOnTimeout, Crash, Release, Goto
  <2> QED
    BY <1>9, <2>1, <2>2 DEF KillOnTimeout, Crash, dbVars
<1>10. CASE LateArrival \/ UNCHANGED vars
  BY <1>10 DEF LateArrival, vars, dbVars, workerVars, localVars
<1> QED
  BY <1>1, <1>2, <1>3, <1>4, <1>5, <1>6, <1>7, <1>8, <1>9, <1>10 DEF Next, JournalStep, Work

\* A new row has an id of its own.
LEMMA PushRows ==
  ASSUME FInv, NEW t \in Txns, NEW n, NEW others, others \subseteq queue, Push(t, n, others),
         \A v \in Workers : NoNewJob(v)
  PROVE  RowsInv' /\ \E f \in queue' : f.txn = t
<1>1. PICK new : new = [id |-> nextId, txn |-> t, attempts |-> n, reserved |-> FALSE]
  OBVIOUS
<1>2. new.id = nextId /\ new.txn = t /\ queue' = others \cup {new} /\ nextId' = nextId + 1
  BY <1>1 DEF Push
<1>3. /\ nextId \in Nat
      /\ \A e \in queue : e.id \in Nat /\ e.id < nextId
      /\ \A v \in Workers : job[v].id \in Nat /\ (Busy(v) => job[v].id < nextId)
  BY DEF FInv, IInv, TypeInv, TypeOK, Job, RowsInv
<1>4. \A e \in queue' : e.id < nextId'
  BY <1>2, <1>3
<1>5. \A v \in Workers : Busy(v)' => job'[v].id < nextId'
  BY <1>2, <1>3 DEF NoNewJob, Busy
<1>6. \A e, f \in queue' : e.id = f.id => e.txn = f.txn
  BY <1>2, <1>3 DEF FInv, RowsInv
<1>7. \A v \in Workers : \A e \in queue' :
        Busy(v)' /\ e.id = job'[v].id => e.txn = job'[v].txn
  BY <1>2, <1>3 DEF FInv, RowsInv, NoNewJob, Busy
<1> QED
  BY <1>2, <1>4, <1>5, <1>6, <1>7 DEF RowsInv

\* A reservation changes neither the id of a row nor its transaction.
LEMMA PopRows ==
  ASSUME FInv, NEW w \in Workers, Pop(w)
  PROVE  RowsInv' /\ RowsGoOn /\ \A v \in Workers : InCallbackStill(v)
<1>0. PICK e \in queue :
        LET held == [id |-> e.id, txn |-> e.txn, attempts |-> e.attempts + 1, reserved |-> TRUE]
        IN  queue' = (queue \ {e}) \cup {held} /\ job' = [job EXCEPT ![w] = held]
  BY DEF Pop
<1>1. PICK r :
        /\ r = [id |-> e.id, txn |-> e.txn, attempts |-> e.attempts + 1, reserved |-> TRUE]
        /\ queue' = (queue \ {e}) \cup {r}
        /\ job' = [job EXCEPT ![w] = r]
  BY <1>0
<1>2. r.id = e.id /\ r.txn = e.txn
  BY <1>1
<1>3. /\ pc[w] = "idle" /\ job'[w] = r /\ nextId' = nextId
      /\ \A v \in Workers : v # w => pc'[v] = pc[v] /\ job'[v] = job[v]
  BY <1>1 DEF Pop, Goto, FInv, IInv, TypeInv, TypeOK
<1>4. RowsInv'
  BY <1>1, <1>2, <1>3 DEF FInv, RowsInv, Busy
<1>5. RowsGoOn
  BY <1>1, <1>2 DEF RowsGoOn
<1>6. \A v \in Workers : InCallbackStill(v)
  BY <1>3 DEF InCallbackStill
<1> QED
  BY <1>4, <1>5, <1>6

\* The row a worker deletes is of its own transaction.
LEMMA OwnRow ==
  ASSUME FInv, NEW w \in Workers, Busy(w), NEW e \in queue, e \notin WithoutJob(w)
  PROVE  e.txn = job[w].txn
BY DEF FInv, RowsInv, WithoutJob

\* What the steps of a worker that takes no job make of the rows.
Apart(w) == UpdateFailed(w) \/ Crash(w)

LEMMA RowsOnwards ==
  ASSUME FInv, NEW w \in Workers, Work(w) \/ KillOnTimeout(w) \/ Crash(w)
  PROVE  /\ RowsInv' /\ RowsGoOn
         /\ \A v \in Workers : v # w \/ ~Apart(w) => InCallbackStill(v)
<1> DEFINE Goal == /\ RowsInv' /\ RowsGoOn
                   /\ \A v \in Workers : v # w \/ ~Apart(w) => InCallbackStill(v)
<1>0. pc \in [Workers -> PC] /\ job \in [Workers -> Job] /\ queue = queue
  BY DEF FInv, IInv, TypeInv, TypeOK
<1>1. ASSUME UNCHANGED <<queue, nextId>>, \A v \in Workers : NoNewJob(v),
             \A v \in Workers : v # w \/ ~Apart(w) => InCallbackStill(v)
      PROVE  Goal
  <2>1. RowsInv'
    BY <1>1, RowsKept DEF FInv
  <2>2. RowsGoOn
    BY <1>1 DEF RowsGoOn
  <2> QED
    BY <1>1, <2>1, <2>2
<1>2. CASE Pop(w)
  BY <1>2, PopRows
<1>3. CASE RefuseJob(w) \/ FindTransaction(w) \/ MarkQueued(w) \/ MarkCompleted(w)
           \/ GiveUp(w) \/ FindFailed(w)
  <2>1. \A v \in Workers : NoNewJob(v) /\ InCallbackStill(v)
    BY <1>0, <1>3 DEF RefuseJob, FindTransaction, MarkQueued, MarkCompleted, GiveUp, FindFailed,
       Goto, localVars, NoNewJob, InCallbackStill, Busy
  <2>2. UNCHANGED <<queue, nextId>>
    BY <1>3 DEF RefuseJob, FindTransaction, MarkQueued, MarkCompleted, GiveUp, FindFailed,
       queueVars
  <2> QED
    BY <1>1, <2>1, <2>2
<1>4. CASE SendPart(w) \/ MarkFailed(w)
  <2>1. \A v \in Workers : NoNewJob(v) /\ InCallbackStill(v)
    BY <1>0, <1>4 DEF SendPart, MarkFailed, Goto, NoNewJob, InCallbackStill, Busy
  <2>2. UNCHANGED <<queue, nextId>>
    BY <1>4 DEF SendPart, MarkFailed, queueVars
  <2> QED
    BY <1>1, <2>1, <2>2
<1>5. CASE KillOnTimeout(w)
  <2>1. \A v \in Workers : NoNewJob(v) /\ InCallbackStill(v)
    BY <1>0, <1>5 DEF KillOnTimeout, Release, Goto, NoNewJob, InCallbackStill, Busy
  <2>2. UNCHANGED <<queue, nextId>>
    BY <1>5 DEF KillOnTimeout, queueVars
  <2> QED
    BY <1>1, <2>1, <2>2
<1>6. CASE Apart(w)
  <2>1. \A v \in Workers : NoNewJob(v) /\ (v # w => InCallbackStill(v))
    BY <1>0, <1>6 DEF Apart, UpdateFailed, Crash, Release, Goto, NoNewJob, InCallbackStill, Busy
  <2>2. UNCHANGED <<queue, nextId>>
    BY <1>6 DEF Apart, UpdateFailed, Crash, queueVars
  <2> QED
    BY <1>1, <1>6, <2>1, <2>2
<1>7. CASE DeleteJob(w)
  <2>1. /\ pc[w] = "done" /\ queue' = WithoutJob(w) /\ nextId' = nextId
        /\ \A v \in Workers : NoNewJob(v) /\ InCallbackStill(v)
    BY <1>0, <1>7 DEF DeleteJob, Release, Goto, NoNewJob, InCallbackStill, Busy
  <2>2. RowsInv'
    BY <2>1, RowsKept DEF FInv, WithoutJob
  <2>3. RowsGoOn
    BY <2>1, OwnRow DEF RowsGoOn, FInv, DoneInv, Busy
  <2> QED
    BY <2>1, <2>2, <2>3
<1>8. CASE FailJob(w)
  <2>1. /\ pc[w] = "fail" /\ pc'[w] = "failed" /\ job' = job
        /\ queue' = WithoutJob(w) /\ nextId' = nextId
        /\ \A v \in Workers : NoNewJob(v) /\ InCallbackStill(v)
    BY <1>0, <1>8 DEF FailJob, Goto, localVars, NoNewJob, InCallbackStill, Busy
  <2>2. RowsInv'
    BY <2>1, RowsKept DEF FInv, WithoutJob
  <2>3. RowsGoOn
    BY <2>1, OwnRow DEF RowsGoOn, Busy
  <2> QED
    BY <2>1, <2>2, <2>3
<1>9. CASE PutBack(w)
  <2>1. /\ pc[w] = "thrown" /\ Push(job[w].txn, job[w].attempts, WithoutJob(w))
        /\ \A v \in Workers : NoNewJob(v) /\ InCallbackStill(v)
    BY <1>0, <1>9 DEF PutBack, Release, Goto, NoNewJob, InCallbackStill, Busy
  <2>2. job[w].txn \in Txns /\ WithoutJob(w) \subseteq queue
    BY <2>1 DEF FInv, IInv, TypeInv, Holding, WithoutJob
  <2>3. RowsInv' /\ \E f \in queue' : f.txn = job[w].txn
    BY <2>1, <2>2, PushRows
  <2>4. WithoutJob(w) \subseteq queue'
    BY <2>1 DEF Push
  <2>5. RowsGoOn
    BY <2>1, <2>3, <2>4, OwnRow DEF RowsGoOn, Busy
  <2> QED
    BY <2>1, <2>3, <2>5
<1> QED
  BY <1>2, <1>3, <1>4, <1>5, <1>6, <1>7, <1>8, <1>9 DEF Work, Apart

LEMMA DispatchRows ==
  ASSUME FInv, NEW t \in Txns, DispatchJob(t)
  PROVE  /\ RowsInv' /\ queue \subseteq queue' /\ \E f \in queue' : f.txn = t
         /\ \A v \in Workers : InCallbackStill(v)
<1>1. Push(t, 0, queue) /\ pc' = pc /\ job' = job
  BY DEF DispatchJob, workerVars, localVars
<1>2. \A v \in Workers : NoNewJob(v)
  BY <1>1 DEF NoNewJob, Busy, FInv, IInv, TypeInv, TypeOK
<1>3. RowsInv' /\ \E f \in queue' : f.txn = t
  BY <1>1, <1>2, PushRows
<1> QED
  BY <1>1, <1>3 DEF Push, InCallbackStill

LEMMA InitFInv == Init => FInv
  BY InitIInv DEF FInv, RowsInv, DoneInv, Busy, Init

LEMMA NextFInv ==
  ASSUME KraStatuses \subseteq {"P", "E"}
  PROVE  FInv /\ [Next]_vars => FInv'
<1> SUFFICES ASSUME FInv, [Next]_vars
             PROVE  FInv'
  OBVIOUS
<1>1. IInv' /\ DoneInv'
  BY NextIInv, NextOnwards, DoneKept DEF FInv
<1>2. RowsInv'
  <2>1. ASSUME UNCHANGED <<queue, nextId, pc, job>>
        PROVE  RowsInv'
    BY <2>1 DEF FInv, RowsInv, Busy
  <2>2. ASSUME NEW t \in Txns, CreateTransaction(t)
        PROVE  RowsInv'
    BY <2>1, <2>2 DEF CreateTransaction, queueVars, workerVars, localVars
  <2>3. CASE LateArrival \/ UNCHANGED vars
    BY <2>1, <2>3 DEF LateArrival, vars, queueVars, workerVars, localVars
  <2> QED
    BY <2>2, <2>3, DispatchRows, RowsOnwards DEF Next, JournalStep
<1> QED
  BY <1>1, <1>2 DEF FInv

\* A failure that fits its column is on record when failed() has ended.
LEMMA ReportedIsSeenTo ==
  ASSUME FInv, NEW w \in Workers, NEW t \in Txns, job[w].txn = t,
         UpdateFailed(w), ~tooLong[w]
  PROVE  SeenTo(t)'
<1>1. hasError'[t]
  BY DEF UpdateFailed, FInv, IInv, TypeInv, TypeOK
<1> QED
  BY <1>1 DEF SeenTo

LEMMA SeenOnwards ==
  ASSUME FInv, [Next]_vars, NEW t \in Txns, SeenTo(t),
         ~ \E w \in Workers : /\ job[w].txn = t
                              /\ \/ Crash(w) /\ pc[w] \in InCallback
                                 \/ UpdateFailed(w) /\ tooLong[w]
  PROVE  SeenTo(t)'
<1>1. Onwards
  BY NextOnwards
<1>2. ASSUME UNCHANGED <<queue, pc, job>>
      PROVE  SeenTo(t)'
  <2>1. RowsGoOn /\ \A v \in Workers : InCallbackStill(v)
    BY <1>2 DEF RowsGoOn, InCallbackStill
  <2> QED
    BY <1>1, <2>1, SeenKept
<1>3. ASSUME NEW u \in Txns, CreateTransaction(u)
      PROVE  SeenTo(t)'
  BY <1>2, <1>3 DEF CreateTransaction, queueVars, workerVars, localVars
<1>4. ASSUME NEW u \in Txns, DispatchJob(u)
      PROVE  SeenTo(t)'
  <2>1. RowsGoOn /\ \A v \in Workers : InCallbackStill(v)
    BY <1>4, DispatchRows DEF RowsGoOn
  <2> QED
    BY <1>1, <2>1, SeenKept
<1>5. ASSUME NEW w \in Workers, Work(w) \/ KillOnTimeout(w) \/ Crash(w)
      PROVE  SeenTo(t)'
  <2>1. /\ RowsGoOn
        /\ \A v \in Workers : v # w \/ ~Apart(w) => InCallbackStill(v)
    BY <1>5, RowsOnwards
  <2>2. CASE job[w].txn = t => InCallbackStill(w)
    <3>1. \A v \in Workers : job[v].txn = t => InCallbackStill(v)
      BY <2>1, <2>2
    <3> QED
      BY <1>1, <2>1, <3>1, SeenKept
  <2>3. CASE job[w].txn = t /\ ~InCallbackStill(w)
    <3>1. Apart(w) /\ pc[w] \in InCallback
      BY <2>1, <2>3 DEF InCallbackStill
    <3>2. UpdateFailed(w) /\ ~tooLong[w]
      BY <2>3, <3>1 DEF Apart
    <3> QED
      BY <2>3, <3>2, ReportedIsSeenTo
  <2> QED
    BY <2>2, <2>3
<1>6. CASE LateArrival \/ UNCHANGED vars
  BY <1>2, <1>6 DEF LateArrival, vars, queueVars, workerVars, localVars
<1> QED
  BY <1>3, <1>4, <1>5, <1>6 DEF Next, JournalStep

\* Two steps only forget a dispatched transaction, in the configuration of the
\* repository as in any other: the death of a worker between the deletion of a
\* failed job and the end of its failed() method, and the update of that method
\* (ProcessKraJournalingJob.php:230) when the message is too long for its column.
THEOREM TwoStepsForget ==
  ASSUME KraStatuses \subseteq {"P", "E"}
  PROVE  Spec => ForgottenByTwoSteps
<1> DEFINE Excused(t) ==
      \E w \in Workers : /\ job[w].txn = t
                         /\ \/ Crash(w) /\ pc[w] \in InCallback
                            \/ UpdateFailed(w) /\ tooLong[w]
<1>1. Init => FInv
  BY InitFInv
<1>2. FInv /\ [Next]_vars => FInv'
  BY NextFInv
<1>3. FInv /\ [Next]_vars => \A t \in Txns : ~Forgotten(t) /\ Forgotten(t)' => Excused(t)
  <2> SUFFICES ASSUME FInv, [Next]_vars, NEW t \in Txns, ~Forgotten(t), Forgotten(t)'
               PROVE  Excused(t)
    OBVIOUS
  <2>1. t \in dispatched' /\ ~SeenTo(t)'
    BY DEF Forgotten, SeenTo
  <2>2. CASE t \in dispatched
    <3>1. SeenTo(t)
      BY <2>2 DEF Forgotten, SeenTo
    <3> QED
      BY <2>1, <3>1, SeenOnwards
  <2>3. CASE t \notin dispatched
    <3>1. dispatched' # dispatched
      BY <2>1, <2>3
    <3>2. \A w \in Workers : Work(w) \/ KillOnTimeout(w) \/ Crash(w) => UNCHANGED dispatched
      BY DEF Work, Pop, RefuseJob, FindTransaction, MarkQueued, SendPart, MarkCompleted,
         DeleteJob, MarkFailed, GiveUp, PutBack, FailJob, FindFailed, UpdateFailed,
         KillOnTimeout, Crash, queueVars
    <3>3. PICK u \in Txns : DispatchJob(u)
      BY <3>1, <3>2 DEF Next, JournalStep, CreateTransaction, LateArrival, queueVars, vars
    <3>4. u = t
      BY <2>1, <2>3, <3>3 DEF DispatchJob
    <3> QED
      BY <2>1, <3>3, <3>4, DispatchRows DEF SeenTo
  <2> QED
    BY <2>2, <2>3
<1> QED
  BY <1>1, <1>2, <1>3, PTL DEF Spec, ForgottenByTwoSteps

-----------------------------------------------------------------------------
(* Overlapping runs multiply, but not without end.  A job that has been    *)
(* reserved a times is worth MostStarts[Tries - a] runs: the run it starts *)
(* next, what that run may put back, and what another worker may make of   *)
(* the same job while it runs.  No step adds to the runs a transaction has *)
(* had and those its jobs and workers are still worth.                     *)

\* Induction, for a set of numbers instead of a predicate.
LEMMA NumbersInduction ==
  ASSUME NEW S, S \subseteq Nat, 0 \in S, \A n \in S : n + 1 \in S
  PROVE  S = Nat
<1> SUFFICES ASSUME Nat \ S # {}
             PROVE  FALSE
  OBVIOUS
<1>1. PICK n \in Nat \ S : \A m \in Nat \ S : <<m, n>> \notin OpToRel(<, Nat)
  BY NatLessThanWellFounded, WFMin
<1>2. \A m \in Nat \ S : ~(m < n)
  BY <1>1 DEF OpToRel
<1>3. n # 0 /\ n - 1 \in Nat /\ n - 1 < n
  OBVIOUS
<1>4. n - 1 \in S /\ n - 1 + 1 = n
  BY <1>2, <1>3
<1> QED
  BY <1>3, <1>4

\* f doubles as MostStarts does, up to n.
Doubles(f, n) ==
  f \in [0..n -> Nat] /\ f[0] = 0 /\ \A i \in 1..n : f[i] = 1 + 2 * f[i - 1]

LEMMA DoublesExist == \A n \in Nat : \E f : Doubles(f, n)
<1> DEFINE S == {n \in Nat : \E f : Doubles(f, n)}
<1>1. 0 \in S
  <2>1. Doubles([i \in 0..0 |-> 0], 0)
    BY DEF Doubles
  <2> QED
    BY <2>1
<1>2. ASSUME NEW n \in S
      PROVE  n + 1 \in S
  <2>1. PICK f : Doubles(f, n)
    OBVIOUS
  <2>2. PICK g : g = [i \in 0..(n + 1) |-> IF i <= n THEN f[i] ELSE 1 + 2 * f[n]]
    OBVIOUS
  <2>3. \A i \in 0..n : f[i] \in Nat /\ g[i] = f[i]
    BY <2>1, <2>2 DEF Doubles
  <2>4. g[n + 1] = 1 + 2 * f[n]
    BY <2>2
  <2>5. \A i \in 1..(n + 1) : g[i] = 1 + 2 * g[i - 1]
    <3> SUFFICES ASSUME NEW i \in 1..(n + 1)
                 PROVE  g[i] = 1 + 2 * g[i - 1]
      OBVIOUS
    <3>1. i - 1 \in 0..n /\ g[i - 1] = f[i - 1]
      BY <2>3
    <3>2. CASE i = n + 1
      BY <2>4, <3>1, <3>2
    <3>3. CASE i # n + 1
      <4>1. i \in 1..n /\ i \in 0..n
        BY <3>3
      <4> QED
        BY <2>1, <2>3, <3>1, <4>1 DEF Doubles
    <3> QED
      BY <3>2, <3>3
  <2>6. g \in [0..(n + 1) -> Nat]
    <3>1. n \in 0..n /\ f[n] \in Nat /\ 1 + 2 * f[n] \in Nat
      BY <2>3
    <3>2. \A i \in 0..(n + 1) : i <= n => f[i] \in Nat
      BY <2>3
    <3> QED
      BY <2>2, <3>1, <3>2
  <2>7. g[0] = 0
    BY <2>1, <2>3 DEF Doubles
  <2> HIDE <2>2
  <2>8. Doubles(g, n + 1)
    BY <2>5, <2>6, <2>7 DEF Doubles
  <2> QED
    BY <2>8
<1>3. S \subseteq Nat
  OBVIOUS
<1> HIDE DEF S
<1>4. S = Nat
  BY <1>1, <1>2, <1>3, NumbersInduction
<1> QED
  BY <1>4 DEF S

LEMMA MostStartsDoubles == Doubles(MostStarts, Tries)
<1>1. PICK f : Doubles(f, Tries)
  BY DoublesExist, TriesAssumption
<1>2. f = [n \in 0..Tries |-> IF n = 0 THEN 0 ELSE 1 + 2 * f[n - 1]]
  <2>1. ASSUME NEW n \in 0..Tries
        PROVE  f[n] = IF n = 0 THEN 0 ELSE 1 + 2 * f[n - 1]
    <3>1. n = 0 \/ n \in 1..Tries
      BY TriesAssumption
    <3> QED
      BY <1>1, <3>1 DEF Doubles
  <2>2. f = [n \in 0..Tries |-> f[n]]
    BY <1>1 DEF Doubles
  <2> QED
    BY <2>1, <2>2
<1>3. MostStarts = [n \in 0..Tries |-> IF n = 0 THEN 0 ELSE 1 + 2 * MostStarts[n - 1]]
  BY <1>2, Zenon DEF MostStarts
<1> DEFINE S == {n \in Nat : n <= Tries => MostStarts[n] \in Nat}
<1>4. 0 \in S
  BY <1>3, TriesAssumption
<1>5. ASSUME NEW n \in S
      PROVE  n + 1 \in S
  BY <1>3, <1>5, TriesAssumption
<1>6. S \subseteq Nat
  OBVIOUS
<1> HIDE DEF S
<1>7. S = Nat
  BY <1>4, <1>5, <1>6, NumbersInduction
<1>8. \A n \in 0..Tries : MostStarts[n] \in Nat
  BY <1>7, TriesAssumption DEF S
<1>9. MostStarts \in [0..Tries -> Nat]
  BY <1>3, <1>8
<1> QED
  BY <1>3, <1>9, TriesAssumption DEF Doubles

\* What is left of a job that has been reserved a times, and of a worker's.
Left(a) == IF a < Tries THEN MostStarts[Tries - a] ELSE 0
Worth(w) == Left(job[w].attempts) + (IF pc[w] = "popped" /\ job[w].attempts <= Tries THEN 1 ELSE 0)

LEMMA LeftDoubles ==
  ASSUME NEW a \in Nat
  PROVE  /\ Left(a) \in Nat
         /\ a < Tries => Left(a) = 1 + 2 * Left(a + 1)
         /\ a >= Tries => Left(a) = 0
<1>1. CASE a >= Tries
  BY <1>1, TriesAssumption DEF Left
<1>2. CASE a < Tries
  <2>1. Tries - a \in 1..Tries /\ (Tries - a) - 1 = Tries - (a + 1) /\ Tries - (a + 1) \in 0..Tries
    BY <1>2, TriesAssumption
  <2>2. MostStarts[Tries - a] = 1 + 2 * MostStarts[Tries - (a + 1)] /\ MostStarts[Tries - (a + 1)] \in Nat
    BY <2>1, MostStartsDoubles DEF Doubles
  <2>3. Left(a + 1) = MostStarts[Tries - (a + 1)]
    <3>1. CASE a + 1 < Tries
      BY <3>1 DEF Left
    <3>2. CASE ~(a + 1 < Tries)
      <4>1. Tries - (a + 1) = 0
        BY <3>2, <2>1, <1>2, TriesAssumption
      <4> QED
        BY <3>2, <4>1, MostStartsDoubles DEF Left, Doubles
    <3> QED
      BY <3>1, <3>2
  <2> QED
    BY <1>2, <2>2, <2>3, TriesAssumption DEF Left
<1> QED
  BY <1>1, <1>2, TriesAssumption

\* The runs the jobs in the table and those in the workers' hands are worth,
\* counted one by one.
JobRuns(t) == {x \in queue \X (Nat \ {0}) : x[1].txn = t /\ x[2] <= Left(x[1].attempts)}
WorkerRuns(t) ==
  {x \in Workers \X (Nat \ {0}) : Busy(x[1]) /\ job[x[1]].txn = t /\ x[2] <= Worth(x[1])}

\* They are no more than the most starts; a transaction that was not dispatched
\* has nothing.
Counted(t) ==
  /\ IsFiniteSet(JobRuns(t)) /\ IsFiniteSet(WorkerRuns(t))
  /\ starts[t] + Cardinality(JobRuns(t)) + Cardinality(WorkerRuns(t)) <= MostStarts[Tries]

Untouched(t) == /\ starts[t] = 0
                /\ \A e \in queue : e.txn # t
                /\ \A w \in Workers : Busy(w) => job[w].txn # t

MultiplyInv == TypeInv /\ \A t \in Txns : Counted(t) /\ (t \notin dispatched => Untouched(t))

\* The first n runs of x.
LEMMA Slice ==
  ASSUME NEW x, NEW n \in Nat
  PROVE  IsFiniteSet({x} \X (1..n)) /\ Cardinality({x} \X (1..n)) = n
<1>1. IsFiniteSet({x}) /\ Cardinality({x}) = 1
  BY FS_Singleton
<1>2. IsFiniteSet(1..n) /\ Cardinality(1..n) = n
  BY FS_Interval
<1>3. IsFiniteSet({x} \X (1..n)) /\ Cardinality({x} \X (1..n)) = Cardinality({x}) * Cardinality(1..n)
  BY <1>1, <1>2, FS_Product
<1> QED
  BY <1>1, <1>2, <1>3

\* A set that loses the runs of x and gains those of y.
LEMMA Exchange ==
  ASSUME NEW S, IsFiniteSet(S), NEW T, NEW x, NEW y, NEW m \in Nat, NEW n \in Nat,
         {x} \X (1..m) \subseteq S, T \subseteq (S \ ({x} \X (1..m))) \cup ({y} \X (1..n))
  PROVE  IsFiniteSet(T) /\ Cardinality(T) <= Cardinality(S) - m + n
<1>0. PICK A, B : A = {x} \X (1..m) /\ B = {y} \X (1..n)
  OBVIOUS
<1>1. /\ IsFiniteSet(A) /\ Cardinality(A) = m
      /\ IsFiniteSet(B) /\ Cardinality(B) = n
  BY <1>0, Slice
<1>2. S \cap A = A
  BY <1>0
<1>3. IsFiniteSet(S \ A) /\ Cardinality(S \ A) = Cardinality(S) - m
  <2>1. IsFiniteSet(S \ A) /\ Cardinality(S \ A) = Cardinality(S) - Cardinality(S \cap A)
    BY FS_Difference
  <2> QED
    BY <1>1, <1>2, <2>1
<1>4. /\ IsFiniteSet((S \ A) \cup B)
      /\ Cardinality((S \ A) \cup B) = Cardinality(S \ A) + Cardinality(B) - Cardinality((S \ A) \cap B)
      /\ Cardinality((S \ A) \cap B) \in Nat
  BY <1>1, <1>3, FS_Union, FS_Intersection, FS_CardinalityType
<1>5. T \in SUBSET ((S \ A) \cup B)
  BY <1>0
<1>6. IsFiniteSet(T) /\ Cardinality(T) <= Cardinality((S \ A) \cup B)
  BY <1>4, <1>5, FS_Subset
<1>7. Cardinality(S) \in Nat /\ Cardinality(T) \in Nat
  BY <1>6, FS_CardinalityType
<1> QED
  BY <1>1, <1>3, <1>4, <1>6, <1>7

LEMMA Fewer ==
  ASSUME NEW S, IsFiniteSet(S), NEW T, T \subseteq S
  PROVE  IsFiniteSet(T) /\ Cardinality(T) <= Cardinality(S)
  BY FS_Subset
LEMMA NumbersOfTypes ==
  ASSUME TypeInv
  PROVE  /\ \A e \in queue : e.attempts \in Nat /\ e.txn \in Txns
         /\ \A w \in Workers : job[w].attempts \in Nat /\ Worth(w) \in Nat
         /\ \A t \in Txns : starts[t] \in Nat
<1>1. /\ \A e \in queue : e.attempts \in Nat /\ e.txn \in Txns
      /\ \A w \in Workers : job[w].attempts \in Nat
      /\ \A t \in Txns : starts[t] \in Nat
  BY DEF TypeInv, TypeOK, Job
<1>2. \A w \in Workers : Left(job[w].attempts) \in Nat
  BY <1>1, LeftDoubles
<1> QED
  BY <1>1, <1>2 DEF Worth

\* A step after which neither table nor workers are worth more, and no run has
\* begun.
LEMMA FewerCounted ==
  ASSUME TypeInv, NEW t \in Txns, Counted(t), starts'[t] = starts[t],
         JobRuns(t)' \subseteq JobRuns(t), WorkerRuns(t)' \subseteq WorkerRuns(t)
  PROVE  Counted(t)'
<1>1. /\ IsFiniteSet(JobRuns(t)') /\ Cardinality(JobRuns(t)') <= Cardinality(JobRuns(t))
      /\ IsFiniteSet(WorkerRuns(t)') /\ Cardinality(WorkerRuns(t)') <= Cardinality(WorkerRuns(t))
  BY Fewer DEF Counted
<1>2. /\ Cardinality(JobRuns(t)') \in Nat /\ Cardinality(JobRuns(t)) \in Nat
      /\ Cardinality(WorkerRuns(t)') \in Nat /\ Cardinality(WorkerRuns(t)) \in Nat
      /\ starts[t] \in Nat /\ MostStarts[Tries] \in Nat
  BY <1>1, FS_CardinalityType, NumbersOfTypes, MostStartsDoubles, TriesAssumption DEF Counted, Doubles
<1> QED
  BY <1>1, <1>2 DEF Counted

\* A step that leaves the table to shrink and takes no job.
LEMMA QuietCounted ==
  ASSUME MultiplyInv, TypeInv', UNCHANGED <<dispatched, starts>>, queue' \subseteq queue,
         \A w \in Workers : pc'[w] = "idle" \/ /\ pc[w] # "idle" /\ job'[w] = job[w]
                                               /\ pc'[w] = "popped" => pc[w] = "popped"
  PROVE  MultiplyInv'
<1>1. ASSUME NEW t \in Txns
      PROVE  Counted(t)'
  <2>1. JobRuns(t)' \subseteq JobRuns(t)
    BY DEF JobRuns
  <2>2. ASSUME NEW w \in Workers, Busy(w)'
        PROVE  Busy(w) /\ job'[w] = job[w] /\ Worth(w)' <= Worth(w) /\ Worth(w) \in Nat /\ Worth(w)' \in Nat
    <3>1. pc[w] # "idle" /\ job'[w] = job[w] /\ (pc'[w] = "popped" => pc[w] = "popped")
      BY <2>2 DEF Busy
    <3>2. job[w].attempts \in Nat /\ Left(job[w].attempts) \in Nat
      BY NumbersOfTypes, LeftDoubles DEF MultiplyInv
    <3> QED
      BY <3>1, <3>2 DEF Worth, Busy
  <2>3. WorkerRuns(t)' \subseteq WorkerRuns(t)
    BY <2>2 DEF WorkerRuns
  <2> QED
    BY <2>1, <2>3, FewerCounted DEF MultiplyInv
<1>2. ASSUME NEW t \in Txns, t \notin dispatched'
      PROVE  Untouched(t)'
  BY <1>2 DEF MultiplyInv, Untouched, Busy
<1> QED
  BY <1>1, <1>2 DEF MultiplyInv

LEMMA DispatchCounted ==
  ASSUME MultiplyInv, TypeInv', NEW u \in Txns, DispatchJob(u)
  PROVE  MultiplyInv'
<1>1. PICK new : /\ new = [id |-> nextId, txn |-> u, attempts |-> 0, reserved |-> FALSE]
                 /\ queue' = queue \cup {new}
  BY DEF DispatchJob, Push
<1>2. /\ u \notin dispatched /\ dispatched' = dispatched \cup {u}
      /\ UNCHANGED <<pc, job, starts>> /\ new.txn = u /\ new.attempts = 0
  BY <1>1 DEF DispatchJob, workerVars, localVars
<1>3. Untouched(u)
  BY <1>2 DEF MultiplyInv
<1>4. \A t : WorkerRuns(t)' = WorkerRuns(t)
  BY <1>2 DEF WorkerRuns, Busy, Worth
<1>5. Counted(u)'
  <2>1. JobRuns(u)' \subseteq {new} \X (1..Left(0))
    BY <1>1, <1>2, <1>3, LeftDoubles DEF JobRuns, Untouched
  <2>2. WorkerRuns(u) = {} /\ starts[u] = 0
    BY <1>3 DEF WorkerRuns, Untouched
  <2>3. Left(0) = MostStarts[Tries] /\ MostStarts[Tries] \in Nat
    BY TriesAssumption, MostStartsDoubles DEF Left, Doubles
  <2>4. /\ IsFiniteSet(JobRuns(u)') /\ Cardinality(JobRuns(u)') <= Left(0)
        /\ Cardinality(JobRuns(u)') \in Nat
    <3>1. PICK n, S : n = Left(0) /\ S = {new} \X (1..n)
      OBVIOUS
    <3>2. IsFiniteSet(S) /\ Cardinality(S) = n
      BY <2>3, <3>1, Slice
    <3>3. JobRuns(u)' \subseteq S
      BY <2>1, <3>1
    <3>4. IsFiniteSet(JobRuns(u)') /\ Cardinality(JobRuns(u)') <= Cardinality(S)
      BY <3>2, <3>3, Fewer
    <3>5. Cardinality(JobRuns(u)') \in Nat
      BY <3>4, FS_CardinalityType
    <3> QED
      BY <3>1, <3>2, <3>4, <3>5
  <2>5. IsFiniteSet(WorkerRuns(u)') /\ Cardinality(WorkerRuns(u)') = 0 /\ starts'[u] = 0
    BY <1>2, <1>4, <2>2, FS_EmptySet
  <2> QED
    BY <2>3, <2>4, <2>5 DEF Counted
<1>6. ASSUME NEW t \in Txns, t # u
      PROVE  Counted(t)' /\ (t \notin dispatched' => Untouched(t)')
  <2>1. JobRuns(t)' = JobRuns(t)
    BY <1>1, <1>2, <1>6 DEF JobRuns
  <2>2. Counted(t)'
    BY <1>2, <1>4, <2>1 DEF Counted, MultiplyInv
  <2>3. t \notin dispatched' => Untouched(t)'
    BY <1>1, <1>2, <1>6 DEF MultiplyInv, Untouched, Busy
  <2> QED
    BY <2>2, <2>3
<1> QED
  BY <1>2, <1>5, <1>6 DEF MultiplyInv

\* Popping a job costs what it was worth at least: the run to come, what that
\* may put back, and the job as it stays in the table.
LEMMA PopCounted ==
  ASSUME MultiplyInv, TypeInv', NEW w \in Workers, Pop(w)
  PROVE  MultiplyInv'
<1>0. PICK e \in queue :
        \E r : /\ r = [id |-> e.id, txn |-> e.txn, attempts |-> e.attempts + 1, reserved |-> TRUE]
              /\ queue' = (queue \ {e}) \cup {r}
              /\ job' = [job EXCEPT ![w] = r]
  BY DEF Pop
<1>1. PICK r :
        /\ r = [id |-> e.id, txn |-> e.txn, attempts |-> e.attempts + 1, reserved |-> TRUE]
        /\ queue' = (queue \ {e}) \cup {r}
        /\ job' = [job EXCEPT ![w] = r]
  BY <1>0
<1>2. /\ pc[w] = "idle" /\ pc' = [pc EXCEPT ![w] = "popped"]
      /\ UNCHANGED <<dispatched, starts>>
      /\ r.txn = e.txn /\ r.attempts = e.attempts + 1
  BY <1>1 DEF Pop, Goto
<1>3. /\ job'[w] = r /\ pc'[w] = "popped"
      /\ \A v \in Workers : v # w => job'[v] = job[v] /\ pc'[v] = pc[v]
  BY <1>1, <1>2 DEF MultiplyInv, TypeInv, TypeOK
<1>4. e.txn \in Txns /\ e.attempts \in Nat /\ r.attempts \in Nat
  BY <1>2, NumbersOfTypes DEF MultiplyInv
<1>5. \A v \in Workers : v # w => Worth(v)' = Worth(v) /\ Busy(v)' = Busy(v)
  BY <1>3 DEF Worth, Busy
<1>6. PICK k, m, n : /\ k = Left(e.attempts) /\ m = Left(r.attempts) /\ n = Worth(w)'
                     /\ k \in Nat /\ m \in Nat /\ n \in Nat /\ m + n <= k
  <2>1. Left(e.attempts) \in Nat /\ Left(r.attempts) \in Nat
    BY <1>4, LeftDoubles
  <2>2. Worth(w)' = Left(r.attempts) + (IF r.attempts <= Tries THEN 1 ELSE 0)
    BY <1>3 DEF Worth
  <2>3. CASE e.attempts < Tries
    <3>1. Left(e.attempts) = 1 + 2 * Left(r.attempts) /\ r.attempts <= Tries
      BY <1>2, <1>4, <2>3, LeftDoubles, TriesAssumption
    <3> QED
      BY <2>1, <2>2, <3>1
  <2>4. CASE ~(e.attempts < Tries)
    <3>1. Left(e.attempts) = 0 /\ Left(r.attempts) = 0 /\ ~(r.attempts <= Tries)
      BY <1>2, <1>4, <2>4, LeftDoubles, TriesAssumption
    <3> QED
      BY <2>1, <2>2, <3>1
  <2> QED
    BY <2>3, <2>4
<1>7. Counted(e.txn)'
  <2> DEFINE t == e.txn
  <2>1. Counted(t)
    BY <1>4 DEF MultiplyInv
  <2>2. /\ {e} \X (1..k) \subseteq JobRuns(t)
        /\ JobRuns(t)' \subseteq (JobRuns(t) \ ({e} \X (1..k))) \cup ({r} \X (1..m))
    BY <1>1, <1>2, <1>4, <1>6 DEF JobRuns
  <2>3. IsFiniteSet(JobRuns(t)') /\ Cardinality(JobRuns(t)') <= Cardinality(JobRuns(t)) - k + m
    <3>1. IsFiniteSet(JobRuns(t))
      BY <2>1 DEF Counted
    <3>2. k \in Nat /\ m \in Nat
      BY <1>6
    <3> HIDE DEF t
    <3> QED
      BY <3>1, <3>2, <2>2, Exchange
  <2>4. WorkerRuns(t)' \subseteq (WorkerRuns(t) \ ({w} \X (1..0))) \cup ({w} \X (1..n))
    BY <1>3, <1>5, <1>6 DEF WorkerRuns
  <2>5. {w} \X (1..0) \subseteq WorkerRuns(t) /\ 0 \in Nat
    OBVIOUS
  <2>6. IsFiniteSet(WorkerRuns(t)') /\ Cardinality(WorkerRuns(t)') <= Cardinality(WorkerRuns(t)) - 0 + n
    <3>1. IsFiniteSet(WorkerRuns(t))
      BY <2>1 DEF Counted
    <3>2. n \in Nat
      BY <1>6
    <3> HIDE DEF t
    <3> QED
      BY <3>1, <3>2, <2>4, <2>5, Exchange
  <2>7. /\ Cardinality(JobRuns(t)') \in Nat /\ Cardinality(JobRuns(t)) \in Nat
        /\ Cardinality(WorkerRuns(t)') \in Nat /\ Cardinality(WorkerRuns(t)) \in Nat
        /\ starts[t] \in Nat /\ MostStarts[Tries] \in Nat
    <3>1. /\ IsFiniteSet(JobRuns(t)') /\ IsFiniteSet(JobRuns(t))
          /\ IsFiniteSet(WorkerRuns(t)') /\ IsFiniteSet(WorkerRuns(t))
      BY <2>1, <2>3, <2>6 DEF Counted
    <3>2. starts[t] \in Nat /\ MostStarts[Tries] \in Nat
      <4>1. starts[t] \in Nat
        BY <1>4, NumbersOfTypes DEF MultiplyInv
      <4>2. MostStarts[Tries] \in Nat
        BY MostStartsDoubles, TriesAssumption DEF Doubles
      <4> QED
        BY <4>1, <4>2
    <3> HIDE DEF t
    <3> QED
      BY <3>1, <3>2, FS_CardinalityType
  <2> QED
    BY <1>2, <1>6, <2>1, <2>3, <2>6, <2>7 DEF Counted
<1>8. ASSUME NEW t \in Txns, t # e.txn
      PROVE  Counted(t)'
  <2>1. JobRuns(t)' \subseteq JobRuns(t)
    BY <1>1, <1>2, <1>8 DEF JobRuns
  <2>2. WorkerRuns(t)' \subseteq WorkerRuns(t)
    BY <1>2, <1>3, <1>5, <1>8 DEF WorkerRuns
  <2> QED
    BY <1>2, <2>1, <2>2, FewerCounted DEF MultiplyInv
<1>9. ASSUME NEW t \in Txns, t \notin dispatched'
      PROVE  Untouched(t)'
  <2>1. Untouched(t) /\ e.txn # t
    BY <1>2, <1>9 DEF MultiplyInv, Untouched
  <2> QED
    BY <1>1, <1>2, <1>3, <1>5, <2>1 DEF Untouched
<1> QED
  BY <1>4, <1>7, <1>8, <1>9 DEF MultiplyInv

\* A start takes the place of the one it was counted as.
LEMMA FindCounted ==
  ASSUME MultiplyInv, TypeInv', NEW w \in Workers, FindTransaction(w)
  PROVE  MultiplyInv'
<1>1. PICK u : u = job[w].txn
  OBVIOUS
<1>2. /\ pc[w] = "popped" /\ job[w].attempts <= Tries
      /\ pc' = [pc EXCEPT ![w] = "loaded"] /\ starts' = [starts EXCEPT ![u] = @ + 1]
      /\ UNCHANGED <<dispatched, queue, job>>
  BY <1>1 DEF FindTransaction, Goto, queueVars
<1>3. u \in Txns
  BY <1>1, <1>2 DEF MultiplyInv, TypeInv, Holding
<1>4. /\ pc'[w] = "loaded" /\ starts'[u] = starts[u] + 1
      /\ \A v \in Workers : v # w => pc'[v] = pc[v]
      /\ \A t \in Txns : t # u => starts'[t] = starts[t]
  BY <1>2, <1>3 DEF MultiplyInv, TypeInv, TypeOK
<1>5. \A v \in Workers : (v # w => Worth(v)' = Worth(v)) /\ Busy(v)' = Busy(v)
  BY <1>2, <1>4 DEF Worth, Busy
<1>6. PICK n \in Nat : n = Worth(w)' /\ Worth(w) = n + 1
  <2>1. Left(job[w].attempts) \in Nat
    BY NumbersOfTypes, LeftDoubles DEF MultiplyInv
  <2> QED
    BY <1>2, <1>4, <2>1 DEF Worth
<1>7. \A t : JobRuns(t)' = JobRuns(t)
  BY <1>2 DEF JobRuns
<1>8. Counted(u)'
  <2>1. Counted(u)
    BY <1>3 DEF MultiplyInv
  <2>2. /\ {w} \X (1..(n + 1)) \subseteq WorkerRuns(u)
        /\ WorkerRuns(u)' \subseteq (WorkerRuns(u) \ ({w} \X (1..(n + 1)))) \cup ({w} \X (1..n))
        /\ n + 1 \in Nat
    BY <1>1, <1>2, <1>4, <1>5, <1>6 DEF WorkerRuns, Busy
  <2>3. /\ IsFiniteSet(WorkerRuns(u)')
        /\ Cardinality(WorkerRuns(u)') <= Cardinality(WorkerRuns(u)) - (n + 1) + n
    BY <2>1, <2>2, Exchange DEF Counted
  <2>4. /\ Cardinality(JobRuns(u)) \in Nat /\ Cardinality(WorkerRuns(u)) \in Nat
        /\ Cardinality(WorkerRuns(u)') \in Nat
        /\ starts[u] \in Nat /\ MostStarts[Tries] \in Nat
    BY <1>3, <2>1, <2>3, FS_CardinalityType, NumbersOfTypes, MostStartsDoubles,
       TriesAssumption DEF Counted, Doubles, MultiplyInv
  <2> QED
    BY <1>4, <1>7, <2>1, <2>3, <2>4 DEF Counted
<1>9. ASSUME NEW t \in Txns, t # u
      PROVE  Counted(t)'
  <2>1. WorkerRuns(t)' \subseteq WorkerRuns(t)
    BY <1>1, <1>2, <1>5, <1>9 DEF WorkerRuns
  <2> QED
    BY <1>4, <1>7, <1>9, <2>1, FewerCounted DEF MultiplyInv
<1>10. ASSUME NEW t \in Txns, t \notin dispatched'
       PROVE  Untouched(t)'
  <2>1. Untouched(t) /\ t # u
    BY <1>1, <1>2, <1>10 DEF MultiplyInv, Untouched, Busy
  <2> QED
    BY <1>2, <1>4, <1>5, <2>1 DEF Untouched
<1> QED
  BY <1>3, <1>8, <1>9, <1>10 DEF MultiplyInv

\* What is put back is worth what the run that puts it back was.
LEMMA PutBackCounted ==
  ASSUME MultiplyInv, TypeInv', NEW w \in Workers, PutBack(w)
  PROVE  MultiplyInv'
<1>1. PICK u, new :
        /\ u = job[w].txn
        /\ new = [id |-> nextId, txn |-> u, attempts |-> job[w].attempts, reserved |-> FALSE]
        /\ queue' = WithoutJob(w) \cup {new}
  BY DEF PutBack, Push
<1>2. /\ pc[w] = "thrown" /\ pc' = [pc EXCEPT ![w] = "idle"] /\ job' = [job EXCEPT ![w] = NoJob]
      /\ UNCHANGED <<dispatched, starts>>
      /\ new.txn = u /\ new.attempts = job[w].attempts
  BY <1>1 DEF PutBack, Release, Goto
<1>3. u \in Txns
  BY <1>1, <1>2 DEF MultiplyInv, TypeInv, Holding
<1>4. /\ pc'[w] = "idle"
      /\ \A v \in Workers : v # w => pc'[v] = pc[v] /\ job'[v] = job[v]
      /\ \A e \in queue' : e \in queue \/ e = new
  BY <1>1, <1>2 DEF MultiplyInv, TypeInv, TypeOK, WithoutJob
<1>5. \A v \in Workers : v # w => Worth(v)' = Worth(v) /\ Busy(v)' = Busy(v)
  BY <1>4 DEF Worth, Busy
<1>6. PICK n \in Nat : n = Worth(w) /\ n = Left(new.attempts)
  BY <1>2, NumbersOfTypes, LeftDoubles DEF MultiplyInv, Worth
<1>7. Counted(u)'
  <2>1. Counted(u)
    BY <1>3 DEF MultiplyInv
  <2>2. /\ {w} \X (1..n) \subseteq WorkerRuns(u)
        /\ WorkerRuns(u)' \subseteq (WorkerRuns(u) \ ({w} \X (1..n))) \cup ({w} \X (1..0))
        /\ 0 \in Nat
    <3>1. {w} \X (1..n) \subseteq WorkerRuns(u)
      <4>1. pc[w] # "idle" /\ job[w].txn = u /\ n = Worth(w) /\ n \in Nat
        BY <1>1, <1>2, <1>6
      <4>2. \A i \in 1..n : i \in Nat \ {0} /\ i <= n
        BY <1>6
      <4> QED
        BY <4>1, <4>2 DEF WorkerRuns, Busy
    <3>2. ASSUME NEW x \in WorkerRuns(u)'
          PROVE  x \in WorkerRuns(u) /\ x \notin {w} \X (1..n)
      <4>1. x[1] # w /\ x[1] \in Workers
        BY <1>4, <3>2 DEF WorkerRuns, Busy
      <4>2. x \in WorkerRuns(u)
        BY <1>4, <1>5, <3>2, <4>1 DEF WorkerRuns, Busy
      <4> QED
        BY <4>1, <4>2
    <3> QED
      BY <3>1, <3>2
  <2>3. /\ IsFiniteSet(WorkerRuns(u)')
        /\ Cardinality(WorkerRuns(u)') <= Cardinality(WorkerRuns(u)) - n + 0
    BY <2>1, <2>2, Exchange DEF Counted
  <2>4. /\ {new} \X (1..0) \subseteq JobRuns(u)
        /\ JobRuns(u)' \subseteq (JobRuns(u) \ ({new} \X (1..0))) \cup ({new} \X (1..n))
    BY <1>4, <1>6 DEF JobRuns
  <2>5. IsFiniteSet(JobRuns(u)') /\ Cardinality(JobRuns(u)') <= Cardinality(JobRuns(u)) - 0 + n
    BY <2>1, <2>2, <2>4, Exchange DEF Counted
  <2>6. /\ Cardinality(JobRuns(u)) \in Nat /\ Cardinality(WorkerRuns(u)) \in Nat
        /\ Cardinality(JobRuns(u)') \in Nat /\ Cardinality(WorkerRuns(u)') \in Nat
        /\ starts[u] \in Nat /\ MostStarts[Tries] \in Nat
    BY <1>3, <2>1, <2>3, <2>5, FS_CardinalityType, NumbersOfTypes, MostStartsDoubles,
       TriesAssumption DEF Counted, Doubles, MultiplyInv
  <2> QED
    BY <1>2, <2>1, <2>3, <2>5, <2>6 DEF Counted
<1>8. ASSUME NEW t \in Txns, t # u
      PROVE  Counted(t)'
  <2>1. JobRuns(t)' \subseteq JobRuns(t)
    BY <1>2, <1>4, <1>8 DEF JobRuns
  <2>2. WorkerRuns(t)' \subseteq WorkerRuns(t)
    BY <1>4, <1>5, <1>8 DEF WorkerRuns, Busy
  <2> QED
    BY <1>2, <2>1, <2>2, FewerCounted DEF MultiplyInv
<1>9. ASSUME NEW t \in Txns, t \notin dispatched'
      PROVE  Untouched(t)'
  <2>1. Untouched(t) /\ t # u
    BY <1>1, <1>2, <1>9 DEF MultiplyInv, Untouched, Busy
  <2> QED
    BY <1>2, <1>4, <1>5, <2>1 DEF Untouched, Busy
<1> QED
  BY <1>3, <1>7, <1>8, <1>9 DEF MultiplyInv

LEMMA InitMultiplyInv == Init => MultiplyInv
<1> SUFFICES ASSUME Init
             PROVE  MultiplyInv
  OBVIOUS
<1>1. \A t \in Txns : JobRuns(t) = {} /\ WorkerRuns(t) = {} /\ Untouched(t)
  BY DEF Init, JobRuns, WorkerRuns, Untouched, Busy
<1>2. MostStarts[Tries] \in Nat
  BY MostStartsDoubles, TriesAssumption DEF Doubles
<1> QED
  BY <1>1, <1>2, InitTypeInv, FS_EmptySet DEF MultiplyInv, Counted, Untouched

LEMMA NextMultiplyInv == MultiplyInv /\ [Next]_vars => MultiplyInv'
<1> SUFFICES ASSUME MultiplyInv, [Next]_vars
             PROVE  MultiplyInv'
  OBVIOUS
<1>0. TypeInv'
  BY NextTypeInv DEF MultiplyInv
<1> USE DEF Goto, TypeInv, TypeOK
<1>1. ASSUME NEW w \in Workers,
             \/ RefuseJob(w) \/ MarkQueued(w) \/ MarkCompleted(w) \/ MarkFailed(w) \/ GiveUp(w)
             \/ FindFailed(w) \/ SendPart(w) \/ DeleteJob(w) \/ FailJob(w) \/ UpdateFailed(w)
      PROVE  MultiplyInv'
  <2>1. UNCHANGED <<dispatched, starts>> /\ queue' \subseteq queue
    BY <1>1 DEF RefuseJob, MarkQueued, MarkCompleted, MarkFailed, GiveUp, FindFailed, SendPart,
                DeleteJob, FailJob, UpdateFailed, queueVars, WithoutJob
  <2>2. \A v \in Workers : v # w => pc'[v] = pc[v] /\ job'[v] = job[v]
    BY <1>1 DEF RefuseJob, MarkQueued, MarkCompleted, MarkFailed, GiveUp, FindFailed, SendPart,
                DeleteJob, FailJob, UpdateFailed, Release, localVars, MultiplyInv
  <2>3. pc'[w] = "idle" \/ (pc[w] # "idle" /\ job'[w] = job[w] /\ pc'[w] # "popped")
    BY <1>1 DEF RefuseJob, MarkQueued, MarkCompleted, MarkFailed, GiveUp, FindFailed, SendPart,
                DeleteJob, FailJob, UpdateFailed, Release, localVars, MultiplyInv
  <2> QED
    BY <1>0, <2>1, <2>2, <2>3, QuietCounted DEF MultiplyInv
<1>2. ASSUME NEW w \in Workers, KillOnTimeout(w) \/ Crash(w)
      PROVE  MultiplyInv'
  <2>1. UNCHANGED <<dispatched, starts>> /\ queue' \subseteq queue
    BY <1>2 DEF KillOnTimeout, Crash, queueVars
  <2>2. \A v \in Workers : v # w => pc'[v] = pc[v] /\ job'[v] = job[v]
    BY <1>2 DEF KillOnTimeout, Crash, Release, MultiplyInv
  <2>3. pc'[w] = "idle" \/ (pc[w] # "idle" /\ job'[w] = job[w] /\ pc'[w] # "popped")
    BY <1>2 DEF KillOnTimeout, Crash, Release, MultiplyInv
  <2> QED
    BY <1>0, <2>1, <2>2, <2>3, QuietCounted DEF MultiplyInv
<1>3. CASE LateArrival \/ UNCHANGED vars \/ \E t \in Txns : CreateTransaction(t)
  <2>1. UNCHANGED <<dispatched, starts, queue, pc, job>>
    BY <1>3 DEF LateArrival, CreateTransaction, vars, queueVars, workerVars, localVars
  <2> QED
    BY <1>0, <2>1, QuietCounted
<1> QED
  BY <1>0, <1>1, <1>2, <1>3, DispatchCounted, PopCounted, FindCounted, PutBackCounted
     DEF Next, JournalStep, Work

\* However workers overlap, and whatever dies, handle() starts no oftener for one
\* dispatch than each of its attempts, doubled by those before it, allows; and no
\* oftener than $tries when runs are exclusive.
THEOREM StartsAreBounded == Spec => []StartsBounded
<1>1. MultiplyInv => \A t \in Txns : starts[t] <= MostStarts[Tries]
  <2> SUFFICES ASSUME MultiplyInv, NEW t \in Txns
               PROVE  starts[t] <= MostStarts[Tries]
    OBVIOUS
  <2>1. /\ Cardinality(JobRuns(t)) \in Nat /\ Cardinality(WorkerRuns(t)) \in Nat
        /\ starts[t] \in Nat /\ MostStarts[Tries] \in Nat
    BY FS_CardinalityType, NumbersOfTypes, MostStartsDoubles, TriesAssumption
       DEF Counted, Doubles, MultiplyInv
  <2> QED
    BY <2>1 DEF MultiplyInv, Counted
<1>2. CASE Overlap
  <2>1. MultiplyInv => StartsBounded
    BY <1>1, <1>2 DEF StartsBounded
  <2> QED
    BY <2>1, InitMultiplyInv, NextMultiplyInv, PTL DEF Spec
<1>3. CASE ~Overlap
  BY <1>3, StartsAtMostTries
<1> QED
  BY <1>2, <1>3
=============================================================================
