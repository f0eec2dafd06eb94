---------------------------- MODULE Gateway_proofs ----------------------------
(***************************************************************************)
(* The gateway as a whole behaves, for every number of sales, requests and *)
(* workers, as its two sides do by themselves: every step of it is a step  *)
(* of signing or leaves signing alone, and every step of it is a step of   *)
(* journaling or leaves journaling alone.  What is proved of either side   *)
(* therefore holds of the gateway.                                         *)
(*                                                                         *)
(* The two sides meet in one table, and in one fact the composition adds:  *)
(* a sale has a status exactly when it has a row, because nothing but the  *)
(* insertion of the row gives it one and no worker ever holds the job of   *)
(* a sale that is not stored.                                              *)
(***************************************************************************)
EXTENDS Gateway, KraJournaling_proofs

SaleP == INSTANCE KraSales_proofs WITH Sales <- Txns

USE DEF InHandle, Ending, InCallback, PC

\* Signing as the model and as the proofs about it name it.
LEMMA SameSales ==
  /\ Sale!Init <=> SaleP!Init
  /\ Sale!TypeOK <=> SaleP!TypeOK
  /\ \A q \in Requests : /\ Sale!WebStep(q) <=> SaleP!WebStep(q)
                         /\ Sale!Store(q) <=> SaleP!Store(q)
                         /\ Sale!DispatchAndAnswer(q) <=> SaleP!DispatchAndAnswer(q)
<1> USE DEF Sale!Goto, SaleP!Goto, Sale!deviceVars, SaleP!deviceVars
<1>1. Sale!Init <=> SaleP!Init
  BY DEF Sale!Init, SaleP!Init
<1>2. Sale!TypeOK <=> SaleP!TypeOK
  BY DEF Sale!TypeOK, SaleP!TypeOK, Sale!Web, SaleP!Web
<1>3. ASSUME NEW q \in Requests
      PROVE  /\ Sale!WebStep(q) <=> SaleP!WebStep(q)
             /\ Sale!Store(q) <=> SaleP!Store(q)
             /\ Sale!DispatchAndAnswer(q) <=> SaleP!DispatchAndAnswer(q)
  <2>1. \A s \in Txns : Sale!Receive(q, s) <=> SaleP!Receive(q, s)
    BY DEF Sale!Receive, SaleP!Receive
  <2>2. \A reply : Sale!Transmit(q, reply) <=> SaleP!Transmit(q, reply)
    BY DEF Sale!Transmit, SaleP!Transmit, Sale!MayBeAccepted, SaleP!MayBeAccepted,
       Sale!MayBeRefused, SaleP!MayBeRefused, Sale!NoReply, SaleP!NoReply
  <2>3. Sale!Sign(q) <=> SaleP!Sign(q)
    BY <2>2 DEF Sale!Sign, SaleP!Sign, Sale!Replies, SaleP!Replies, Sale!NoReply,
       SaleP!NoReply, Sale!SendCommandThrows, SaleP!SendCommandThrows
  <2>4. Sale!RefuseDuplicate(q) <=> SaleP!RefuseDuplicate(q)
    BY DEF Sale!RefuseDuplicate, SaleP!RefuseDuplicate
  <2>5. Sale!DatabaseFails(q) <=> SaleP!DatabaseFails(q)
    BY DEF Sale!DatabaseFails, SaleP!DatabaseFails
  <2>6. Sale!Die(q) <=> SaleP!Die(q)
    BY <2>2 DEF Sale!Die, SaleP!Die, Sale!Live, SaleP!Live, Sale!NoReply, SaleP!NoReply
  <2>7. Sale!SignLate(q) <=> SaleP!SignLate(q)
    BY DEF Sale!SignLate, SaleP!SignLate
  <2>8. Sale!WebStep(q) <=> SaleP!WebStep(q)
    BY <2>1, <2>3, <2>4, <2>5, <2>6, <2>7 DEF Sale!WebStep, SaleP!WebStep
  <2>9. Sale!Store(q) <=> SaleP!Store(q)
    BY DEF Sale!Store, SaleP!Store
  <2>10. Sale!DispatchAndAnswer(q) <=> SaleP!DispatchAndAnswer(q)
    BY DEF Sale!DispatchAndAnswer, SaleP!DispatchAndAnswer
  <2> QED
    BY <2>8, <2>9, <2>10
<1> QED
  BY <1>1, <1>2, <1>3

-----------------------------------------------------------------------------
(* Both sides see only steps of their own.                                 *)

\* Only the web process dispatches.
LEMMA WorkersDispatchNothing == JournalStep => UNCHANGED dispatched
  BY DEF JournalStep, Work, Pop, RefuseJob, FindTransaction, MarkQueued, SendPart,
     MarkCompleted, DeleteJob, MarkFailed, GiveUp, PutBack, FailJob, FindFailed,
     UpdateFailed, KillOnTimeout, Crash, LateArrival, queueVars

\* A step of the gateway that is not idle, as both sides see it.
LEMMA StepOfBothSides ==
  ASSUME SaleP!TypeInv, [GatewayNext]_gatewayVars
  PROVE  /\ [Next]_vars
         /\ [Sale!Next]_(Sale!salesVars)
         /\ [SaleP!Next]_(SaleP!salesVars)
<1>1. ASSUME NEW q \in Requests, Sale!WebStep(q), UNCHANGED vars
      PROVE  Sale!Next /\ SaleP!Next
  BY <1>1, SameSales DEF Sale!Next, SaleP!Next
<1>2. ASSUME NEW q \in Requests, StoreSale(q)
      PROVE  Next /\ Sale!Next /\ SaleP!Next
  <2>1. saleOf[q] \in Txns
    BY <1>2 DEF StoreSale, Sale!Store, SaleP!TypeInv, SaleP!ForSale
  <2> QED
    BY <1>2, <2>1, SameSales DEF StoreSale, Next, Sale!Next, SaleP!Next
<1>3. ASSUME NEW q \in Requests, DispatchSale(q)
      PROVE  Next /\ Sale!Next /\ SaleP!Next
  <2>1. saleOf[q] \in Txns
    BY <1>3 DEF DispatchSale, Sale!DispatchAndAnswer, SaleP!TypeInv, SaleP!ForSale
  <2> QED
    BY <1>3, <2>1, SameSales DEF DispatchSale, Next, Sale!Next, SaleP!Next
<1>4. ASSUME JournalStep, UNCHANGED webVars
      PROVE  Next /\ UNCHANGED <<Sale!salesVars, SaleP!salesVars>>
  BY <1>4, WorkersDispatchNothing DEF Next, webVars, Sale!salesVars, SaleP!salesVars
<1>5. CASE UNCHANGED gatewayVars
  BY <1>5 DEF gatewayVars, vars, Sale!salesVars, SaleP!salesVars
<1> QED
  BY <1>1, <1>2, <1>3, <1>4, <1>5 DEF GatewayNext

\* Seen from journaling, the gateway is journaling: a sale is created and its
\* job dispatched once, whatever the requests for it do.
THEOREM GatewayJournals == GatewaySpec => Spec
<1>1. GatewayInit => Init /\ SaleP!TypeInv
  BY SameSales, SaleP!InitTypeInv, GatewayAssumption, KraStatusesAssumption DEF GatewayInit
<1>2. SaleP!TypeInv /\ [GatewayNext]_gatewayVars => SaleP!TypeInv' /\ [Next]_vars
  BY StepOfBothSides, SaleP!NextTypeInv, GatewayAssumption, KraStatusesAssumption
<1> QED
  BY <1>1, <1>2, PTL DEF GatewaySpec, Spec

\* Seen from signing, the gateway is signing: workers touch no request, no row
\* and no signature.
THEOREM GatewaySigns == GatewaySpec => Sale!Spec
<1>1. GatewayInit => Sale!Init /\ SaleP!TypeInv
  BY SameSales, SaleP!InitTypeInv, GatewayAssumption, KraStatusesAssumption DEF GatewayInit
<1>2. SaleP!TypeInv /\ [GatewayNext]_gatewayVars
      => SaleP!TypeInv' /\ [Sale!Next]_(Sale!salesVars)
  BY StepOfBothSides, SaleP!NextTypeInv, GatewayAssumption, KraStatusesAssumption
<1> QED
  BY <1>1, <1>2, PTL DEF GatewaySpec, Sale!Spec

-----------------------------------------------------------------------------
(* Where the sides meet.                                                   *)

\* One table: a sale has a status exactly when it has a row.
OneTable == \A t \in Txns : row[t] = NoRequest <=> status[t] = "absent"

\* What KRA's central API holds is of dispatched sales.
JournaledWasDispatched == \A m \in journal : m[1] \in dispatched

GatewayInv ==
  /\ TypeInv
  /\ SaleP!TypeInv
  /\ AboutStored
  /\ OneTable
  /\ JournaledWasDispatched

\* A worker gives a status to the transaction of its job only, and none but the
\* status of a stored sale.
LEMMA WorkersCreateNothing ==
  ASSUME TypeInv, AboutStored, JournalStep, NEW t \in Txns
  PROVE  status'[t] = "absent" <=> status[t] = "absent"
<1> USE DEF TypeInv, TypeOK, AboutStored, Holding, Goto
<1>1. ASSUME NEW w \in Workers, MarkQueued(w) \/ MarkCompleted(w) \/ MarkFailed(w) \/ UpdateFailed(w)
      PROVE  /\ job[w].txn \in Txns /\ status[job[w].txn] # "absent"
             /\ \/ UNCHANGED status
                \/ \E s \in {"QUEUED", "COMPLETED", "FAILED"} :
                     status' = [status EXCEPT ![job[w].txn] = s]
  BY <1>1 DEF MarkQueued, MarkCompleted, MarkFailed, UpdateFailed, dbVars
<1>2. CASE UNCHANGED status
  BY <1>2
<1>3. CASE \E w \in Workers : MarkQueued(w) \/ MarkCompleted(w) \/ MarkFailed(w) \/ UpdateFailed(w)
  <2>1. PICK w \in Workers : MarkQueued(w) \/ MarkCompleted(w) \/ MarkFailed(w) \/ UpdateFailed(w)
    BY <1>3
  <2>2. PICK s \in {"QUEUED", "COMPLETED", "FAILED"} :
          \/ UNCHANGED status
          \/ status' = [status EXCEPT ![job[w].txn] = s]
    BY <1>1, <2>1
  <2> QED
    BY <1>1, <2>1, <2>2
<1> QED
  BY <1>2, <1>3 DEF JournalStep, Work, Pop, RefuseJob, FindTransaction, SendPart,
     DeleteJob, GiveUp, PutBack, FailJob, FindFailed, KillOnTimeout, Crash, LateArrival, dbVars

\* A worker sends messages of the job in its hands only.
LEMMA WorkersJournalTheirJobs ==
  ASSUME TypeInv, AboutStored, JournalStep, JournaledWasDispatched
  PROVE  JournaledWasDispatched'
<1> USE DEF AboutStored, JournaledWasDispatched
<1>1. UNCHANGED dispatched
  BY WorkersDispatchNothing
<1>2. ASSUME NEW w \in Workers, SendPart(w) \/ KillOnTimeout(w) \/ Crash(w)
      PROVE  JournaledWasDispatched'
  <2>1. PICK m : m = <<job[w].txn, part[w]>>
    OBVIOUS
  <2>2. pc[w] = "sending" => m[1] \in dispatched
    BY <2>1
  <2>3. \/ UNCHANGED journal
        \/ pc[w] = "sending" /\ journal' = journal \cup {m}
    BY <1>2, <2>1 DEF SendPart, KillOnTimeout, Crash, AbandonMessage, Transmit, kraVars
  <2> QED
    BY <1>1, <2>2, <2>3
<1>3. CASE LateArrival
  BY <1>1, <1>3 DEF LateArrival
<1>4. CASE UNCHANGED journal
  BY <1>1, <1>4
<1> QED
  BY <1>2, <1>3, <1>4 DEF JournalStep, Work, Pop, RefuseJob, FindTransaction, MarkQueued,
     MarkCompleted, DeleteJob, MarkFailed, GiveUp, PutBack, FailJob, FindFailed,
     UpdateFailed, kraVars

LEMMA InitGatewayInv == GatewayInit => GatewayInv
<1> SUFFICES ASSUME GatewayInit
             PROVE  GatewayInv
  OBVIOUS
<1>1. SaleP!Init
  BY SameSales DEF GatewayInit
<1>2. SaleP!TypeInv
  BY <1>1, SaleP!InitTypeInv, GatewayAssumption, KraStatusesAssumption
<1> QED
  BY <1>1, <1>2, InitTypeInv, InitAboutStored
     DEF GatewayInit, Init, SaleP!Init, GatewayInv, OneTable, JournaledWasDispatched

LEMMA NextGatewayInv == GatewayInv /\ [GatewayNext]_gatewayVars => GatewayInv'
<1> SUFFICES ASSUME GatewayInv, [GatewayNext]_gatewayVars
             PROVE  GatewayInv'
  OBVIOUS
<1> USE DEF GatewayInv
<1>1. [Next]_vars /\ [SaleP!Next]_(SaleP!salesVars)
  BY StepOfBothSides
<1>2. TypeInv' /\ AboutStored'
  BY <1>1, NextTypeInv, NextAboutStored
<1>3. SaleP!TypeInv'
  BY <1>1, SaleP!NextTypeInv, GatewayAssumption, KraStatusesAssumption
<1>4. OneTable' /\ JournaledWasDispatched'
  <2>1. ASSUME NEW q \in Requests, Sale!WebStep(q), UNCHANGED vars
        PROVE  OneTable' /\ JournaledWasDispatched'
    BY <2>1 DEF vars, Sale!WebStep, Sale!Receive, Sale!Sign, Sale!RefuseDuplicate,
       Sale!DatabaseFails, Sale!Die, Sale!SignLate, OneTable, JournaledWasDispatched
  <2>2. ASSUME NEW q \in Requests, StoreSale(q)
        PROVE  OneTable' /\ JournaledWasDispatched'
    BY <2>2, GatewayAssumption
       DEF StoreSale, Sale!Store, CreateTransaction, kraVars, SaleP!TypeInv, SaleP!TypeOK,
           TypeInv, TypeOK, OneTable, JournaledWasDispatched
  <2>3. ASSUME NEW q \in Requests, DispatchSale(q)
        PROVE  OneTable' /\ JournaledWasDispatched'
    BY <2>3 DEF DispatchSale, Sale!DispatchAndAnswer, DispatchJob, dbVars, kraVars, OneTable,
       JournaledWasDispatched
  <2>4. ASSUME JournalStep, UNCHANGED webVars
        PROVE  OneTable' /\ JournaledWasDispatched'
    BY <2>4, WorkersCreateNothing, WorkersJournalTheirJobs DEF webVars, OneTable
  <2>5. CASE UNCHANGED gatewayVars
    BY <2>5 DEF gatewayVars, vars, OneTable, JournaledWasDispatched
  <2> QED
    BY <2>1, <2>2, <2>3, <2>4, <2>5 DEF GatewayNext
<1> QED
  BY <1>2, <1>3, <1>4

\* The web side keeps its types, and a sale has a status exactly when it has a
\* row, however requests, workers and crashes interleave.
THEOREM GatewayTypesCorrect == GatewaySpec => []GatewayTypeOK
<1>1. GatewayInit => GatewayInv
  BY InitGatewayInv
<1>2. GatewayInv /\ [GatewayNext]_gatewayVars => GatewayInv'
  BY NextGatewayInv
<1>3. GatewayInv => GatewayTypeOK
  BY SameSales DEF GatewayInv, SaleP!TypeInv, OneTable, GatewayTypeOK
<1> QED
  BY <1>1, <1>2, <1>3, PTL DEF GatewaySpec

\* Everything KRA's central API holds of a sale was stored and signed first,
\* when every status it may answer is an acceptance or a rejection.
THEOREM JournaledSalesWereSigned ==
  ASSUME KraStatuses \subseteq {"P", "E"}
  PROVE  GatewaySpec => []JournaledWasSigned
<1>1. GatewayInit => GatewayInv /\ SaleP!IInv
  <2>1. GatewayInit => SaleP!IInv
    BY SameSales, SaleP!InitIInv, GatewayAssumption, KraStatusesAssumption DEF GatewayInit
  <2> QED
    BY <2>1, InitGatewayInv
<1>2. GatewayInv /\ SaleP!IInv /\ [GatewayNext]_gatewayVars => (GatewayInv /\ SaleP!IInv)'
  <2> SUFFICES ASSUME GatewayInv, SaleP!IInv, [GatewayNext]_gatewayVars
               PROVE  GatewayInv' /\ SaleP!IInv'
    OBVIOUS
  <2>1. [SaleP!Next]_(SaleP!salesVars)
    BY StepOfBothSides DEF GatewayInv
  <2>2. SaleP!IInv'
    BY <2>1, SaleP!NextIInv, GatewayAssumption, KraStatusesAssumption
  <2> QED
    BY <2>2, NextGatewayInv
<1>3. GatewayInv /\ SaleP!IInv => JournaledWasSigned
  BY DEF GatewayInv, TypeInv, TypeOK, AboutStored, OneTable, JournaledWasDispatched,
     SaleP!IInv, SaleP!RowInv, JournaledWasSigned
<1> QED
  BY <1>1, <1>2, <1>3, PTL DEF GatewaySpec

\* Whatever dies in the gateway, whether runs overlap or not and however long
\* KRA's messages are, a dispatched sale keeps a job, a worker that will report
\* its failure or an outcome on record, but for the two steps of
\* ProcessKraJournalingJob::failed() that ForgottenByTwoSteps names.
THEOREM GatewayForgetsByTwoSteps ==
  ASSUME KraStatuses \subseteq {"P", "E"}
  PROVE  GatewaySpec => ForgottenByTwoSteps
BY GatewayJournals, TwoStepsForget
=============================================================================
