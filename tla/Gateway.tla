------------------------------- MODULE Gateway -------------------------------
(***************************************************************************)
(* The gateway as a whole: signing (KraSales) and journaling               *)
(* (KraJournaling) over one database.  A sale that is stored is a row of   *)
(* `transactions` with status PENDING, and dispatching its job inserts it  *)
(* in `jobs`; every other step belongs to one of the two sides.            *)
(***************************************************************************)
EXTENDS KraJournaling

CONSTANTS Requests, NoRequest

ASSUME GatewayAssumption == NoRequest \notin Requests /\ NoRequest \notin Txns

VARIABLES web, saleOf, signed, lateSign, row

Sale == INSTANCE KraSales WITH Sales <- Txns

gatewayVars == <<vars, web, saleOf, signed, lateSign, row>>
webVars == <<web, saleOf, signed, lateSign, row>>

GatewayInit == Init /\ Sale!Init

\* A mistake to catch: the row is not saved.
StoreNothing(q) == Sale!Store(q) /\ UNCHANGED vars

\* Transaction::create.
StoreSale(q) == Sale!Store(q) /\ CreateTransaction(saleOf[q]) /\ UNCHANGED dispatched

\* ProcessKraJournalingJob::dispatch, then the answer to the client.
DispatchSale(q) == Sale!DispatchAndAnswer(q) /\ DispatchJob(saleOf[q])

\* What a request does of its own accord.
Serve(q) ==
  \/ (Sale!Sign(q) \/ Sale!RefuseDuplicate(q)) /\ UNCHANGED vars
  \/ StoreSale(q)
  \/ DispatchSale(q)

GatewayNext ==
  \/ \E q \in Requests : \/ Sale!WebStep(q) /\ UNCHANGED vars
                         \/ StoreSale(q) \/ DispatchSale(q)
  \/ JournalStep /\ UNCHANGED webVars

GatewaySpec == GatewayInit /\ [][GatewayNext]_gatewayVars

\* Workers are kept running, as in KraJournaling, and PHP executes a request
\* to its end unless the process dies or the database fails.
GatewayFairness ==
  /\ \A w \in Workers : WF_gatewayVars(Work(w) /\ UNCHANGED webVars)
  /\ \A q \in Requests : WF_gatewayVars(Serve(q))

FairGatewaySpec == GatewaySpec /\ GatewayFairness

-----------------------------------------------------------------------------
(* Properties.                                                             *)

Settled(t) == status[t] \in {"COMPLETED", "FAILED"}

\* Types of the web side, and the two views of one table: a sale has a status
\* exactly when it has a row.
GatewayTypeOK ==
  /\ Sale!TypeOK
  /\ \A t \in Txns : row[t] = NoRequest <=> status[t] = "absent"

\* Everything KRA's central API holds of a sale was stored and signed first.
JournaledWasSigned ==
  \A m \in journal : row[m[1]] \in signed

\* Exclusive runs and no worker crash: once the client has its answer, the
\* sale ends COMPLETED or FAILED for good, even if every PHP process that
\* serves requests dies.
AnsweredSettles ==
  \A q \in Requests, t \in Txns :
    web[q] = "answered" /\ saleOf[q] = t ~> [](Settled(t))

\* README.md:60, "Reliable background submission of detailed line-item data and
\* transaction journals": a signed sale that is stored gets an outcome.
StoredSettles ==
  \A t \in Txns : status[t] = "PENDING" ~> Settled(t)
=============================================================================
