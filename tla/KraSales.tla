------------------------------ MODULE KraSales ------------------------------
(***************************************************************************)
(* Synchronous signing: POST /api/v1/transactions, that is                 *)
(* KraSalesController::process and KraSalesService::processTransaction.    *)
(* A request for a sale has the KRA device sign the receipt, stores the    *)
(* signed sale and dispatches its journaling job.  A sale is what the      *)
(* unique index of `transactions` identifies: device, internal receipt     *)
(* number, receipt type and transaction type.  A client that got no answer *)
(* or an error may send a further request for the same sale, and may also  *)
(* send two at a time.                                                     *)
(*                                                                         *)
(* A request asks the device for one signature at most, so a signature is  *)
(* named by the request it was made for.                                   *)
(***************************************************************************)
EXTENDS KraApi

CONSTANTS
  Sales,      \* sales, by the unique index of the table `transactions`
  Requests,   \* HTTP requests of the clients
  NoRequest   \* in place of a request where there is none

ASSUME NoRequestAssumption == NoRequest \notin Requests
ASSUME NoSaleAssumption == NoRequest \notin Sales

VARIABLES
  web,         \* where each request is
  saleOf,      \* the sale each request is for
  signed,      \* the requests whose receipt the device has signed
  lateSign,    \* the signing commands still under way with nobody waiting
  row,         \* the request whose signature is stored with each sale
  dispatched   \* the sales whose journaling job was dispatched

salesVars == <<web, saleOf, signed, lateSign, row, dispatched>>
deviceVars == <<signed, lateSign>>

-----------------------------------------------------------------------------

Web == {"new", "authorized", "signed", "stored", "answered", "error", "dead"}

\* A request that a PHP process is working on.
Live == {"authorized", "signed", "stored"}

Init ==
  /\ web = [q \in Requests |-> "new"]
  /\ saleOf = [q \in Requests |-> NoRequest]
  /\ signed = {}
  /\ lateSign = {}
  /\ row = [s \in Sales |-> NoRequest]
  /\ dispatched = {}

Goto(q, label) == web' = [web EXCEPT ![q] = label]

\* ProcessTransactionRequest lets the request for s pass, or refuses it because
\* of its client, its device or its contents.
Receive(q, s) ==
  /\ web[q] = "new"
  /\ saleOf' = [saleOf EXCEPT ![q] = s]
  /\ \E label \in {"authorized", "error"} : Goto(q, label)
  /\ UNCHANGED <<deviceVars, row, dispatched>>

\* What becomes of the signing command of q when the gateway gets the given
\* answer.  A command that timed out may still be signed later.
Transmit(q, reply) ==
  \/ MayBeAccepted(reply) /\ signed' = signed \cup {q} /\ UNCHANGED lateSign
  \/ MayBeRefused(reply) /\ UNCHANGED deviceVars
  \/ reply = NoReply /\ lateSign' = lateSign \cup {q} /\ UNCHANGED signed

\* SEND_RECEIPT with the strict timeout.  An answer that is taken for a success
\* may still lack the DATA node or a date that can be read.
Sign(q) ==
  /\ web[q] = "authorized"
  /\ \E reply \in Replies :
       /\ Transmit(q, reply)
       /\ \/ ~SendCommandThrows(reply) /\ Goto(q, "signed")
          \/ Goto(q, "error")
  /\ UNCHANGED <<saleOf, row, dispatched>>

\* A mistake to catch: the table has no unique index for a sale.
StoreAnyway(q) ==
  /\ web[q] = "signed"
  /\ row' = [row EXCEPT ![saleOf[q]] = q]
  /\ Goto(q, "stored")
  /\ UNCHANGED <<saleOf, deviceVars, dispatched>>

\* Transaction::create inserts the row.
Store(q) ==
  /\ web[q] = "signed"
  /\ row[saleOf[q]] = NoRequest
  /\ row' = [row EXCEPT ![saleOf[q]] = q]
  /\ Goto(q, "stored")
  /\ UNCHANGED <<saleOf, deviceVars, dispatched>>

\* The unique index refuses a second row for the sale, which by now has been
\* signed once more.
RefuseDuplicate(q) ==
  /\ web[q] = "signed"
  /\ row[saleOf[q]] # NoRequest
  /\ Goto(q, "error")
  /\ UNCHANGED <<saleOf, deviceVars, row, dispatched>>

\* ProcessKraJournalingJob::dispatch; the controller answers with the signature.
DispatchAndAnswer(q) ==
  /\ web[q] = "stored"
  /\ dispatched' = dispatched \cup {saleOf[q]}
  /\ Goto(q, "answered")
  /\ UNCHANGED <<saleOf, deviceVars, row>>

\* Storing or dispatching throws because the database or the queue fails.
DatabaseFails(q) ==
  /\ web[q] \in {"signed", "stored"}
  /\ Goto(q, "error")
  /\ UNCHANGED <<saleOf, deviceVars, row, dispatched>>

\* The PHP process that serves q dies; its client gets no answer.
Die(q) ==
  /\ web[q] \in Live
  /\ IF web[q] = "authorized" THEN Transmit(q, NoReply) ELSE UNCHANGED deviceVars
  /\ Goto(q, "dead")
  /\ UNCHANGED <<saleOf, row, dispatched>>

\* A signing command reaches the device after the gateway has given up.
SignLate(q) ==
  /\ q \in lateSign
  /\ signed' = signed \cup {q}
  /\ lateSign' = lateSign \ {q}
  /\ UNCHANGED <<web, saleOf, row, dispatched>>

\* The steps of a request that leave the tables alone.
WebStep(q) ==
  \/ \E s \in Sales : Receive(q, s)
  \/ Sign(q) \/ RefuseDuplicate(q) \/ DatabaseFails(q) \/ Die(q) \/ SignLate(q)

Next == \E q \in Requests : WebStep(q) \/ Store(q) \/ DispatchAndAnswer(q)

Spec == Init /\ [][Next]_salesVars

-----------------------------------------------------------------------------
(* Properties.                                                             *)

\* The type of every variable.
TypeOK ==
  /\ web \in [Requests -> Web]
  /\ saleOf \in [Requests -> Sales \cup {NoRequest}]
  /\ signed \subseteq Requests
  /\ lateSign \subseteq Requests
  /\ row \in [Sales -> Requests \cup {NoRequest}]
  /\ dispatched \subseteq Sales

\* A client that was answered holds the very signature that is stored with its
\* sale, a signature the device made for that sale, and the sale's job was
\* dispatched: whatever other requests for the same sale are under way, and
\* however often it was signed.
AnsweredIsStored ==
  \A q \in Requests : web[q] = "answered" =>
    row[saleOf[q]] = q /\ q \in signed /\ saleOf[q] \in dispatched

\* A stored sale carries a signature the device made, and it was made for this
\* sale; commands that timed out or arrive late never leave a row behind.
StoredIsSigned ==
  \A s \in Sales : row[s] # NoRequest => row[s] \in signed /\ saleOf[row[s]] = s
=============================================================================
