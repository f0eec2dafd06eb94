--------------------------- MODULE KraSales_proofs ---------------------------
(***************************************************************************)
(* What holds of signing for every set of sales and requests: the types,   *)
(* that a stored sale carries its own signature, and that whoever was      *)
(* answered holds the one that is stored.                                  *)
(*                                                                         *)
(* The last two need what a request knows on its way from the device to    *)
(* the answer, and that only a request that has arrived has a row: what    *)
(* arrives later cannot be for another sale.                               *)
(***************************************************************************)
EXTENDS KraSales, TLAPS

USE DEF Web, Live

\* A request past its authorisation is for a sale.
ForSale ==
  \A q \in Requests :
    web[q] \in {"authorized", "signed", "stored", "answered"} => saleOf[q] \in Sales

TypeInv == TypeOK /\ ForSale

LEMMA InitTypeInv == Init => TypeInv
  BY DEF Init, TypeInv, TypeOK, ForSale

LEMMA NextTypeInv == TypeInv /\ [Next]_salesVars => TypeInv'
<1> SUFFICES ASSUME TypeInv, [Next]_salesVars
             PROVE  TypeInv'
  OBVIOUS
<1> USE DEF TypeInv, TypeOK, ForSale, Goto
<1>1. ASSUME NEW q \in Requests, NEW s \in Sales, Receive(q, s)
      PROVE  TypeInv'
  <2>1. PICK label \in {"authorized", "error"} : web' = [web EXCEPT ![q] = label]
    BY <1>1 DEF Receive
  <2> QED
    BY <1>1, <2>1 DEF Receive, deviceVars
<1>2. ASSUME NEW q \in Requests, Sign(q)
      PROVE  TypeInv'
  BY <1>2 DEF Sign, Transmit, deviceVars
<1>3. ASSUME NEW q \in Requests, Store(q)
      PROVE  TypeInv'
  BY <1>3 DEF Store, deviceVars
<1>4. ASSUME NEW q \in Requests, DispatchAndAnswer(q)
      PROVE  TypeInv'
  BY <1>4 DEF DispatchAndAnswer, deviceVars
<1>5. ASSUME NEW q \in Requests, RefuseDuplicate(q) \/ DatabaseFails(q)
      PROVE  TypeInv'
  BY <1>5 DEF RefuseDuplicate, DatabaseFails, deviceVars
<1>6. ASSUME NEW q \in Requests, Die(q)
      PROVE  TypeInv'
  BY <1>6 DEF Die, Transmit, deviceVars
<1>7. ASSUME NEW q \in Requests, SignLate(q)
      PROVE  TypeInv'
  BY <1>7 DEF SignLate
<1>8. CASE UNCHANGED salesVars
  BY <1>8 DEF salesVars
<1> QED
  BY <1>1, <1>2, <1>3, <1>4, <1>5, <1>6, <1>7, <1>8 DEF Next, WebStep

\* The variables keep their types.
THEOREM SalesTypeCorrect == Spec => []TypeOK
<1>1. Init => TypeInv
  BY InitTypeInv
<1>2. TypeInv /\ [Next]_salesVars => TypeInv'
  BY NextTypeInv
<1>3. TypeInv => TypeOK
  BY DEF TypeInv
<1> QED
  BY <1>1, <1>2, <1>3, PTL DEF Spec

-----------------------------------------------------------------------------

\* What a request has brought about by the time it stores, or answers.
OnItsWay(q) ==
  /\ web[q] = "signed" => q \in signed
  /\ web[q] \in {"stored", "answered"} => row[saleOf[q]] = q
  /\ web[q] = "answered" => saleOf[q] \in dispatched

\* A row belongs to a request that has arrived, for the sale it is for.
RowInv(s) ==
  row[s] # NoRequest =>
    row[s] \in signed /\ saleOf[row[s]] = s /\ web[row[s]] # "new"

IInv ==
  /\ TypeInv
  /\ \A q \in Requests : OnItsWay(q)
  /\ \A s \in Sales : RowInv(s)

\* A step of one request that stores nothing: no other request moves, nothing
\* is taken back, and the request itself ends or has its signature.
Quiet(q) ==
  /\ UNCHANGED <<row, dispatched>>
  /\ signed \subseteq signed'
  /\ \A r \in Requests : r # q => web'[r] = web[r] /\ saleOf'[r] = saleOf[r]
  /\ saleOf'[q] = saleOf[q] \/ web[q] = "new"
  /\ \/ web'[q] \in {"authorized", "error", "dead"}
     \/ web'[q] = "signed" /\ q \in signed'
     \/ web'[q] = web[q] /\ saleOf'[q] = saleOf[q]

LEMMA QuietSuffices ==
  ASSUME IInv, TypeInv', NEW q \in Requests, Quiet(q)
  PROVE  IInv'
<1> USE DEF IInv, TypeInv, TypeOK
<1>1. \A r \in Requests : OnItsWay(r)'
  BY DEF Quiet, OnItsWay
<1>2. \A s \in Sales : RowInv(s)'
  BY DEF Quiet, RowInv
<1> QED
  BY <1>1, <1>2

\* Only the owner of an inserted row had moved to it, and no request answered
\* earlier loses its own: the insert needs a sale without a row.
LEMMA StoreIInv ==
  ASSUME IInv, TypeInv', NEW q \in Requests, Store(q)
  PROVE  IInv'
<1> USE DEF IInv, TypeInv, TypeOK
<1>1. /\ saleOf[q] \in Sales /\ row[saleOf[q]] = NoRequest
      /\ web' = [web EXCEPT ![q] = "stored"]
      /\ row' = [row EXCEPT ![saleOf[q]] = q]
      /\ UNCHANGED <<saleOf, signed, dispatched>>
      /\ web[q] = "signed" /\ q \in signed
  BY DEF Store, Goto, deviceVars, ForSale, OnItsWay
<1>2. \A r \in Requests : OnItsWay(r)'
  BY <1>1, NoRequestAssumption DEF OnItsWay, ForSale
<1>3. \A s \in Sales : RowInv(s)'
  BY <1>1 DEF RowInv
<1> QED
  BY <1>2, <1>3

LEMMA DispatchAndAnswerIInv ==
  ASSUME IInv, TypeInv', NEW q \in Requests, DispatchAndAnswer(q)
  PROVE  IInv'
<1> USE DEF IInv, TypeInv, TypeOK
<1>1. \A r \in Requests : OnItsWay(r)'
  BY DEF DispatchAndAnswer, Goto, deviceVars, OnItsWay
<1>2. \A s \in Sales : RowInv(s)'
  BY DEF DispatchAndAnswer, Goto, deviceVars, RowInv
<1> QED
  BY <1>1, <1>2

LEMMA NextIInv ==
  ASSUME KraStatuses \subseteq {"P", "E"}
  PROVE  IInv /\ [Next]_salesVars => IInv'
<1> SUFFICES ASSUME IInv, [Next]_salesVars
             PROVE  IInv'
  OBVIOUS
<1>0. TypeInv'
  BY NextTypeInv DEF IInv
<1> USE DEF Goto
<1>1. ASSUME NEW q \in Requests, NEW s \in Sales, Receive(q, s)
      PROVE  IInv'
  <2>1. Quiet(q)
    BY <1>1 DEF Receive, deviceVars, Quiet, IInv, TypeInv, TypeOK
  <2> QED
    BY <1>0, <2>1, QuietSuffices
<1>2. ASSUME NEW q \in Requests, Sign(q)
      PROVE  IInv'
  \* An answer that does not raise an exception is the device's signature.
  <2>1. PICK reply \in Replies :
          /\ Transmit(q, reply)
          /\ \/ ~SendCommandThrows(reply) /\ web' = [web EXCEPT ![q] = "signed"]
             \/ web' = [web EXCEPT ![q] = "error"]
    BY <1>2 DEF Sign
  <2>2. signed \subseteq signed' /\ (~SendCommandThrows(reply) => q \in signed')
    BY <2>1 DEF Transmit, deviceVars, Replies, SendCommandThrows, MayBeRefused, NoReply
  <2>3. Quiet(q)
    BY <1>2, <2>1, <2>2 DEF Sign, Quiet, IInv, TypeInv, TypeOK
  <2> QED
    BY <1>0, <2>3, QuietSuffices
<1>3. ASSUME NEW q \in Requests, Store(q)
      PROVE  IInv'
  BY <1>0, <1>3, StoreIInv
<1>4. ASSUME NEW q \in Requests, DispatchAndAnswer(q)
      PROVE  IInv'
  BY <1>0, <1>4, DispatchAndAnswerIInv
<1>5. ASSUME NEW q \in Requests, RefuseDuplicate(q) \/ DatabaseFails(q)
      PROVE  IInv'
  <2>1. Quiet(q)
    BY <1>5 DEF RefuseDuplicate, DatabaseFails, deviceVars, Quiet, IInv, TypeInv, TypeOK
  <2> QED
    BY <1>0, <2>1, QuietSuffices
<1>6. ASSUME NEW q \in Requests, Die(q)
      PROVE  IInv'
  <2>1. Quiet(q)
    BY <1>6 DEF Die, Transmit, deviceVars, Quiet, IInv, TypeInv, TypeOK
  <2> QED
    BY <1>0, <2>1, QuietSuffices
<1>7. ASSUME NEW q \in Requests, SignLate(q)
      PROVE  IInv'
  <2>1. Quiet(q)
    BY <1>7 DEF SignLate, Quiet
  <2> QED
    BY <1>0, <2>1, QuietSuffices
<1>8. CASE UNCHANGED salesVars
  BY <1>8 DEF salesVars, IInv, TypeInv, TypeOK, ForSale, OnItsWay, RowInv
<1> QED
  BY <1>1, <1>2, <1>3, <1>4, <1>5, <1>6, <1>7, <1>8 DEF Next, WebStep

LEMMA InitIInv == Init => IInv
  BY InitTypeInv DEF Init, IInv, OnItsWay, RowInv

\* Every stored sale carries a signature the device made for it.
THEOREM StoredSalesAreSigned ==
  ASSUME KraStatuses \subseteq {"P", "E"}
  PROVE  Spec => []StoredIsSigned
<1>1. Init => IInv
  BY InitIInv
<1>2. IInv /\ [Next]_salesVars => IInv'
  BY NextIInv
<1>3. IInv => StoredIsSigned
  BY DEF IInv, RowInv, StoredIsSigned
<1> QED
  BY <1>1, <1>2, <1>3, PTL DEF Spec

\* Whoever was answered holds the stored signature of a dispatched sale.
THEOREM AnsweredSalesAreStored ==
  ASSUME KraStatuses \subseteq {"P", "E"}
  PROVE  Spec => []AnsweredIsStored
<1>1. Init => IInv
  BY InitIInv
<1>2. IInv /\ [Next]_salesVars => IInv'
  BY NextIInv
<1>3. IInv => AnsweredIsStored
  BY NoRequestAssumption DEF IInv, TypeInv, ForSale, OnItsWay, RowInv, AnsweredIsStored
<1> QED
  BY <1>1, <1>2, <1>3, PTL DEF Spec
=============================================================================
