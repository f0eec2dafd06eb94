--------------------------- MODULE KraDevice_proofs ---------------------------
(***************************************************************************)
(* What holds of the device lifecycle for every set of PINs, units and     *)
(* requests, any number of them served at a time: the types, that clients  *)
(* of one unit share its id, and that a known unit is activated at KRA.    *)
(*                                                                         *)
(* The invariant says of each request what it has learnt by the state it   *)
(* is in (ReqInv), and of the table that no unit has two rows and that a   *)
(* row was inserted by a request that has been answered since (RowsInv).   *)
(***************************************************************************)
EXTENDS KraDevice, FiniteSetTheorems, TLAPS

USE DEF Web, Live, Outcomes

Initialises(q) == about[q] \in Pins \X Units

\* The row request q works on is one for its PIN and its unit.
HasItsRow(q) ==
  /\ found[q] \in Gateway
  /\ devices[found[q]].pin = about[q][1] /\ devices[found[q]].unit = about[q][2]

ReqInv(q) ==
  /\ web[q] = "new" => mem[q] = "absent" /\ ~Initialises(q)
  /\ web[q] \in {"initialising", "confirmed"} => mem[q] = "absent" /\ Initialises(q)
  /\ web[q] = "confirmed" => outcome[q] = "ACTIVATED" /\ about[q][2] \in activated
  /\ web[q] = "checking" =>
       mem[q] # "absent" /\ found[q] \in Gateway /\ ~Initialises(q)
  /\ web[q] = "saving" /\ mem[q] = "absent" =>
       /\ Initialises(q) /\ found[q] = q
       /\ outcome[q] = "ACTIVATED" /\ about[q][2] \in activated
  /\ web[q] = "saving" /\ mem[q] # "absent" =>
       /\ found[q] \in Gateway /\ outcome[q] # "none"
       /\ Initialises(q) => HasItsRow(q)
  /\ web[q] = "answered" /\ Initialises(q) => HasItsRow(q)
  /\ q \in late => Initialises(q)

RowsInv ==
  /\ \A g \in Gateway : web[g] = "answered" /\ devices[g].unit \in activated
  /\ \A g, h \in Gateway : devices[g].unit = devices[h].unit => g = h

IInv == TypeOK /\ (\A q \in Requests : ReqInv(q)) /\ RowsInv

\* An initialisation is one that names a unit.
LEMMA InitialisesHasUnit ==
  ASSUME TypeOK, NEW q \in Requests
  PROVE  /\ Initialises(q) <=> about[q][2] # Nothing
         /\ Initialises(q) => about[q] = <<about[q][1], about[q][2]>>
  BY NothingAssumption DEF TypeOK, Initialises

\* The rows of the table are those whose status is not "absent".
LEMMA RowIsRow ==
  ASSUME TypeOK, NEW g \in Gateway
  PROVE  g \in Requests /\ devices[g] \in Row
  BY DEF TypeOK, Gateway

LEMMA RowIsKnown ==
  ASSUME NEW g \in Requests, devices[g] \in Row
  PROVE  g \in Gateway
  BY DEF Gateway, Row, NoRow

\* Rows stay, for the unit and the PIN they are for.
RowsStay ==
  \A g \in Gateway :
    g \in Gateway' /\ devices'[g].unit = devices[g].unit /\ devices'[g].pin = devices[g].pin

\* Another request is not touched.
Untouched(r) ==
  /\ web'[r] = web[r] /\ about'[r] = about[r] /\ found'[r] = found[r]
  /\ mem'[r] = mem[r] /\ outcome'[r] = outcome[r]
  /\ r \in late' => r \in late

LEMMA UntouchedKept ==
  ASSUME NEW r \in Requests, ReqInv(r), Untouched(r), RowsStay,
         activated \subseteq activated'
  PROVE  ReqInv(r)'
  BY DEF ReqInv, Untouched, RowsStay, Initialises, HasItsRow

\* A step of q that leaves the table alone.
SparesTable(q) ==
  /\ UNCHANGED devices
  /\ activated \subseteq activated'
  /\ web[q] # "answered" /\ \A r \in Requests : r # q => Untouched(r)

LEMMA SparesTableSuffices ==
  ASSUME IInv, NEW q \in Requests, SparesTable(q), TypeOK', ReqInv(q)'
  PROVE  IInv'
<1>1. RowsStay /\ Gateway' = Gateway
  BY DEF SparesTable, RowsStay, Gateway
<1>2. \A r \in Requests : ReqInv(r)'
  BY <1>1, UntouchedKept DEF SparesTable, IInv
<1>3. RowsInv'
  BY <1>1, RowIsRow DEF SparesTable, Untouched, RowsInv, IInv
<1> QED
  BY <1>2, <1>3 DEF IInv

LEMMA InitIInv == Init => IInv
<1> SUFFICES ASSUME Init PROVE IInv
  OBVIOUS
<1>1. Gateway = {}
  BY DEF Init, Gateway
<1>2. TypeOK
  BY DEF Init, TypeOK
<1>3. \A q \in Requests : ReqInv(q)
  BY NothingAssumption DEF Init, ReqInv, Initialises
<1> QED
  BY <1>1, <1>2, <1>3 DEF IInv, RowsInv

-----------------------------------------------------------------------------
(* Initialisation.                                                         *)

LEMMA ReceiveInitialiseIInv ==
  ASSUME IInv, NEW q \in Requests, NEW p \in Pins, NEW u \in Units,
         ReceiveInitialise(q, p, u)
  PROVE  IInv'
<1> USE DEF IInv, TypeOK, ReceiveInitialise, Goto, kraVars
<1>1. TypeOK'
  OBVIOUS
<1>2. SparesTable(q)
  BY DEF SparesTable, Untouched
<1>3. ReqInv(q)'
  BY DEF ReqInv, Initialises
<1> QED
  BY <1>1, <1>2, <1>3, SparesTableSuffices

\* Activating marks at most the request's own unit, and marks it if KRA says so.
LEMMA ActivateMarks ==
  ASSUME TypeOK, NEW q \in Requests, Initialises(q), NEW reply, Activate(q, reply)
  PROVE  /\ activated' \subseteq Units /\ activated \subseteq activated'
         /\ late' = late \/ late' = late \cup {q}
         /\ Confirms(reply) => about[q][2] \in activated'
  BY DEF TypeOK, Initialises, Activate, kraVars, Confirms, NoReply

LEMMA AskInitialiseIInv ==
  ASSUME IInv, NEW q \in Requests, AskInitialise(q)
  PROVE  IInv'
<1>1. PICK reply \in InitReplies :
        /\ Activate(q, reply)
        /\ web' = [web EXCEPT ![q] = IF Confirms(reply) THEN "confirmed" ELSE "error"]
        /\ outcome' = [outcome EXCEPT ![q] =
             IF Confirms(reply) THEN "ACTIVATED" ELSE "exception"]
  BY DEF AskInitialise, Goto
<1>2. /\ web[q] = "initialising" /\ Initialises(q) /\ mem[q] = "absent"
      /\ UNCHANGED <<about, found, mem, devices>>
  BY DEF AskInitialise, IInv, ReqInv
<1>3. /\ activated' \subseteq Units /\ activated \subseteq activated'
      /\ late' = late \/ late' = late \cup {q}
      /\ Confirms(reply) => about[q][2] \in activated'
  BY <1>1, <1>2, ActivateMarks DEF IInv
<1>4. TypeOK'
  BY <1>1, <1>2, <1>3 DEF IInv, TypeOK
<1>5. SparesTable(q)
  BY <1>1, <1>2, <1>3 DEF SparesTable, Untouched, IInv, TypeOK
<1>6. ReqInv(q)'
  BY <1>1, <1>2, <1>3 DEF ReqInv, Initialises, IInv, TypeOK
<1> QED
  BY <1>4, <1>5, <1>6, SparesTableSuffices

LEMMA LookUpIInv ==
  ASSUME IInv, NEW q \in Requests, LookUp(q)
  PROVE  IInv'
<1>1. /\ web[q] = "confirmed" /\ Initialises(q) /\ mem[q] = "absent"
      /\ outcome[q] = "ACTIVATED" /\ about[q][2] \in activated
      /\ web' = [web EXCEPT ![q] = "saving"]
      /\ UNCHANGED <<about, outcome, devices, activated, late>>
  BY DEF LookUp, Goto, kraVars, IInv, ReqInv
<1>2. CASE \E g \in Gateway :
             /\ <<devices[g].pin, devices[g].unit>> = about[q]
             /\ found' = [found EXCEPT ![q] = g]
             /\ mem' = [mem EXCEPT ![q] = devices[g].status]
  <2> PICK g \in Gateway :
        /\ <<devices[g].pin, devices[g].unit>> = about[q]
        /\ found' = [found EXCEPT ![q] = g]
        /\ mem' = [mem EXCEPT ![q] = devices[g].status]
    BY <1>2
  <2>1. /\ devices[g].pin = about[q][1] /\ devices[g].unit = about[q][2]
        /\ found' = [found EXCEPT ![q] = g]
        /\ mem' = [mem EXCEPT ![q] = devices[g].status]
    OBVIOUS
  <2>2. g \in Requests /\ devices[g].status \in {"ACTIVATED", "ERROR"}
    BY RowIsRow DEF IInv, Row
  <2>3. TypeOK'
    BY <1>1, <2>1, <2>2 DEF IInv, TypeOK
  <2>4. SparesTable(q)
    BY <1>1, <2>1 DEF SparesTable, Untouched, IInv, TypeOK
  <2>5. ReqInv(q)'
    BY <1>1, <2>1, <2>2 DEF ReqInv, Initialises, HasItsRow, Gateway, IInv, TypeOK
  <2> QED
    BY <2>3, <2>4, <2>5, SparesTableSuffices
<1>3. CASE found' = [found EXCEPT ![q] = q] /\ UNCHANGED mem
  <2>1. TypeOK'
    BY <1>1, <1>3 DEF IInv, TypeOK
  <2>2. SparesTable(q)
    BY <1>1, <1>3 DEF SparesTable, Untouched, IInv, TypeOK
  <2>3. ReqInv(q)'
    BY <1>1, <1>3 DEF ReqInv, Initialises, IInv, TypeOK
  <2> QED
    BY <2>1, <2>2, <2>3, SparesTableSuffices
<1> QED
  BY <1>2, <1>3 DEF LookUp

\* The index let the row in, so the unit had none, and q had inserted nothing.
LEMMA InsertIInv ==
  ASSUME IInv, NEW q \in Requests, Insert(q)
  PROVE  IInv'
<1> DEFINE new == [unit |-> about[q][2], pin |-> about[q][1],
                   status |-> outcome[q], savedBy |-> q]
<1>1. /\ web[q] = "saving" /\ mem[q] = "absent" /\ Initialises(q) /\ found[q] = q
      /\ outcome[q] = "ACTIVATED" /\ about[q][2] \in activated
      /\ UNCHANGED <<about, found, mem, outcome, activated, late>>
  BY DEF Insert, kraVars, IInv, ReqInv
<1>2. CASE web' = [web EXCEPT ![q] = "error"] /\ UNCHANGED devices
  <2>1. TypeOK'
    BY <1>1, <1>2 DEF IInv, TypeOK
  <2>2. SparesTable(q)
    BY <1>1, <1>2 DEF SparesTable, Untouched, IInv, TypeOK
  <2>3. ReqInv(q)'
    BY <1>1, <1>2 DEF ReqInv, Initialises, IInv, TypeOK
  <2> QED
    BY <2>1, <2>2, <2>3, SparesTableSuffices
<1>3. CASE /\ \A g \in Gateway : devices[g].unit # about[q][2]
           /\ devices' = [devices EXCEPT ![q] = new]
           /\ web' = [web EXCEPT ![q] = "answered"]
  <2>1. new \in Row /\ new.unit = about[q][2] /\ new.pin = about[q][1]
    BY <1>1 DEF Initialises, Row
  <2>2. TypeOK'
    BY <1>1, <1>3, <2>1 DEF IInv, TypeOK
  <2>3. q \notin Gateway
    BY <1>1 DEF IInv, RowsInv
  <2>4. devices'[q] = new /\ \A g \in Requests : g # q => devices'[g] = devices[g]
    BY <1>3 DEF IInv, TypeOK
  <2>5. Gateway' = Gateway \cup {q}
    <3>1. new # NoRow
      BY <2>1 DEF Row, NoRow
    <3> QED
      BY <2>4, <3>1 DEF Gateway
  <2>6. RowsStay
    BY <2>3, <2>4, <2>5, RowIsRow DEF RowsStay, IInv
  <2>7. \A r \in Requests : ReqInv(r)'
    <3>1. ASSUME NEW r \in Requests, r # q
          PROVE  ReqInv(r)'
      <4>1. Untouched(r)
        BY <1>1, <1>3, <3>1 DEF Untouched, IInv, TypeOK
      <4> QED
        BY <1>1, <2>6, <4>1, UntouchedKept DEF IInv
    <3>2. ReqInv(q)'
      <4>1. HasItsRow(q)' /\ web'[q] = "answered" /\ Initialises(q)'
        BY <1>1, <1>3, <2>1, <2>4, <2>5 DEF HasItsRow, Initialises, IInv, TypeOK
      <4> QED
        BY <4>1 DEF ReqInv
    <3> QED
      BY <3>1, <3>2
  <2>8. RowsInv'
    BY <1>1, <1>3, <2>1, <2>3, <2>4, <2>5, RowIsRow DEF RowsInv, IInv, TypeOK
  <2> QED
    BY <2>2, <2>7, <2>8 DEF IInv
<1> QED
  BY <1>2, <1>3 DEF Insert, InsertRow, Goto

-----------------------------------------------------------------------------
(* Status check.                                                           *)

LEMMA ReceiveCheckIInv ==
  ASSUME IInv, NEW q \in Requests, NEW g \in Requests, ReceiveCheck(q, g)
  PROVE  IInv'
<1>1. /\ web[q] = "new" /\ g \in Gateway /\ ~Initialises(q)
      /\ found' = [found EXCEPT ![q] = g]
      /\ mem' = [mem EXCEPT ![q] = devices[g].status]
      /\ web' = [web EXCEPT ![q] = "checking"]
      /\ UNCHANGED <<about, outcome, devices, activated, late>>
  BY DEF ReceiveCheck, Goto, kraVars, IInv, ReqInv
<1>2. devices[g].status \in {"ACTIVATED", "ERROR"}
  BY <1>1, RowIsRow DEF IInv, Row
<1>3. TypeOK'
  BY <1>1, <1>2 DEF IInv, TypeOK
<1>4. SparesTable(q)
  BY <1>1 DEF SparesTable, Untouched, IInv, TypeOK
<1>5. ReqInv(q)'
  BY <1>1, <1>2 DEF ReqInv, Initialises, Gateway, IInv, TypeOK
<1> QED
  BY <1>3, <1>4, <1>5, SparesTableSuffices

LEMMA AskStatusIInv ==
  ASSUME IInv, NEW q \in Requests, AskStatus(q)
  PROVE  IInv'
<1>1. /\ web[q] = "checking" /\ mem[q] # "absent" /\ found[q] \in Gateway
      /\ ~Initialises(q)
      /\ UNCHANGED <<about, found, mem, devices, activated, late>>
  BY DEF AskStatus, kraVars, IInv, ReqInv
<1>2. \/ /\ web' = [web EXCEPT ![q] = "saving"]
         /\ \E o \in {"ACTIVATED", "ERROR", "exception"} :
              outcome' = [outcome EXCEPT ![q] = o]
      \/ web' = [web EXCEPT ![q] = "error"] /\ UNCHANGED outcome
  BY DEF AskStatus, Goto
<1>3. TypeOK'
  BY <1>1, <1>2 DEF IInv, TypeOK
<1>4. SparesTable(q)
  BY <1>1, <1>2 DEF SparesTable, Untouched, IInv, TypeOK
<1>5. ReqInv(q)'
  BY <1>1, <1>2 DEF ReqInv, Initialises, Gateway, IInv, TypeOK
<1> QED
  BY <1>3, <1>4, <1>5, SparesTableSuffices

\* Saving a loaded model leaves the unit and the PIN of its row.
LEMMA UpdateIInv ==
  ASSUME IInv, NEW q \in Requests, Update(q)
  PROVE  IInv'
<1> DEFINE new == StatusFor(outcome[q])
           g == found[q]
           s == IF new = mem[q] THEN devices[g].status ELSE new
           saved == [devices[g] EXCEPT !.status = s, !.savedBy = q]
<1>1. /\ web[q] = "saving" /\ mem[q] # "absent" /\ g \in Gateway /\ outcome[q] # "none"
      /\ Initialises(q) => HasItsRow(q)
      /\ UNCHANGED <<about, found, mem, outcome, activated, late>>
  BY DEF Update, kraVars, IInv, ReqInv
<1>2. g \in Requests /\ devices[g] \in Row
  BY <1>1, RowIsRow DEF IInv
<1>3. s \in {"ACTIVATED", "ERROR"}
  BY <1>1, <1>2 DEF StatusFor, Row, IInv, TypeOK
<1>4. saved \in Row /\ saved.unit = devices[g].unit /\ saved.pin = devices[g].pin
  BY <1>2, <1>3 DEF Row
<1>5. devices' = [devices EXCEPT ![g] = saved]
  BY <1>2 DEF Update, IInv, TypeOK
<1>6. \E label \in {"error", "answered"} : web' = [web EXCEPT ![q] = label]
  BY DEF Update, Goto
<1>7. TypeOK'
  BY <1>1, <1>2, <1>4, <1>5, <1>6 DEF IInv, TypeOK
<1>8. devices'[g] = saved /\ \A h \in Requests : h # g => devices'[h] = devices[h]
  BY <1>2, <1>5 DEF IInv, TypeOK
<1>9. Gateway' = Gateway
  <2>1. saved # NoRow
    BY <1>4 DEF Row, NoRow
  <2> QED
    BY <1>1, <1>8, <2>1 DEF Gateway
<1>10. RowsStay
  BY <1>4, <1>8, <1>9, RowIsRow DEF RowsStay, IInv
<1>11. \A r \in Requests : ReqInv(r)'
  <2>1. ASSUME NEW r \in Requests, r # q
        PROVE  ReqInv(r)'
    <3>1. Untouched(r)
      BY <1>1, <1>6, <2>1 DEF Untouched, IInv, TypeOK
    <3> QED
      BY <1>1, <1>10, <3>1, UntouchedKept DEF IInv
  <2>2. ReqInv(q)'
    <3>1. web'[q] \in {"error", "answered"} /\ (Initialises(q)' <=> Initialises(q))
      BY <1>1, <1>6 DEF Initialises, IInv, TypeOK
    <3>2. Initialises(q) => HasItsRow(q)'
      BY <1>1, <1>10 DEF HasItsRow, RowsStay
    <3>3. q \in late' => Initialises(q)
      BY <1>1 DEF IInv, ReqInv
    <3> QED
      BY <3>1, <3>2, <3>3 DEF ReqInv
  <2> QED
    BY <2>1, <2>2
<1>12. RowsInv'
  <2>1. q \notin Gateway
    BY <1>1 DEF IInv, RowsInv
  <2>2. \A h \in Gateway : web'[h] = web[h]
    BY <1>6, <2>1 DEF IInv, TypeOK, Gateway
  <2> QED
    BY <1>1, <1>9, <1>10, <2>2 DEF RowsStay, RowsInv, IInv
<1> QED
  BY <1>7, <1>11, <1>12 DEF IInv

-----------------------------------------------------------------------------

LEMMA DieIInv ==
  ASSUME IInv, NEW q \in Requests, Die(q)
  PROVE  IInv'
<1>1. /\ web[q] \in Live /\ web' = [web EXCEPT ![q] = "dead"]
      /\ UNCHANGED <<about, found, mem, outcome, devices>>
  BY DEF Die, Goto
<1>2. /\ activated' \subseteq Units /\ activated \subseteq activated'
      /\ \/ late' = late
         \/ late' = late \cup {q} /\ Initialises(q)
  <2>1. CASE web[q] = "initialising"
    <3>1. Initialises(q) /\ Activate(q, NoReply)
      BY <2>1 DEF Die, IInv, ReqInv
    <3> QED
      BY <3>1, ActivateMarks DEF IInv
  <2>2. CASE web[q] # "initialising"
    BY <2>2 DEF Die, kraVars, IInv, TypeOK
  <2> QED
    BY <2>1, <2>2
<1>3. TypeOK'
  BY <1>1, <1>2 DEF IInv, TypeOK
<1>4. SparesTable(q)
  BY <1>1, <1>2 DEF SparesTable, Untouched, IInv, TypeOK
<1>5. ReqInv(q)'
  BY <1>1, <1>2 DEF ReqInv, Initialises, IInv, TypeOK
<1> QED
  BY <1>3, <1>4, <1>5, SparesTableSuffices

LEMMA ActivateLateIInv ==
  ASSUME IInv, NEW q \in Requests, ActivateLate(q)
  PROVE  IInv'
<1>1. /\ Initialises(q) /\ activated' = activated \cup {about[q][2]}
      /\ late' \subseteq late
      /\ UNCHANGED <<web, about, found, mem, outcome, devices>>
  BY DEF ActivateLate, IInv, ReqInv
<1>2. TypeOK'
  BY <1>1 DEF IInv, TypeOK, Initialises
<1>3. RowsStay /\ Gateway' = Gateway
  BY <1>1 DEF RowsStay, Gateway
<1>4. \A r \in Requests : ReqInv(r)'
  <2> SUFFICES ASSUME NEW r \in Requests
               PROVE  ReqInv(r)'
    OBVIOUS
  <2>1. Untouched(r)
    BY <1>1 DEF Untouched
  <2> QED
    BY <1>1, <1>3, <2>1, UntouchedKept DEF IInv
<1>5. RowsInv'
  BY <1>1, <1>3 DEF RowsInv, IInv
<1> QED
  BY <1>2, <1>4, <1>5 DEF IInv

LEMMA NextIInv == IInv /\ [Next]_vars => IInv'
<1> SUFFICES ASSUME IInv, [Next]_vars
             PROVE  IInv'
  OBVIOUS
<1>1. ASSUME NEW q \in Requests, NEW p \in Pins, NEW u \in Units,
             ReceiveInitialise(q, p, u)
      PROVE  IInv'
  BY <1>1, ReceiveInitialiseIInv
<1>2. ASSUME NEW q \in Requests, NEW g \in Requests, ReceiveCheck(q, g)
      PROVE  IInv'
  BY <1>2, ReceiveCheckIInv
<1>3. ASSUME NEW q \in Requests, AskInitialise(q) \/ LookUp(q) \/ Insert(q)
      PROVE  IInv'
  BY <1>3, AskInitialiseIInv, LookUpIInv, InsertIInv
<1>4. ASSUME NEW q \in Requests, AskStatus(q) \/ Update(q)
      PROVE  IInv'
  BY <1>4, AskStatusIInv, UpdateIInv
<1>5. ASSUME NEW q \in Requests, Die(q) \/ ActivateLate(q)
      PROVE  IInv'
  BY <1>5, DieIInv, ActivateLateIInv
<1>6. CASE UNCHANGED vars
  BY <1>6 DEF vars, kraVars, IInv, TypeOK, ReqInv, RowsInv, Initialises, HasItsRow, Gateway
<1> QED
  BY <1>1, <1>2, <1>3, <1>4, <1>5, <1>6 DEF Next

\* The variables keep their types.
THEOREM DeviceTypeCorrect == Spec => []TypeOK
<1>1. IInv => TypeOK
  BY DEF IInv
<1> QED
  BY <1>1, InitIInv, NextIInv, PTL DEF Spec

\* Clients that initialised one unit hold one id, that of a row for their PIN.
THEOREM OneIdForAUnit == Spec => []OneIdPerUnit
<1>1. IInv => OneIdPerUnit
  <2> SUFFICES ASSUME IInv, NEW q \in Requests, Initialised(q)
               PROVE  /\ <<devices[found[q]].pin, devices[found[q]].unit>> = about[q]
                      /\ \A r \in Requests :
                           Initialised(r) /\ about[r][2] = about[q][2] => found[r] = found[q]
    BY DEF OneIdPerUnit
  <2>1. \A r \in Requests : Initialised(r) => Initialises(r) /\ HasItsRow(r)
    BY InitialisesHasUnit DEF Initialised, IInv, ReqInv
  <2>2. about[q] = <<about[q][1], about[q][2]>>
    BY <2>1, InitialisesHasUnit DEF IInv
  <2> QED
    BY <2>1, <2>2 DEF HasItsRow, IInv, RowsInv
<1> QED
  BY <1>1, InitIInv, NextIInv, PTL DEF Spec

\* Every unit in the table is activated at KRA.
THEOREM KnownUnitsAreActivated == Spec => []KnownIsActivated
<1>1. IInv => KnownIsActivated
  BY DEF IInv, RowsInv, KnownIsActivated
<1> QED
  BY <1>1, InitIInv, NextIInv, PTL DEF Spec
=============================================================================
