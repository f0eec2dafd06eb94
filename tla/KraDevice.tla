------------------------------ MODULE KraDevice ------------------------------
(***************************************************************************)
(* The lifecycle of KRA devices: app/Services/KraDeviceService.php and its *)
(* controller.  An initialisation asks KRA first and then looks for the    *)
(* device in the table `kra_devices`; a status check loads the device      *)
(* first, asks it, and saves the model it loaded.  Neither runs in a       *)
(* database transaction, and saving a model writes only the columns that   *)
(* differ from the values it was loaded with.                              *)
(*                                                                         *)
(* A unit is what KRA gives an SCU id; the gateway's own id of a device    *)
(* (a fresh UUID) is named by the request that drew it.                    *)
(***************************************************************************)
EXTENDS Naturals, FiniteSets, KraApi

CONSTANTS
  Pins,       \* taxpayer PINs
  Units,      \* units of KRA, by SCU id
  Requests,   \* HTTP requests of the clients
  MaxOpen,    \* how many requests are served at a time
  Nothing     \* in place of a pin, a unit, a row or a request

ASSUME NothingAssumption == Nothing \notin Pins \cup Units \cup Requests
ASSUME MaxOpenAssumption == MaxOpen \in Nat

VARIABLES
  web,        \* where each request is
  about,      \* the PIN and the unit an initialisation is for
  found,      \* the gateway id of the device a request works on
  mem,        \* the status in its in-memory model, "absent" for a new one
  outcome,    \* what KRA's answer meant to it
  devices,    \* the table `kra_devices`, by gateway id
  activated,  \* the units KRA has activated
  late        \* initialisations still under way with nobody waiting

kraVars == <<activated, late>>
vars == <<web, about, found, mem, outcome, devices, kraVars>>

-----------------------------------------------------------------------------

Web == {"new", "initialising", "confirmed", "checking", "saving",
        "answered", "error", "dead"}
Live == {"initialising", "confirmed", "checking", "saving"}

Outcomes == {"none", "ACTIVATED", "ERROR", "exception"}

\* A mistake to catch: the exception's case is forgotten.
StatusAsIs(o) == o

\* What an outcome becomes in the status column: an exception counts as ERROR.
StatusFor(o) == IF o = "exception" THEN "ERROR" ELSE o

\* savedBy is a history variable: the request that saved the row last.
NoRow == [unit |-> Nothing, pin |-> Nothing, status |-> "absent",
          savedBy |-> Nothing]
Gateway == {g \in Requests : devices[g] # NoRow}

Init ==
  /\ web = [q \in Requests |-> "new"]
  /\ about = [q \in Requests |-> <<Nothing, Nothing>>]
  /\ found = [q \in Requests |-> Nothing]
  /\ mem = [q \in Requests |-> "absent"]
  /\ outcome = [q \in Requests |-> "none"]
  /\ devices = [g \in Requests |-> NoRow]
  /\ activated = {}
  /\ late = {}

Goto(q, label) == web' = [web EXCEPT ![q] = label]
MayOpen == Cardinality({q \in Requests : web[q] \in Live}) < MaxOpen

-----------------------------------------------------------------------------
(* Initialisation.                                                         *)

\* InitializeKraDeviceRequest lets the request pass.
ReceiveInitialise(q, p, u) ==
  /\ web[q] = "new" /\ MayOpen
  /\ about' = [about EXCEPT ![q] = <<p, u>>]
  /\ Goto(q, "initialising")
  /\ UNCHANGED <<found, mem, outcome, devices, kraVars>>

\* Answers to the JSON command: "000" is a success with an sdcId, "uncoded" one
\* that has the sdcId but no resultCd, which sendJsonCommand lets pass as well,
\* "no id" a success without sdcId, "41" says the unit is activated already,
\* and "code" is any other error.
InitReplies == {NoReply, "4xx", "5xx", "malformed", "000", "uncoded", "no id", "41", "code"}

\* A mistake to catch: the missing sdcId is not noticed.
ConfirmsAnything(reply) == reply \in {"000", "uncoded", "no id"}

\* sendJsonCommand returned, and the answer has an sdcId.
Confirms(reply) == reply \in {"000", "uncoded"}

\* The unit is activated if the answer has its sdcId, which KRA gives to
\* activated units only, and it may be if the answer is lost or has no sdcId.
Activate(q, reply) ==
  LET u == about[q][2] IN
  \/ /\ reply \notin {"4xx", "41", "code"}
     /\ activated' = activated \cup {u}
     /\ UNCHANGED late
  \/ /\ reply \notin {"000", "uncoded"}
     /\ reply = "41" => u \in activated
     /\ UNCHANGED kraVars
  \/ reply = NoReply /\ late' = late \cup {q} /\ UNCHANGED activated

\* POST /initiolises with the strict timeout.  On error 41 the code looks for
\* the SCU id by parsing the JSON answer as XML, which raises an ErrorException
\* that its catch does not match: the request fails as on every other error.
AskInitialise(q) ==
  /\ web[q] = "initialising"
  /\ \E reply \in InitReplies :
       /\ Activate(q, reply)
       /\ Goto(q, IF Confirms(reply) THEN "confirmed" ELSE "error")
       /\ outcome' = [outcome EXCEPT ![q] =
            IF Confirms(reply) THEN "ACTIVATED" ELSE "exception"]
  /\ UNCHANGED <<about, found, mem, devices>>

\* The row of this SCU id and this PIN, or else a new model with a new UUID.
LookUp(q) ==
  LET matching == {g \in Gateway : <<devices[g].pin, devices[g].unit>> = about[q]} IN
  /\ web[q] = "confirmed"
  /\ \/ \E g \in matching :
          /\ found' = [found EXCEPT ![q] = g]
          /\ mem' = [mem EXCEPT ![q] = devices[g].status]
     \/ /\ matching = {}
        /\ found' = [found EXCEPT ![q] = q]
        /\ UNCHANGED mem
  /\ Goto(q, "saving")
  /\ UNCHANGED <<about, outcome, devices, kraVars>>

\* save() of a new model inserts it.
InsertRow(q) ==
  /\ devices' = [devices EXCEPT ![q] =
       [unit |-> about[q][2], pin |-> about[q][1], status |-> outcome[q],
        savedBy |-> q]]
  /\ Goto(q, "answered")

\* A mistake to catch: kra_scu_id has no unique index.
InsertAnyway(q) ==
  /\ web[q] = "saving" /\ mem[q] = "absent"
  /\ InsertRow(q)
  /\ UNCHANGED <<about, found, mem, outcome, kraVars>>

\* The unique index on kra_scu_id lets one row of a unit in, whoever's it is.
Insert(q) ==
  /\ web[q] = "saving" /\ mem[q] = "absent"
  /\ IF \E g \in Gateway : devices[g].unit = about[q][2]
     THEN Goto(q, "error") /\ UNCHANGED devices
     ELSE InsertRow(q)
  /\ UNCHANGED <<about, found, mem, outcome, kraVars>>

-----------------------------------------------------------------------------
(* Status check.                                                           *)

\* The controller loads the device.
ReceiveCheck(q, g) ==
  /\ web[q] = "new" /\ MayOpen
  /\ g \in Gateway
  /\ found' = [found EXCEPT ![q] = g]
  /\ mem' = [mem EXCEPT ![q] = devices[g].status]
  /\ Goto(q, "checking")
  /\ UNCHANGED <<about, outcome, devices, kraVars>>

\* CMD STATUS.  Without a DATA node in the answer nothing is saved.
AskStatus(q) ==
  /\ web[q] = "checking"
  /\ \E reply \in Replies :
       \/ /\ SendCommandThrows(reply)
          /\ outcome' = [outcome EXCEPT ![q] = "exception"]
          /\ Goto(q, "saving")
       \/ /\ ~SendCommandThrows(reply)
          /\ outcome' = [outcome EXCEPT ![q] =
               IF reply = "P" THEN "ACTIVATED" ELSE "ERROR"]
          /\ Goto(q, "saving")
       \/ Goto(q, "error") /\ UNCHANGED outcome
  /\ UNCHANGED <<about, found, mem, devices, kraVars>>

\* save() of a loaded model: the status is written only if it differs from the
\* one that was loaded, whatever the table holds by now.
Update(q) ==
  LET new == StatusFor(outcome[q]) IN
  /\ web[q] = "saving" /\ mem[q] # "absent"
  /\ devices' = [devices EXCEPT
       ![found[q]].status = IF new = mem[q] THEN @ ELSE new,
       ![found[q]].savedBy = q]
  /\ Goto(q, IF outcome[q] = "exception" THEN "error" ELSE "answered")
  /\ UNCHANGED <<about, found, mem, outcome, kraVars>>

-----------------------------------------------------------------------------

\* The PHP process that serves q dies, or its database fails.
Die(q) ==
  /\ web[q] \in Live
  /\ IF web[q] = "initialising" THEN Activate(q, NoReply) ELSE UNCHANGED kraVars
  /\ Goto(q, "dead")
  /\ UNCHANGED <<about, found, mem, outcome, devices>>

\* An initialisation reaches KRA after the gateway has given up.
ActivateLate(q) ==
  /\ q \in late
  /\ activated' = activated \cup {about[q][2]}
  /\ late' = late \ {q}
  /\ UNCHANGED <<web, about, found, mem, outcome, devices>>

Next ==
  \E q \in Requests :
    \/ \E p \in Pins, u \in Units : ReceiveInitialise(q, p, u)
    \/ \E g \in Requests : ReceiveCheck(q, g)
    \/ AskInitialise(q) \/ LookUp(q) \/ Insert(q)
    \/ AskStatus(q) \/ Update(q)
    \/ Die(q) \/ ActivateLate(q)

Spec == Init /\ [][Next]_vars

-----------------------------------------------------------------------------
(* Properties.                                                             *)

Row == [unit : Units, pin : Pins, status : {"ACTIVATED", "ERROR"},
        savedBy : Requests]

\* The type of every variable.
TypeOK ==
  /\ web \in [Requests -> Web]
  /\ about \in [Requests -> (Pins \X Units) \cup {<<Nothing, Nothing>>}]
  /\ found \in [Requests -> Requests \cup {Nothing}]
  /\ mem \in [Requests -> {"absent", "ACTIVATED", "ERROR"}]
  /\ outcome \in [Requests -> Outcomes]
  /\ devices \in [Requests -> Row \cup {NoRow}]
  /\ activated \subseteq Units
  /\ late \subseteq Requests

Initialised(q) == web[q] = "answered" /\ about[q][2] # Nothing

\* Clients that initialised the same unit, however their requests overlapped,
\* hold the same gateway id, and it is the id of a row for their PIN.
OneIdPerUnit ==
  \A q \in Requests : Initialised(q) =>
    /\ <<devices[found[q]].pin, devices[found[q]].unit>> = about[q]
    /\ \A r \in Requests :
         Initialised(r) /\ about[r][2] = about[q][2] => found[r] = found[q]

\* Every device the gateway knows is activated at KRA, although answers get
\* lost, arrive without an id, and commands take effect late.
KnownIsActivated == \A g \in Gateway : devices[g].unit \in activated

\* A device's status is what the request that saved it last learnt from KRA.
\* The code does not promise it and it fails when two checks of one device
\* overlap (KraDeviceService.php:173).
StatusIsLatest ==
  \A g \in Gateway : devices[g].status = StatusFor(outcome[devices[g].savedBy])
=============================================================================
