---------------------------- MODULE KraSubmissions ----------------------------
(***************************************************************************)
(* What clients tell KRA through the gateway while they wait, and the      *)
(* gateway does not store: purchases (KraPurchaseService::sendPurchase),   *)
(* stock movements (KraInventoryService::sendInventoryMovement), items     *)
(* (KraItemService::registerItem) and the end of the day                   *)
(* (KraReportService::generateZDailyReport).  A purchase is a header and   *)
(* its items, one command each; the others are one command.                *)
(*                                                                         *)
(* A request sends its commands in order and ends at the first exception.  *)
(* Nothing remembers how far it came: a client that got no answer or an    *)
(* error sends the whole submission again, in another request.  Message i  *)
(* of submission d is the pair <<d, i>>, the header or only command being  *)
(* number 0.                                                               *)
(***************************************************************************)
EXTENDS Naturals, FiniteSets, KraApi

CONSTANTS
  Purchases,      \* purchases, by invoice id
  Items,          \* Items[d]: the number of items of purchase d
  Movements,      \* stock movements
  Registrations,  \* items to register or update
  DayEnds,        \* days to be closed by a Z report
  Requests,       \* HTTP requests of the clients
  Nothing         \* in place of a submission

Submissions == Purchases \cup Movements \cup Registrations \cup DayEnds

ASSUME ItemsAssumption == Items \in [Purchases -> Nat \ {0}]
ASSUME NothingAssumption == Nothing \notin Submissions
ASSUME KindsAssumption ==
  /\ Purchases \cap (Movements \cup Registrations \cup DayEnds) = {}
  /\ Movements \cap (Registrations \cup DayEnds) = {}
  /\ Registrations \cap DayEnds = {}

VARIABLES
  web,    \* where each request is
  about,  \* the submission each request is for
  part,   \* how many commands each request has sent
  held,   \* how often KRA has carried out each message
  late    \* commands still under way with nobody waiting: <<request, number>>

kraVars == <<held, late>>
vars == <<web, about, part, kraVars>>

-----------------------------------------------------------------------------

Web == {"new", "sending", "answered", "error", "dead"}

\* The number of the last message of d.
Last(d) == IF d \in Purchases THEN Items[d] ELSE 0
Messages == UNION {{<<d, i>> : i \in 0..Last(d)} : d \in Submissions}

Init ==
  /\ web = [q \in Requests |-> "new"]
  /\ about = [q \in Requests |-> Nothing]
  /\ part = [q \in Requests |-> 0]
  /\ held = [m \in Messages |-> 0]
  /\ late = {}

Goto(q, label) == web' = [web EXCEPT ![q] = label]

\* The request passes authorisation and validation, or is refused.  Unlike for
\* a sale, the status of the device is not looked at.
Receive(q, d) ==
  /\ web[q] = "new"
  /\ about' = [about EXCEPT ![q] = d]
  /\ \E label \in {"sending", "error"} : Goto(q, label)
  /\ UNCHANGED <<part, kraVars>>

\* What becomes of the command q sends when it gets the given answer.
Transmit(q, reply) ==
  LET m == <<about[q], part[q]>> IN
  \/ MayBeAccepted(reply) /\ held' = [held EXCEPT ![m] = @ + 1] /\ UNCHANGED late
  \/ MayBeRefused(reply) /\ UNCHANGED kraVars
  \/ reply = NoReply /\ late' = late \cup {<<q, part[q]>>} /\ UNCHANGED held

\* SEND_PURCHASE, then SEND_PURCHASEITEM for each item; the client hears of the
\* last one's success, or of the first exception.
SendPurchase(q) ==
  /\ web[q] = "sending" /\ about[q] \in Purchases
  /\ \E reply \in Replies :
       /\ Transmit(q, reply)
       /\ Goto(q, IF SendCommandThrows(reply) THEN "error"
                  ELSE IF part[q] < Last(about[q]) THEN "sending" ELSE "answered")
  /\ part' = [part EXCEPT ![q] = @ + 1]
  /\ UNCHANGED about

\* A mistake to catch: the HTTP client repeats a command that failed.
RepeatOnFailure(q) ==
  /\ web[q] = "sending"
  /\ \E reply \in Replies :
       /\ Transmit(q, reply)
       /\ IF SendCommandThrows(reply) THEN UNCHANGED <<web, part>>
          ELSE Goto(q, "answered") /\ part' = [part EXCEPT ![q] = @ + 1]
  /\ UNCHANGED about

\* One command, whose STATUS is passed on to the client.
SendOnce(q) ==
  /\ web[q] = "sending"
  /\ \E reply \in Replies :
       /\ Transmit(q, reply)
       /\ Goto(q, IF SendCommandThrows(reply) THEN "error" ELSE "answered")
  /\ part' = [part EXCEPT ![q] = @ + 1]
  /\ UNCHANGED about

SendInventoryMovement(q) == about[q] \in Movements /\ SendOnce(q)

RegisterItem(q) == about[q] \in Registrations /\ SendOnce(q)

\* Z_REPORT: an answer without a DATA node is an exception too, although the
\* device has closed the day.
GenerateZDailyReport(q) ==
  /\ web[q] = "sending" /\ about[q] \in DayEnds
  /\ \E reply \in Replies :
       /\ Transmit(q, reply)
       /\ \/ ~SendCommandThrows(reply) /\ Goto(q, "answered")
          \/ Goto(q, "error")
  /\ part' = [part EXCEPT ![q] = @ + 1]
  /\ UNCHANGED about

\* The PHP process that serves q dies while it waits for KRA.
Die(q) ==
  /\ web[q] = "sending"
  /\ Transmit(q, NoReply)
  /\ part' = [part EXCEPT ![q] = @ + 1]
  /\ Goto(q, "dead")
  /\ UNCHANGED about

\* A command reaches KRA after its sender has given up.
LateArrival ==
  /\ \E c \in late :
       /\ held' = [held EXCEPT ![<<about[c[1]], c[2]>>] = @ + 1]
       /\ late' = late \ {c}
  /\ UNCHANGED <<web, about, part>>

Next ==
  \/ \E q \in Requests :
       \/ \E d \in Submissions : Receive(q, d)
       \/ SendPurchase(q) \/ SendInventoryMovement(q) \/ RegisterItem(q)
       \/ GenerateZDailyReport(q) \/ Die(q)
  \/ LateArrival

Spec == Init /\ [][Next]_vars

-----------------------------------------------------------------------------
(* Properties.                                                             *)

\* The type of every variable; no request sends more than there is to send.
TypeOK ==
  /\ web \in [Requests -> Web]
  /\ about \in [Requests -> Submissions \cup {Nothing}]
  /\ part \in [Requests -> Nat]
  /\ \A q \in Requests : part[q] <= Last(about[q]) + 1
  /\ held \in [Messages -> Nat]
  /\ late \subseteq Requests \X Nat

\* KRA holds an item of a purchase only if it holds the header and every item
\* before it, although each retry starts again with the header, two requests may
\* send the same purchase at once, and commands arrive late.
HeaderFirst ==
  \A m \in Messages : held[m] > 0 => \A k \in 0..m[2] : held[<<m[1], k>>] > 0

\* A success is believed: KRA has carried out every message of a submission at
\* least as often as a client was told so.  A failure is not: KRA has carried it
\* out at most as often as it was sent, so a client that repeats a submission
\* repeats a movement or a Z report at most once for each request.
HeldBetween ==
  \A m \in Messages :
    /\ Cardinality({q \in Requests : about[q] = m[1] /\ web[q] = "answered"}) <= held[m]
    /\ held[m] <= Cardinality({q \in Requests : about[q] = m[1] /\ part[q] > m[2]})
=============================================================================
