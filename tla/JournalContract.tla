--------------------------- MODULE JournalContract ---------------------------
(***************************************************************************)
(* What journaling promises to those who read journal_status and to KRA,   *)
(* without jobs, workers or attempts.  KRA's record of a transaction grows *)
(* message by message, each item after the previous one and the receipt    *)
(* last; the gateway may report a transaction COMPLETED only when KRA has  *)
(* all of it.  Any report may be replaced by another, except that a        *)
(* transaction that was taken up is never PENDING again.                   *)
(***************************************************************************)
EXTENDS Naturals

CONSTANTS Txns, Items
VARIABLES status, journal

vars == <<status, journal>>

Parts(t) == Items[t] + 1
Journaled(t) == {i \in 1..Parts(t) : <<t, i>> \in journal}

Init ==
  /\ status = [t \in Txns |-> "absent"]
  /\ journal = {}

\* The sale is signed and stored.
Record(t) ==
  /\ status[t] = "absent"
  /\ status' = [status EXCEPT ![t] = "PENDING"]
  /\ UNCHANGED journal

\* KRA accepts the next message of t.
Accept(t) ==
  /\ status[t] # "absent"
  /\ \E i \in 1..Parts(t) :
       /\ Journaled(t) = 1..(i - 1)
       /\ journal' = journal \cup {<<t, i>>}
  /\ UNCHANGED status

\* The gateway reports how t stands.
Report(t) ==
  /\ status[t] # "absent"
  /\ \E s \in {"QUEUED", "COMPLETED", "FAILED"} :
       /\ s = "COMPLETED" => Journaled(t) = 1..Parts(t)
       /\ status' = [status EXCEPT ![t] = s]
  /\ UNCHANGED journal

Next == \E t \in Txns : Record(t) \/ Accept(t) \/ Report(t)

Spec == Init /\ [][Next]_vars
=============================================================================
