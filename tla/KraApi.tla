------------------------------- MODULE KraApi -------------------------------
(***************************************************************************)
(* The XML half of app/Services/KraApi.php: what sendCommand makes of the  *)
(* answer of a KRA endpoint.  An answer is abstracted to what the code     *)
(* tells apart:                                                            *)
(*   "none"       no answer within the timeout, or no connection           *)
(*   "4xx","5xx"  an HTTP error status                                     *)
(*   "malformed"  a 2xx answer whose body is empty or is not XML           *)
(*   a value of KraStatuses: a 2xx answer whose <STATUS> has that value;   *)
(*   "P" is KRA's acceptance, "E" its rejection and "other" every other    *)
(*   value, a missing STATUS included.                                     *)
(***************************************************************************)
CONSTANT KraStatuses

ASSUME KraStatusesAssumption ==
  {"P", "E"} \subseteq KraStatuses /\ KraStatuses \subseteq {"P", "E", "other"}

NoReply == "none"

Replies == {NoReply, "4xx", "5xx", "malformed"} \cup KraStatuses

\* A mistake to catch: STATUS is not looked at.
ThrowsNotOnStatus(reply) == reply \in {NoReply, "4xx", "5xx", "malformed"}

\* A mistake to catch: throw() is not called on the HTTP response.
ThrowsNotOnHttpError(reply) == reply \in {NoReply, "malformed", "E"}

\* sendCommand throws a KraApiException: throw() on an HTTP error, an
\* unparseable body, STATUS 'E', or whatever else the HTTP client threw.  Every
\* other answer is returned to the caller as a success.
SendCommandThrows(reply) ==
  reply \in {NoReply, "4xx", "5xx", "malformed", "E"}

\* The answers after which the endpoint may have carried the command out: it
\* did if it says so, and it may have if its answer was lost or garbled.
MayBeAccepted(reply) == reply \in {"P", "5xx", "malformed", NoReply}

\* The answers after which it may not have.
MayBeRefused(reply) == reply # "P"

=============================================================================
