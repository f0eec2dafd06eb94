------------------------ MODULE KraSubmissions_proofs ------------------------
(***************************************************************************)
(* What holds of submissions for every number of them, of their items and  *)
(* of requests: the types, and that KRA holds no item of a purchase        *)
(* without the header and the items before it.                             *)
(*                                                                         *)
(* The second is not inductive: it needs that a request sends a message    *)
(* only when KRA holds those before it, and that this was so of every      *)
(* command that is still under way.                                        *)
(*                                                                         *)
(* For finitely many requests it also counts: a message is held once for   *)
(* every request that went on after it, and for each time it was sent it   *)
(* is held once, still under way, or lost.                                 *)
(***************************************************************************)
EXTENDS KraSubmissions, FiniteSetTheorems, TLAPS

USE DEF Web

\* The messages before number i of d are held.
Behind(d, i) ==
  d \in Submissions /\ i \in 0..Last(d) /\ \A k \in 0..(i - 1) : held[<<d, k>>] > 0

RequestInv(q) ==
  /\ web[q] = "sending" => Behind(about[q], part[q])
  /\ web[q] = "new" => part[q] = 0

IInv ==
  /\ TypeOK
  /\ \A q \in Requests : RequestInv(q)
  /\ \A c \in late : web[c[1]] # "new" /\ Behind(about[c[1]], c[2])
  /\ HeaderFirst

LEMMA MessageIs ==
  ASSUME NEW d, NEW i
  PROVE  <<d, i>> \in Messages <=> d \in Submissions /\ i \in 0..Last(d)
  BY DEF Messages

LEMMA MessageIsPair ==
  ASSUME NEW m \in Messages
  PROVE  m = <<m[1], m[2]>> /\ m[1] \in Submissions /\ m[2] \in 0..Last(m[1])
  BY DEF Messages

LEMMA LastIsNat == ASSUME NEW d PROVE Last(d) \in Nat
  BY ItemsAssumption DEF Last

LEMMA InitIInv == Init => IInv
<1> SUFFICES ASSUME Init PROVE IInv
  OBVIOUS
<1>1. TypeOK
  BY LastIsNat DEF Init, TypeOK
<1>2. HeaderFirst
  BY DEF Init, HeaderFirst
<1> QED
  BY <1>1, <1>2 DEF Init, IInv, RequestInv

\* What KRA holds is never taken back.
Grows == \A m \in Messages : held[m] > 0 => held'[m] > 0

LEMMA BehindStays ==
  ASSUME Grows, NEW d, NEW i, Behind(d, i)
  PROVE  Behind(d, i)'
<1>1. \A k \in 0..(i - 1) : <<d, k>> \in Messages
  BY MessageIs, LastIsNat DEF Behind
<1> QED
  BY <1>1 DEF Grows, Behind

\* Carrying out a message that is behind others adds it, and keeps the order.
LEMMA CarriedOut ==
  ASSUME TypeOK, HeaderFirst, NEW d, NEW i, Behind(d, i),
         held' = [held EXCEPT ![<<d, i>>] = @ + 1]
  PROVE  /\ held' \in [Messages -> Nat] /\ Grows
         /\ held'[<<d, i>>] > 0
         /\ HeaderFirst'
<1>1. <<d, i>> \in Messages
  BY MessageIs DEF Behind
<1>2. held' \in [Messages -> Nat] /\ Grows /\ held'[<<d, i>>] > 0
  BY <1>1 DEF TypeOK, Grows
<1>3. HeaderFirst'
  <2> SUFFICES ASSUME NEW m \in Messages, held'[m] > 0, NEW k \in 0..m[2]
               PROVE  held'[<<m[1], k>>] > 0
    BY DEF HeaderFirst
  <2>1. m = <<m[1], m[2]>> /\ m[1] \in Submissions /\ <<m[1], k>> \in Messages
    BY MessageIsPair, MessageIs, LastIsNat
  <2>2. CASE m = <<d, i>>
    <3>1. k = i \/ held[<<d, k>>] > 0
      BY <2>1, <2>2 DEF Behind
    <3> QED
      BY <1>2, <2>1, <2>2, <3>1 DEF Grows
  <2>3. CASE m # <<d, i>>
    <3>1. held[m] > 0
      BY <1>1, <2>3 DEF TypeOK
    <3>2. held[<<m[1], k>>] > 0
      BY <3>1 DEF HeaderFirst
    <3> QED
      BY <1>2, <2>1, <3>2 DEF Grows
  <2> QED
    BY <2>2, <2>3
<1> QED
  BY <1>2, <1>3

\* A request sends its next command: it goes on only if KRA has accepted this
\* one and it was not the last.
Sends(q) ==
  /\ web[q] = "sending" /\ UNCHANGED about
  /\ part' = [part EXCEPT ![q] = @ + 1]
  /\ \E reply \in Replies, label \in {"sending", "answered", "error", "dead"} :
       /\ Transmit(q, reply)
       /\ web' = [web EXCEPT ![q] = label]
       /\ label = "sending" => ~SendCommandThrows(reply) /\ part[q] < Last(about[q])
       /\ label = "answered" => ~SendCommandThrows(reply) /\ part[q] >= Last(about[q])

\* Whatever the request submits, or if it dies.
LEMMA EveryKindSends ==
  ASSUME IInv, NEW q \in Requests,
         \/ SendPurchase(q) \/ SendInventoryMovement(q) \/ RegisterItem(q)
         \/ GenerateZDailyReport(q) \/ Die(q)
  PROVE  Sends(q)
<1>1. NoReply \in Replies /\ Last(about[q]) \in Nat /\ part[q] \in Nat
  BY LastIsNat DEF Replies, IInv, TypeOK
<1>2. about[q] \in Movements \cup Registrations \cup DayEnds => Last(about[q]) = 0
  BY KindsAssumption DEF Last
<1> QED
  BY <1>1, <1>2 DEF SendPurchase, SendInventoryMovement, RegisterItem, SendOnce,
                    GenerateZDailyReport, Die, Goto, Sends

LEMMA SendsIInv ==
  ASSUME KraStatuses \subseteq {"P", "E"}, IInv, NEW q \in Requests, Sends(q)
  PROVE  IInv'
<1> DEFINE d == about[q]
           i == part[q]
<1>1. PICK reply \in Replies, label \in {"sending", "answered", "error", "dead"} :
        /\ Transmit(q, reply)
        /\ web' = [web EXCEPT ![q] = label]
        /\ label = "sending" => ~SendCommandThrows(reply) /\ i < Last(d)
  BY DEF Sends
<1>2. /\ about' = about /\ part' = [part EXCEPT ![q] = i + 1]
      /\ web[q] = "sending" /\ Behind(d, i) /\ i \in Nat /\ Last(d) \in Nat
  BY LastIsNat DEF Sends, IInv, RequestInv, TypeOK
<1>3. /\ held' \in [Messages -> Nat] /\ Grows /\ HeaderFirst'
      /\ label = "sending" => held'[<<d, i>>] > 0
  <2>1. CASE held' = [held EXCEPT ![<<d, i>>] = @ + 1]
    BY <1>2, <2>1, CarriedOut DEF IInv
  <2>2. CASE UNCHANGED held /\ MayBeRefused(reply)
    <3>1. label # "sending"
      BY <1>1, <2>2 DEF MayBeRefused, SendCommandThrows, Replies
    <3> QED
      BY <2>2, <3>1 DEF Grows, HeaderFirst, IInv, TypeOK
  <2>3. CASE UNCHANGED held /\ reply = NoReply
    <3>1. label # "sending"
      BY <1>1, <2>3 DEF SendCommandThrows, NoReply
    <3> QED
      BY <2>3, <3>1 DEF Grows, HeaderFirst, IInv, TypeOK
  <2> QED
    BY <1>1, <2>1, <2>2, <2>3 DEF Transmit, kraVars
<1>4. late' = late \/ late' = late \cup {<<q, i>>}
  BY <1>1 DEF Transmit, kraVars
<1>5. TypeOK'
  BY <1>1, <1>2, <1>3, <1>4 DEF IInv, TypeOK, Behind
<1>6. \A c \in late' : web'[c[1]] # "new" /\ Behind(about[c[1]], c[2])'
  <2>1. \A c \in late' : c[1] \in Requests /\ web[c[1]] # "new" /\ Behind(about[c[1]], c[2])
    BY <1>2, <1>4 DEF IInv, TypeOK
  <2>2. \A c \in late' : web'[c[1]] # "new"
    BY <1>1, <2>1 DEF IInv, TypeOK
  <2> QED
    BY <1>2, <1>3, <2>1, <2>2, BehindStays DEF Behind
<1>7. \A r \in Requests : RequestInv(r)'
  <2>1. ASSUME NEW r \in Requests, r # q
        PROVE  RequestInv(r)'
    <3>1. web'[r] = web[r] /\ part'[r] = part[r] /\ about'[r] = about[r]
      BY <1>1, <1>2, <2>1 DEF IInv, TypeOK
    <3>2. web[r] = "sending" => Behind(about[r], part[r])'
      <4>1. web[r] = "sending" => Behind(about[r], part[r])
        BY DEF IInv, RequestInv
      <4> QED
        BY <1>3, <3>1, <4>1, BehindStays DEF Behind
    <3> QED
      BY <3>1, <3>2 DEF RequestInv, IInv
  <2>2. RequestInv(q)'
    <3>1. web'[q] = label /\ part'[q] = i + 1 /\ about'[q] = d
      BY <1>1, <1>2 DEF IInv, TypeOK
    <3>2. ASSUME label = "sending"
          PROVE  /\ d \in Submissions /\ i + 1 \in 0..Last(d)
                 /\ \A k \in 0..i : held'[<<d, k>>] > 0
      <4>1. d \in Submissions /\ i + 1 \in 0..Last(d)
        BY <1>1, <1>2, <3>2 DEF Behind
      <4>2. \A k \in 0..(i - 1) : <<d, k>> \in Messages /\ held[<<d, k>>] > 0
        BY <1>2, MessageIs DEF Behind
      <4>3. \A k \in 0..(i - 1) : held'[<<d, k>>] > 0
        BY <1>3, <4>2 DEF Grows
      <4> QED
        BY <1>2, <1>3, <3>2, <4>1, <4>3
    <3> QED
      BY <3>1, <3>2, <1>2 DEF RequestInv, Behind
  <2> QED
    BY <2>1, <2>2
<1> QED
  BY <1>3, <1>5, <1>6, <1>7 DEF IInv

LEMMA ReceiveIInv ==
  ASSUME IInv, NEW q \in Requests, NEW d \in Submissions, Receive(q, d)
  PROVE  IInv'
<1>1. /\ web[q] = "new" /\ about' = [about EXCEPT ![q] = d]
      /\ UNCHANGED <<part, held, late>>
      /\ \E label \in {"sending", "error"} : web' = [web EXCEPT ![q] = label]
      /\ part[q] = 0 /\ Last(d) \in Nat
  BY LastIsNat DEF Receive, Goto, kraVars, IInv, RequestInv
<1>2. TypeOK'
  BY <1>1 DEF IInv, TypeOK
<1>3. \A r \in Requests : RequestInv(r)'
  BY <1>1 DEF IInv, TypeOK, RequestInv, Behind
<1>4. \A c \in late' : c[1] \in Requests /\ c[1] # q
  BY <1>1 DEF IInv, TypeOK
<1>5. \A c \in late' : web'[c[1]] # "new" /\ Behind(about[c[1]], c[2])'
  BY <1>1, <1>4 DEF IInv, TypeOK, Behind
<1>6. HeaderFirst'
  BY <1>1 DEF IInv, HeaderFirst
<1> QED
  BY <1>2, <1>3, <1>5, <1>6 DEF IInv

LEMMA LateArrivalIInv ==
  ASSUME IInv, LateArrival
  PROVE  IInv'
<1>1. PICK c \in late :
        /\ held' = [held EXCEPT ![<<about[c[1]], c[2]>>] = @ + 1]
        /\ late' = late \ {c}
        /\ UNCHANGED <<web, about, part>>
  BY DEF LateArrival
<1>2. held' \in [Messages -> Nat] /\ Grows /\ HeaderFirst'
  BY <1>1, CarriedOut DEF IInv
<1>3. TypeOK'
  BY <1>1, <1>2 DEF IInv, TypeOK
<1>4. \A d, i : Behind(d, i) => Behind(d, i)'
  BY <1>2, BehindStays
<1>5. \A r \in Requests : RequestInv(r)'
  BY <1>1, <1>4 DEF IInv, RequestInv, Behind
<1>6. \A e \in late' : web'[e[1]] # "new" /\ Behind(about[e[1]], e[2])'
  BY <1>1, <1>4 DEF IInv, Behind
<1> QED
  BY <1>2, <1>3, <1>5, <1>6 DEF IInv

LEMMA NextIInv ==
  ASSUME KraStatuses \subseteq {"P", "E"}
  PROVE  IInv /\ [Next]_vars => IInv'
<1> SUFFICES ASSUME IInv, [Next]_vars
             PROVE  IInv'
  OBVIOUS
<1>1. ASSUME NEW q \in Requests, NEW d \in Submissions, Receive(q, d)
      PROVE  IInv'
  BY <1>1, ReceiveIInv
<1>2. ASSUME NEW q \in Requests,
             \/ SendPurchase(q) \/ SendInventoryMovement(q) \/ RegisterItem(q)
             \/ GenerateZDailyReport(q) \/ Die(q)
      PROVE  IInv'
  BY <1>2, EveryKindSends, SendsIInv
<1>3. CASE LateArrival
  BY <1>3, LateArrivalIInv
<1>4. CASE UNCHANGED vars
  BY <1>4 DEF vars, kraVars, IInv, TypeOK, RequestInv, Behind, HeaderFirst
<1> QED
  BY <1>1, <1>2, <1>3, <1>4 DEF Next

\* The variables keep their types, and no request sends more than there is.
THEOREM SubmissionsTypeCorrect ==
  ASSUME KraStatuses \subseteq {"P", "E"}
  PROVE  Spec => []TypeOK
<1>1. IInv /\ [Next]_vars => IInv'
  BY NextIInv
<1>2. IInv => TypeOK
  BY DEF IInv
<1> QED
  BY <1>1, <1>2, InitIInv, PTL DEF Spec

\* KRA holds no item without the header and the items before it.
THEOREM HeadersComeFirst ==
  ASSUME KraStatuses \subseteq {"P", "E"}
  PROVE  Spec => []HeaderFirst
<1>1. IInv /\ [Next]_vars => IInv'
  BY NextIInv
<1>2. IInv => HeaderFirst
  BY DEF IInv
<1> QED
  BY <1>1, <1>2, InitIInv, PTL DEF Spec

-----------------------------------------------------------------------------
(* Counting.                                                               *)

\* The requests that went on after message m, those that have sent it, and
\* those whose command is still under way.
WentOn(m) == {q \in Requests : about[q] = m[1] /\ web[q] \in {"sending", "answered"} /\ part[q] > m[2]}
Sent(m) == {q \in Requests : about[q] = m[1] /\ part[q] > m[2]}
UnderWay(m) == {q \in Requests : about[q] = m[1] /\ <<q, m[2]>> \in late}

CountInv ==
  /\ IInv
  /\ \A q \in Requests : web[q] = "answered" => part[q] > Last(about[q])
  /\ \A m \in Messages : /\ Cardinality(WentOn(m)) <= held[m]
                         /\ held[m] + Cardinality(UnderWay(m)) <= Cardinality(Sent(m))

LEMMA CountIsNat ==
  ASSUME IsFiniteSet(Requests), NEW S \in SUBSET Requests
  PROVE  IsFiniteSet(S) /\ Cardinality(S) \in Nat
  BY FS_Subset, FS_CardinalityType

LEMMA AtMostOneMore ==
  ASSUME NEW S, IsFiniteSet(S), NEW x, NEW T, T \subseteq S \cup {x}
  PROVE  Cardinality(T) <= Cardinality(S) + 1
<1>1. /\ IsFiniteSet(S \cup {x}) /\ Cardinality(S \cup {x}) <= Cardinality(S) + 1
      /\ Cardinality(S) \in Nat /\ Cardinality(S \cup {x}) \in Nat
  BY FS_AddElement, FS_CardinalityType
<1>2. IsFiniteSet(T) /\ Cardinality(T) <= Cardinality(S \cup {x})
  BY <1>1, FS_Subset
<1>3. Cardinality(T) \in Nat
  BY <1>2, FS_CardinalityType
<1> QED
  BY <1>1, <1>2, <1>3

LEMMA AtLeastOneMore ==
  ASSUME NEW T, IsFiniteSet(T), NEW S, NEW x \in T, x \notin S, S \subseteq T
  PROVE  Cardinality(S) + 1 <= Cardinality(T)
<1>1. IsFiniteSet(S)
  BY FS_Subset
<1>2. IsFiniteSet(S \cup {x}) /\ Cardinality(S \cup {x}) = Cardinality(S) + 1
  BY <1>1, FS_AddElement
<1>3. Cardinality(S \cup {x}) <= Cardinality(T)
  BY FS_Subset
<1> QED
  BY <1>2, <1>3

\* A request that sends is counted once more for the message it sends, and for
\* no other.
LEMMA SendsCountInv ==
  ASSUME IsFiniteSet(Requests), KraStatuses \subseteq {"P", "E"},
         CountInv, IInv', NEW q \in Requests, Sends(q)
  PROVE  CountInv'
<1> DEFINE d == about[q]
           i == part[q]
           sent == <<d, i>>
<1>1. PICK reply \in Replies, label \in {"sending", "answered", "error", "dead"} :
        /\ Transmit(q, reply)
        /\ web' = [web EXCEPT ![q] = label]
        /\ label = "sending" => ~SendCommandThrows(reply) /\ i < Last(d)
        /\ label = "answered" => ~SendCommandThrows(reply) /\ i >= Last(d)
  BY DEF Sends
<1>2. /\ about' = about /\ part' = [part EXCEPT ![q] = i + 1]
      /\ web[q] = "sending" /\ i \in Nat /\ Last(d) \in Nat
      /\ d \in Submissions /\ sent \in Messages
  BY LastIsNat, MessageIs DEF Sends, CountInv, IInv, RequestInv, Behind, TypeOK
<1>3. \A r \in Requests : web'[r] = "answered" => part'[r] > Last(about[r])
  BY <1>1, <1>2, LastIsNat DEF CountInv, IInv, TypeOK
<1>4. \/ held' = [held EXCEPT ![sent] = @ + 1] /\ late' = late
      \/ /\ held' = held /\ label \in {"error", "dead"}
         /\ late' \in {late, late \cup {<<q, i>>}}
  BY <1>1 DEF Transmit, kraVars, MayBeRefused, SendCommandThrows, Replies, NoReply
<1>5. ASSUME NEW m \in Messages
      PROVE  /\ Cardinality(WentOn(m)') <= held'[m]
             /\ held'[m] + Cardinality(UnderWay(m)') <= Cardinality(Sent(m)')
  <2>1. /\ Cardinality(WentOn(m)) <= held[m] /\ held[m] \in Nat /\ held'[m] \in Nat
        /\ held[m] + Cardinality(UnderWay(m)) <= Cardinality(Sent(m))
        /\ m = <<m[1], m[2]>> /\ m[2] \in Nat
    BY MessageIsPair, LastIsNat DEF CountInv, IInv, TypeOK
  <2>2. /\ IsFiniteSet(Sent(m)') /\ Cardinality(Sent(m)') \in Nat /\ Cardinality(Sent(m)) \in Nat
        /\ IsFiniteSet(WentOn(m)) /\ Cardinality(WentOn(m)) \in Nat /\ Cardinality(WentOn(m)') \in Nat
        /\ IsFiniteSet(UnderWay(m)) /\ Cardinality(UnderWay(m)) \in Nat
        /\ Cardinality(UnderWay(m)') \in Nat
    <3>1. /\ Sent(m) \subseteq Requests /\ Sent(m)' \subseteq Requests
          /\ WentOn(m) \subseteq Requests /\ WentOn(m)' \subseteq Requests
          /\ UnderWay(m) \subseteq Requests /\ UnderWay(m)' \subseteq Requests
      BY DEF Sent, WentOn, UnderWay
    <3> QED
      BY <3>1, CountIsNat
  <2>3. CASE m = sent
    <3>1. Cardinality(Sent(m)) + 1 <= Cardinality(Sent(m)')
      <4>1. Sent(m) \subseteq Sent(m)' /\ q \in Sent(m)' /\ q \notin Sent(m)
        BY <1>2, <2>3 DEF Sent, CountInv, IInv, TypeOK
      <4> QED
        BY <2>2, <4>1, AtLeastOneMore
    <3>2. CASE held' = [held EXCEPT ![sent] = @ + 1] /\ late' = late
      <4>1. WentOn(m)' \subseteq WentOn(m) \cup {q}
        BY <1>1, <1>2 DEF WentOn, CountInv, IInv, TypeOK
      <4>2. Cardinality(WentOn(m)') <= Cardinality(WentOn(m)) + 1
        BY <2>2, <4>1, AtMostOneMore
      <4>3. UnderWay(m)' = UnderWay(m)
        BY <1>2, <3>2 DEF UnderWay
      <4>4. held'[m] = held[m] + 1
        BY <2>3, <3>2 DEF CountInv, IInv, TypeOK
      <4> QED
        BY <2>1, <2>2, <3>1, <4>2, <4>3, <4>4
    <3>3. CASE held' = held /\ label \in {"error", "dead"} /\ late' \in {late, late \cup {<<q, i>>}}
      <4>1. WentOn(m)' \subseteq WentOn(m)
        BY <1>1, <1>2, <3>3 DEF WentOn, CountInv, IInv, TypeOK
      <4>2. Cardinality(WentOn(m)') <= Cardinality(WentOn(m))
        BY <2>2, <4>1, FS_Subset
      <4>3. UnderWay(m)' \subseteq UnderWay(m) \cup {q}
        BY <1>2, <3>3 DEF UnderWay
      <4>4. Cardinality(UnderWay(m)') <= Cardinality(UnderWay(m)) + 1
        BY <2>2, <4>3, AtMostOneMore
      <4> QED
        BY <2>1, <2>2, <3>1, <3>3, <4>2, <4>4
    <3> QED
      BY <1>4, <3>2, <3>3
  <2>4. CASE m # sent
    <3>1. held'[m] = held[m]
      BY <1>4, <2>4 DEF CountInv, IInv, TypeOK
    <3>2. m[1] = d => m[2] # i
      BY <2>1, <2>4
    <3>3. WentOn(m)' \subseteq WentOn(m)
      <4>1. \A r \in Requests : r # q => web'[r] = web[r] /\ part'[r] = part[r]
        BY <1>1, <1>2 DEF CountInv, IInv, TypeOK
      <4>2. d = m[1] /\ part'[q] > m[2] => part[q] > m[2]
        BY <1>2, <2>1, <3>2 DEF CountInv, IInv, TypeOK
      <4> QED
        BY <1>2, <4>1, <4>2 DEF WentOn
    <3>4. Cardinality(WentOn(m)') <= Cardinality(WentOn(m))
      BY <2>2, <3>3, FS_Subset
    <3>5. Sent(m)' = Sent(m)
      BY <1>2, <2>1, <3>2 DEF Sent, CountInv, IInv, TypeOK
    <3>6. UnderWay(m)' = UnderWay(m)
      BY <1>2, <1>4, <3>2 DEF UnderWay
    <3> QED
      BY <2>1, <2>2, <3>1, <3>4, <3>5, <3>6
  <2> QED
    BY <2>3, <2>4
<1> QED
  BY <1>2, <1>3, <1>5 DEF CountInv

\* A request that arrives has sent nothing: no message counts it.
LEMMA ReceiveCountInv ==
  ASSUME CountInv, IInv', NEW q \in Requests, NEW d \in Submissions, Receive(q, d)
  PROVE  CountInv'
<1>1. /\ web[q] = "new" /\ about' = [about EXCEPT ![q] = d] /\ part[q] = 0
      /\ UNCHANGED <<part, held, late>>
      /\ \E label \in {"sending", "error"} : web' = [web EXCEPT ![q] = label]
  BY DEF Receive, Goto, kraVars, CountInv, IInv, RequestInv
<1>2. \A r \in Requests : web'[r] = "answered" => part'[r] > Last(about[r]) /\ about'[r] = about[r]
  BY <1>1 DEF CountInv, IInv, TypeOK
<1>3. ASSUME NEW m \in Messages
      PROVE  WentOn(m)' = WentOn(m) /\ Sent(m)' = Sent(m) /\ UnderWay(m)' = UnderWay(m)
  <2>1. m[2] \in Nat
    BY MessageIsPair, LastIsNat
  <2>2. \A r \in Requests : r # q => web'[r] = web[r] /\ about'[r] = about[r]
    BY <1>1 DEF CountInv, IInv, TypeOK
  <2>3. ~(part[q] > m[2]) /\ <<q, m[2]>> \notin late
    BY <1>1, <2>1 DEF CountInv, IInv
  <2> QED
    BY <1>1, <2>2, <2>3 DEF WentOn, Sent, UnderWay
<1> QED
  BY <1>1, <1>2, <1>3 DEF CountInv

\* A command that arrives late is held once more, and no longer under way.
LEMMA LateArrivalCountInv ==
  ASSUME IsFiniteSet(Requests), CountInv, IInv', LateArrival
  PROVE  CountInv'
<1>1. PICK c \in late :
        /\ held' = [held EXCEPT ![<<about[c[1]], c[2]>>] = @ + 1]
        /\ late' = late \ {c}
        /\ UNCHANGED <<web, about, part>>
  BY DEF LateArrival
<1>2. PICK q \in Requests, i \in Nat : c = <<q, i>>
  BY <1>1 DEF CountInv, IInv, TypeOK
<1>3. PICK arrived : arrived = <<about[q], i>>
  OBVIOUS
<1>4. /\ held' = [held EXCEPT ![arrived] = @ + 1]
      /\ late' = late \ {<<q, i>>} /\ <<q, i>> \in late
  BY <1>1, <1>2, <1>3
<1>5. ASSUME NEW m \in Messages
      PROVE  /\ Cardinality(WentOn(m)') <= held'[m]
             /\ held'[m] + Cardinality(UnderWay(m)') <= Cardinality(Sent(m)')
  <2>1. /\ Cardinality(WentOn(m)) <= held[m] /\ held[m] \in Nat
        /\ held[m] + Cardinality(UnderWay(m)) <= Cardinality(Sent(m))
        /\ m = <<m[1], m[2]>>
    BY MessageIsPair DEF CountInv, IInv, TypeOK
  <2>2. WentOn(m)' = WentOn(m) /\ Sent(m)' = Sent(m) /\ UnderWay(m)' \subseteq UnderWay(m)
    BY <1>1, <1>4 DEF WentOn, Sent, UnderWay
  <2>3. /\ IsFiniteSet(UnderWay(m)) /\ Cardinality(UnderWay(m)) \in Nat
        /\ Cardinality(UnderWay(m)') \in Nat
        /\ Cardinality(WentOn(m)) \in Nat /\ Cardinality(Sent(m)) \in Nat
    <3>1. /\ UnderWay(m) \subseteq Requests /\ UnderWay(m)' \subseteq Requests
          /\ WentOn(m) \subseteq Requests /\ Sent(m) \subseteq Requests
      BY DEF UnderWay, WentOn, Sent
    <3> QED
      BY <3>1, CountIsNat
  <2>4. CASE m = arrived
    <3>1. held'[m] = held[m] + 1
      BY <1>4, <2>4 DEF CountInv, IInv, TypeOK
    <3>2. q \in UnderWay(m) /\ q \notin UnderWay(m)'
      BY <1>3, <1>4, <2>1, <2>4 DEF UnderWay
    <3>3. Cardinality(UnderWay(m)') + 1 <= Cardinality(UnderWay(m))
      BY <2>2, <2>3, <3>2, AtLeastOneMore
    <3> QED
      BY <2>1, <2>2, <2>3, <3>1, <3>3
  <2>5. CASE m # arrived
    <3>1. held'[m] = held[m]
      BY <1>4, <2>5 DEF CountInv, IInv, TypeOK
    <3>2. Cardinality(UnderWay(m)') <= Cardinality(UnderWay(m))
      BY <2>2, <2>3, FS_Subset
    <3> QED
      BY <2>1, <2>2, <2>3, <3>1, <3>2
  <2> QED
    BY <2>4, <2>5
<1> QED
  BY <1>1, <1>5 DEF CountInv

LEMMA InitCountInv == Init => CountInv
<1> SUFFICES ASSUME Init PROVE CountInv
  OBVIOUS
<1>1. \A m \in Messages : m[2] \in Nat
  BY MessageIsPair, LastIsNat
<1>2. \A m \in Messages : held[m] = 0 /\ WentOn(m) = {} /\ Sent(m) = {} /\ UnderWay(m) = {}
  BY <1>1 DEF Init, WentOn, Sent, UnderWay
<1>3. Cardinality({}) = 0
  BY FS_EmptySet
<1> QED
  BY <1>2, <1>3, InitIInv DEF Init, CountInv

\* KRA holds each message at least as often as a client was told so, and at most
\* as often as it was sent.
THEOREM HoldsWhatClientsWereTold ==
  ASSUME IsFiniteSet(Requests), KraStatuses \subseteq {"P", "E"}
  PROVE  Spec => []HeldBetween
<1>1. CountInv /\ [Next]_vars => CountInv'
  <2> SUFFICES ASSUME CountInv, [Next]_vars
               PROVE  CountInv'
    OBVIOUS
  <2>1. IInv'
    BY NextIInv DEF CountInv
  <2>2. CASE UNCHANGED vars
    BY <2>1, <2>2 DEF vars, kraVars, CountInv, WentOn, Sent, UnderWay
  <2> QED
    BY <2>1, <2>2, EveryKindSends, SendsCountInv, ReceiveCountInv, LateArrivalCountInv
       DEF Next, CountInv
<1>2. CountInv => HeldBetween
  <2> SUFFICES ASSUME CountInv, NEW m \in Messages
               PROVE  /\ Cardinality({q \in Requests : about[q] = m[1] /\ web[q] = "answered"}) <= held[m]
                      /\ held[m] <= Cardinality({q \in Requests : about[q] = m[1] /\ part[q] > m[2]})
    BY DEF HeldBetween
  <2> DEFINE told == {q \in Requests : about[q] = m[1] /\ web[q] = "answered"}
  <2>1. m[2] \in 0..Last(m[1]) /\ Last(m[1]) \in Nat /\ held[m] \in Nat
    BY MessageIsPair, LastIsNat DEF CountInv, IInv, TypeOK
  <2>2. told \subseteq WentOn(m)
    BY <2>1 DEF WentOn, CountInv, IInv, TypeOK
  <2>3. WentOn(m) \subseteq Requests /\ UnderWay(m) \subseteq Requests /\ Sent(m) \subseteq Requests
    BY DEF WentOn, UnderWay, Sent
  <2>4. /\ IsFiniteSet(WentOn(m)) /\ Cardinality(WentOn(m)) \in Nat
        /\ Cardinality(UnderWay(m)) \in Nat /\ Cardinality(Sent(m)) \in Nat
        /\ Cardinality(told) \in Nat
    BY <2>3, CountIsNat
  <2>5. Cardinality(told) <= Cardinality(WentOn(m))
    BY <2>2, <2>4, FS_Subset
  <2> QED
    BY <2>1, <2>4, <2>5 DEF CountInv, Sent
<1> QED
  BY <1>1, <1>2, InitCountInv, PTL DEF Spec
=============================================================================
