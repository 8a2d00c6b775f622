--------------------------- MODULE DeliveryProofs ---------------------------
(* What the abstract specification Delivery guarantees. *)
EXTENDS Delivery, TLAPS

LEMMA InitSafe == Init => TypeOK /\ AckedIsStored
BY DEF Init, TypeOK, AckedIsStored, Covered

LEMMA NextSafe ==
  ASSUME Offsets \subseteq Nat, TypeOK, AckedIsStored, [Next]_vars
  PROVE  TypeOK' /\ AckedIsStored'
<1>1. [Next]_vars
  OBVIOUS
<1>2. CASE Accept
  <2>1. PICK m \in (Partitions \X Offsets) \ accepted :
          acked[m[1]] <= m[2] /\ accepted' = accepted \union {m}
    BY <1>2 DEF Accept
  <2>2. m[2] \in Nat /\ acked[m[1]] \in Nat
    BY <2>1 DEF TypeOK
  <2>3. ~(m[2] < acked[m[1]])
    BY <2>1, <2>2
  <2>4. UNCHANGED <<acked, stored>>
    BY <1>2 DEF Accept
  <2>5. QED
    BY <2>1, <2>3, <2>4 DEF TypeOK, AckedIsStored, Covered
<1>3. CASE Store
  BY <1>3 DEF Store, TypeOK, AckedIsStored, Covered
<1>4. CASE Ack
  BY <1>4 DEF Ack, TypeOK, AckedIsStored, Covered
<1>5. CASE UNCHANGED vars
  BY <1>5 DEF vars, TypeOK, AckedIsStored, Covered
<1>6. QED
  BY <1>1, <1>2, <1>3, <1>4, <1>5 DEF Next

\* Every behaviour that Delivery allows keeps the acknowledged messages in the
\* store; so does every implementation of it (kafka/consumer.py:24-27).
THEOREM AcknowledgedIsStored ==
  ASSUME Offsets \subseteq Nat
  PROVE  Spec => []AckedIsStored
<1>1. TypeOK /\ AckedIsStored /\ [Next]_vars => TypeOK' /\ AckedIsStored'
  BY NextSafe
<1>2. QED
  BY InitSafe, <1>1, PTL DEF Spec

=============================================================================
