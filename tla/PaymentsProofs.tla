--------------------------- MODULE PaymentsProofs ---------------------------
(***************************************************************************)
(* Proofs about Payments, for any number of orders, payments, transfers    *)
(* and requests.                                                           *)
(***************************************************************************)
EXTENDS Payments, TLAPS

\* A stored payment is PENDING or COMPLETED, its code was drawn, and its order
\* exists (the foreign key).
DbOK ==
  \A p \in Payment :
    /\ payStatus[p] \in {Absent, "PENDING", "COMPLETED"}
    /\ PaymentExists(p) => p \in issued /\ OrderExists(OrderOf[p])

\* The calls after a request has logged its row.
Logged == {"audit", "saveRow", "writeRow"}

\* Which requests can be at which call.
RequestOK ==
  \A r \in Request :
    /\ pc[r] = "new" <=> target[r] = None
    /\ pc[r] # "new" => target[r] \in issued
    /\ pc[r] \in {"query", "reread"} => kind[r] = "verify"
    /\ pc[r] \in Settling \cup Logged \cup {"savePay", "writePay"} =>
         kind[r] \in {"verify", "manual"}
    /\ row[r] # None => pc[r] \in {"audit", "saveRow", "final", "done"}

\* Before a payment is inserted nobody can be settling it: findById has not
\* found it yet. So the late insert of a PENDING payment never overwrites a
\* settlement.
FreshOK ==
  \A r, q \in Request : pc[r] = "insert" =>
    /\ payStatus[target[r]] = Absent
    /\ q # r /\ target[q] = target[r] => pc[q] = "done"

\* Past its save, or about to save without touching the status, a request's
\* payment is COMPLETED unless it was deleted.
PaidOK ==
  \A r \in Request :
    \/ pc[r] \in Settling \cup Logged
    \/ pc[r] = "writePay" /\ "row" \notin dirty[r] /\ "status" \notin dirty[r]
    => payStatus[target[r]] # "PENDING"

\* The SePay id in a loaded entity is a transfer for that payment, and verify
\* saves only entities that have one.
EntityOK ==
  \A r \in Request :
    /\ entity[r] # None => target[r] # None /\ bank[entity[r]] = target[r]
    /\ pc[r] \in Settling \cup Logged \cup {"savePay", "writePay"} /\ kind[r] = "verify" =>
         entity[r] # None

\* The inductive invariant, apart from the types.
Safe ==
  /\ DbOK /\ RequestOK /\ FreshOK /\ PaidOK /\ EntityOK
  /\ LoggedIsSettled /\ EvidenceIsGenuine /\ UnloggedIsExplained

IInv == TypeOK /\ Safe

-----------------------------------------------------------------------------

LEMMA PatchIsNotAbsent == \A s \in PatchInput : s # Absent
BY PatchInputAssumption DEF OrderStatus, Absent

LEMMA InitIInv == Init => IInv
BY OrderOfAssumption, NoneAssumption
DEF Init, IInv, Safe, TypeOK, DbOK, RequestOK, FreshOK, PaidOK, EntityOK,
    LoggedIsSettled, EvidenceIsGenuine, UnloggedIsExplained, Settling, Logged, Labels,
    OrderStatus, PaymentStatus, OrderExists, PaymentExists, Absent

LEMMA TypeStep == TypeOK /\ RequestOK /\ [Next]_vars => TypeOK'
<1> SUFFICES ASSUME TypeOK, RequestOK, [Next]_vars PROVE TypeOK'
  OBVIOUS
<1> USE OrderOfAssumption, PatchInputAssumption
    DEF Await, Answer, Arrive, db, call, OrderExists,
         PaymentExists, StoredStatus, Absent, OrderStatus, PaymentStatus, Labels,
         TransactionRow, Settling, Logged, RowOf, RowFits, TypeOK, RequestOK
<1>1. ASSUME NEW r \in Request, NEW p \in Payment, CreateLoad(r, p) PROVE TypeOK'
  BY <1>1 DEF CreateLoad
<1>2. ASSUME NEW r \in Request, NEW p \in Payment, VerifyLoad(r, p) PROVE TypeOK'
  BY <1>2 DEF VerifyLoad
<1>3. ASSUME NEW r \in Request, NEW p \in Payment, ManualLoad(r, p) PROVE TypeOK'
  BY <1>3 DEF ManualLoad
<1>4. ASSUME NEW r \in Request, CreateInsert(r) PROVE TypeOK'
  BY <1>4 DEF CreateInsert
<1>5. ASSUME NEW r \in Request, SepayMatches(r) PROVE TypeOK'
  BY <1>5 DEF SepayMatches
<1>6. ASSUME NEW r \in Request, SepayHasNoMatch(r) PROVE TypeOK'
  BY <1>6 DEF SepayHasNoMatch
<1>7. ASSUME NEW r \in Request, SepayFails(r) PROVE TypeOK'
  BY <1>7 DEF SepayFails
<1>8. ASSUME NEW r \in Request, Reread(r) PROVE TypeOK'
  BY <1>8 DEF Reread
<1>9. ASSUME NEW r \in Request, ReloadPayment(r) PROVE TypeOK'
  BY <1>9 DEF ReloadPayment
<1>10. ASSUME NEW r \in Request, UpdatePayment(r) PROVE TypeOK'
  BY <1>10 DEF UpdatePayment
<1>11. ASSUME NEW r \in Request, ReinsertPayment(r) PROVE TypeOK'
  BY <1>11 DEF ReinsertPayment
<1>12. ASSUME NEW r \in Request, LoadOrder(r) PROVE TypeOK'
  BY <1>12 DEF LoadOrder
<1>13. ASSUME NEW r \in Request, ReloadOrder(r) PROVE TypeOK'
  BY <1>13 DEF ReloadOrder
<1>14. ASSUME NEW r \in Request, WriteOrder(r) PROVE TypeOK'
  BY <1>14 DEF WriteOrder
<1>15. ASSUME NEW r \in Request, LogRow(r) PROVE TypeOK'
  BY <1>15 DEF LogRow
<1>16. ASSUME NEW r \in Request, LogFails(r) PROVE TypeOK'
  BY <1>16 DEF LogFails
<1>17. ASSUME NEW r \in Request, Final(r) PROVE TypeOK'
  BY <1>17 DEF Final
<1>18. ASSUME NEW r \in Request, Audit(r) PROVE TypeOK'
  BY <1>18 DEF Audit
<1>19. ASSUME NEW r \in Request, Stop(r) PROVE TypeOK'
  BY <1>19 DEF Stop
<1>25. ASSUME NEW r \in Request, ReloadRow(r) PROVE TypeOK'
  BY <1>25 DEF ReloadRow
<1>26. ASSUME NEW r \in Request, ReinsertRow(r) PROVE TypeOK'
  BY <1>26 DEF ReinsertRow
<1>20. ASSUME NEW t \in Transfer, NEW p \in Payment, Pay(t, p) PROVE TypeOK'
  BY <1>20 DEF Pay
<1>21. ASSUME NEW o \in Order, NEW s \in PatchInput, PatchOrder(o, s) PROVE TypeOK'
  BY <1>21 DEF PatchOrder
<1>22. ASSUME NEW o \in Order, NEW s \in PatchInput, RestoreOrder(o, s) PROVE TypeOK'
  BY <1>22 DEF RestoreOrder
<1>23. ASSUME NEW o \in Order, DeleteOrder(o) PROVE TypeOK'
  BY <1>23 DEF DeleteOrder
<1>24. CASE UNCHANGED vars
  BY <1>24 DEF vars
<1> QED
  BY <1>1, <1>2, <1>3, <1>4, <1>5, <1>6, <1>7, <1>8, <1>9, <1>10, <1>11, <1>12,
     <1>13, <1>14, <1>15, <1>16, <1>17, <1>18, <1>19, <1>20, <1>21, <1>22, <1>23, <1>24,
     <1>25, <1>26
  DEF Next, Handler, Begin, Proceed, Paying, Staff

LEMMA SafeStep == IInv /\ TypeOK' /\ [Next]_vars => Safe'
<1> SUFFICES ASSUME IInv, TypeOK', [Next]_vars PROVE Safe'
  OBVIOUS
<1> USE OrderOfAssumption, NoneAssumption
    DEF Await, Answer, Arrive, db, call, OrderExists,
         PaymentExists, StoredStatus, Absent, OrderStatus, PaymentStatus, Labels,
         TransactionRow, Settling, Logged, RowOf, RowFits, TypeOK, IInv, Safe, DbOK, RequestOK, FreshOK, PaidOK,
         EntityOK, LoggedIsSettled, EvidenceIsGenuine, WasPaid,
         UnloggedIsExplained
<1>1. ASSUME NEW r \in Request, NEW p \in Payment, CreateLoad(r, p) PROVE Safe'
  <2>1. DbOK'
    BY <1>1 DEF CreateLoad
  <2>2. RequestOK'
    BY <1>1 DEF CreateLoad
  <2>3. FreshOK'
    BY <1>1 DEF CreateLoad
  <2>4. PaidOK'
    BY <1>1 DEF CreateLoad
  <2>5. EntityOK'
    BY <1>1 DEF CreateLoad
  <2>6. LoggedIsSettled'
    BY <1>1 DEF CreateLoad
  <2>7. EvidenceIsGenuine'
    BY <1>1 DEF CreateLoad
  <2>8. UnloggedIsExplained'
    BY <1>1 DEF CreateLoad
  <2> QED
    BY <2>1, <2>2, <2>3, <2>4, <2>5, <2>6, <2>7, <2>8
<1>2. ASSUME NEW r \in Request, NEW p \in Payment, VerifyLoad(r, p) PROVE Safe'
  <2>1. DbOK'
    BY <1>2 DEF VerifyLoad
  <2>2. RequestOK'
    BY <1>2 DEF VerifyLoad
  <2>3. FreshOK'
    BY <1>2 DEF VerifyLoad
  <2>4. PaidOK'
    BY <1>2 DEF VerifyLoad
  <2>5. EntityOK'
    BY <1>2 DEF VerifyLoad
  <2>6. LoggedIsSettled'
    BY <1>2 DEF VerifyLoad
  <2>7. EvidenceIsGenuine'
    BY <1>2 DEF VerifyLoad
  <2>8. UnloggedIsExplained'
    BY <1>2 DEF VerifyLoad
  <2> QED
    BY <2>1, <2>2, <2>3, <2>4, <2>5, <2>6, <2>7, <2>8
<1>3. ASSUME NEW r \in Request, NEW p \in Payment, ManualLoad(r, p) PROVE Safe'
  <2>1. DbOK'
    BY <1>3 DEF ManualLoad
  <2>2. RequestOK'
    BY <1>3 DEF ManualLoad
  <2>3. FreshOK'
    BY <1>3 DEF ManualLoad
  <2>4. PaidOK'
    BY <1>3 DEF ManualLoad
  <2>5. EntityOK'
    BY <1>3 DEF ManualLoad
  <2>6. LoggedIsSettled'
    BY <1>3 DEF ManualLoad
  <2>7. EvidenceIsGenuine'
    <3>1. \A x \in Payment : WasPaid(x) => WasPaid(x)'
      BY <1>3 DEF ManualLoad
    <3>2. \A x \in Payment : payStatus'[x] = "COMPLETED" => payStatus[x] = "COMPLETED"
      BY <1>3 DEF ManualLoad
    <3>3. \A x \in Payment : paySepay'[x] # None =>
           bank'[paySepay'[x]] = x /\ payStatus'[x] = "COMPLETED"
      BY <1>3 DEF ManualLoad
    <3>4. \A q \in Request : row'[q] # None =>
           IF row'[q].type = "AUTO"
             THEN row'[q].sepay # None /\ bank'[row'[q].sepay] = row'[q].payment
             ELSE row'[q].sepay = None
      BY <1>3 DEF ManualLoad
    <3>5. \A x \in Payment : payStatus'[x] = "COMPLETED" => WasPaid(x)'
      BY <3>1, <3>2
    <3> QED
      BY <3>3, <3>4, <3>5
  <2>8. UnloggedIsExplained'
    BY <1>3 DEF ManualLoad
  <2> QED
    BY <2>1, <2>2, <2>3, <2>4, <2>5, <2>6, <2>7, <2>8
<1>4. ASSUME NEW r \in Request, CreateInsert(r) PROVE Safe'
  <2>1. DbOK'
    BY <1>4 DEF CreateInsert
  <2>2. RequestOK'
    BY <1>4 DEF CreateInsert
  <2>3. FreshOK'
    BY <1>4 DEF CreateInsert
  <2>4. PaidOK'
    BY <1>4 DEF CreateInsert
  <2>5. EntityOK'
    BY <1>4 DEF CreateInsert
  <2>6. LoggedIsSettled'
    BY <1>4 DEF CreateInsert
  <2>7. EvidenceIsGenuine'
    BY <1>4 DEF CreateInsert
  <2>8. UnloggedIsExplained'
    BY <1>4 DEF CreateInsert
  <2> QED
    BY <2>1, <2>2, <2>3, <2>4, <2>5, <2>6, <2>7, <2>8
<1>5. ASSUME NEW r \in Request, SepayMatches(r) PROVE Safe'
  BY <1>5 DEF SepayMatches
<1>6. ASSUME NEW r \in Request, SepayHasNoMatch(r) PROVE Safe'
  BY <1>6 DEF SepayHasNoMatch
<1>7. ASSUME NEW r \in Request, SepayFails(r) PROVE Safe'
  BY <1>7 DEF SepayFails
<1>8. ASSUME NEW r \in Request, Reread(r) PROVE Safe'
  BY <1>8 DEF Reread
<1>9. ASSUME NEW r \in Request, ReloadPayment(r) PROVE Safe'
  <2>1. DbOK'
    BY <1>9 DEF ReloadPayment
  <2>2. RequestOK'
    BY <1>9 DEF ReloadPayment
  <2>3. FreshOK'
    BY <1>9 DEF ReloadPayment
  <2>4. PaidOK'
    <3>1. ASSUME payStatus[target[r]] = "PENDING"
          PROVE  "status" \in dirty'[r] /\ pc'[r] = "writePay"
      <4>1. "status" \in dirty'[r]
        BY <1>9, <3>1 DEF ReloadPayment
      <4>2. pc'[r] = IF dirty'[r] = {} THEN "loadOrder" ELSE "writePay"
        BY <1>9 DEF ReloadPayment
      <4> QED
        BY <4>1, <4>2
    <3>2. UNCHANGED <<payStatus, target>> /\ \A q \in Request \ {r} : pc'[q] = pc[q] /\ dirty'[q] = dirty[q]
      BY <1>9 DEF ReloadPayment
    <3> QED
      BY <3>1, <3>2
  <2>5. EntityOK'
    BY <1>9 DEF ReloadPayment
  <2>6. LoggedIsSettled'
    BY <1>9 DEF ReloadPayment
  <2>7. EvidenceIsGenuine'
    BY <1>9 DEF ReloadPayment
  <2>8. UnloggedIsExplained'
    BY <1>9 DEF ReloadPayment
  <2> QED
    BY <2>1, <2>2, <2>3, <2>4, <2>5, <2>6, <2>7, <2>8
<1>10. ASSUME NEW r \in Request, UpdatePayment(r) PROVE Safe'
  BY <1>10 DEF UpdatePayment
<1>11. ASSUME NEW r \in Request, ReinsertPayment(r) PROVE Safe'
  <2>1. DbOK'
    BY <1>11 DEF ReinsertPayment
  <2>2. RequestOK'
    BY <1>11 DEF ReinsertPayment
  <2>3. FreshOK'
    BY <1>11 DEF ReinsertPayment
  <2>4. PaidOK'
    BY <1>11 DEF ReinsertPayment
  <2>5. EntityOK'
    BY <1>11 DEF ReinsertPayment
  <2>6. LoggedIsSettled'
    BY <1>11 DEF ReinsertPayment
  <2>7. EvidenceIsGenuine'
    BY <1>11 DEF ReinsertPayment
  <2>8. UnloggedIsExplained'
    BY <1>11 DEF ReinsertPayment
  <2> QED
    BY <2>1, <2>2, <2>3, <2>4, <2>5, <2>6, <2>7, <2>8
<1>12. ASSUME NEW r \in Request, LoadOrder(r) PROVE Safe'
  BY <1>12 DEF LoadOrder
<1>13. ASSUME NEW r \in Request, ReloadOrder(r) PROVE Safe'
  <2>1. DbOK'
    BY <1>13 DEF ReloadOrder
  <2>2. RequestOK'
    BY <1>13 DEF ReloadOrder
  <2>3. FreshOK'
    BY <1>13 DEF ReloadOrder
  <2>4. PaidOK'
    BY <1>13 DEF ReloadOrder
  <2>5. EntityOK'
    BY <1>13 DEF ReloadOrder
  <2>6. LoggedIsSettled'
    BY <1>13 DEF ReloadOrder
  <2>7. EvidenceIsGenuine'
    BY <1>13 DEF ReloadOrder
  <2>8. UnloggedIsExplained'
    BY <1>13 DEF ReloadOrder
  <2> QED
    BY <2>1, <2>2, <2>3, <2>4, <2>5, <2>6, <2>7, <2>8
<1>14. ASSUME NEW r \in Request, WriteOrder(r) PROVE Safe'
  BY <1>14 DEF WriteOrder
<1>15. ASSUME NEW r \in Request, LogRow(r) PROVE Safe'
  BY <1>15 DEF LogRow
<1>16. ASSUME NEW r \in Request, LogFails(r) PROVE Safe'
  BY <1>16 DEF LogFails
<1>17. ASSUME NEW r \in Request, Final(r) PROVE Safe'
  BY <1>17 DEF Final
<1>18. ASSUME NEW r \in Request, Audit(r) PROVE Safe'
  BY <1>18 DEF Audit
<1>19. ASSUME NEW r \in Request, Stop(r) PROVE Safe'
  BY <1>19 DEF Stop
<1>25. ASSUME NEW r \in Request, ReloadRow(r) PROVE Safe'
  BY <1>25 DEF ReloadRow
<1>26. ASSUME NEW r \in Request, ReinsertRow(r) PROVE Safe'
  <2>1. DbOK'
    BY <1>26 DEF ReinsertRow
  <2>2. RequestOK'
    BY <1>26 DEF ReinsertRow
  <2>3. FreshOK'
    BY <1>26 DEF ReinsertRow
  <2>4. PaidOK'
    BY <1>26 DEF ReinsertRow
  <2>5. EntityOK'
    BY <1>26 DEF ReinsertRow
  <2>6. LoggedIsSettled'
    BY <1>26 DEF ReinsertRow
  <2>7. EvidenceIsGenuine'
    <3>1. \A x \in Payment : WasPaid(x) => WasPaid(x)'
      BY <1>26 DEF ReinsertRow
    <3>2. \A x \in Payment : payStatus'[x] = "COMPLETED" => payStatus[x] = "COMPLETED"
      BY <1>26 DEF ReinsertRow
    <3>3. \A x \in Payment : paySepay'[x] # None =>
           bank'[paySepay'[x]] = x /\ payStatus'[x] = "COMPLETED"
      BY <1>26 DEF ReinsertRow
    <3>4. \A q \in Request : row'[q] # None =>
           IF row'[q].type = "AUTO"
             THEN row'[q].sepay # None /\ bank'[row'[q].sepay] = row'[q].payment
             ELSE row'[q].sepay = None
      BY <1>26 DEF ReinsertRow
    <3>5. \A x \in Payment : payStatus'[x] = "COMPLETED" => WasPaid(x)'
      BY <3>1, <3>2
    <3> QED
      BY <3>3, <3>4, <3>5
  <2>8. UnloggedIsExplained'
    BY <1>26 DEF ReinsertRow
  <2> QED
    BY <2>1, <2>2, <2>3, <2>4, <2>5, <2>6, <2>7, <2>8
<1>20. ASSUME NEW t \in Transfer, NEW p \in Payment, Pay(t, p) PROVE Safe'
  BY <1>20 DEF Pay
<1>21. ASSUME NEW o \in Order, NEW s \in PatchInput, PatchOrder(o, s) PROVE Safe'
  <2>1. DbOK'
    <3>1. s # Absent
      BY PatchIsNotAbsent
    <3>2. \A x \in Order : orderStatus[x] # Absent => orderStatus'[x] # Absent
      BY <1>21, <3>1 DEF PatchOrder
    <3> QED
      BY <1>21, <3>2 DEF PatchOrder
  <2>2. RequestOK'
    BY <1>21 DEF PatchOrder
  <2>3. FreshOK'
    BY <1>21 DEF PatchOrder
  <2>4. PaidOK'
    BY <1>21 DEF PatchOrder
  <2>5. EntityOK'
    BY <1>21 DEF PatchOrder
  <2>6. LoggedIsSettled'
    BY <1>21 DEF PatchOrder
  <2>7. EvidenceIsGenuine'
    BY <1>21 DEF PatchOrder
  <2>8. UnloggedIsExplained'
    BY <1>21 DEF PatchOrder
  <2> QED
    BY <2>1, <2>2, <2>3, <2>4, <2>5, <2>6, <2>7, <2>8
<1>22. ASSUME NEW o \in Order, NEW s \in PatchInput, RestoreOrder(o, s) PROVE Safe'
  BY <1>22 DEF RestoreOrder
<1>23. ASSUME NEW o \in Order, DeleteOrder(o) PROVE Safe'
  <2>1. DbOK'
    BY <1>23 DEF DeleteOrder
  <2>2. RequestOK'
    BY <1>23 DEF DeleteOrder
  <2>3. FreshOK'
    BY <1>23 DEF DeleteOrder
  <2>4. PaidOK'
    BY <1>23 DEF DeleteOrder
  <2>5. EntityOK'
    BY <1>23 DEF DeleteOrder
  <2>6. LoggedIsSettled'
    BY <1>23 DEF DeleteOrder
  <2>7. EvidenceIsGenuine'
    <3>1. \A x \in Payment : WasPaid(x) => WasPaid(x)'
      BY <1>23 DEF DeleteOrder
    <3>2. \A x \in Payment : payStatus'[x] = "COMPLETED" => payStatus[x] = "COMPLETED"
      BY <1>23 DEF DeleteOrder
    <3>3. \A x \in Payment : paySepay'[x] # None =>
           bank'[paySepay'[x]] = x /\ payStatus'[x] = "COMPLETED"
      BY <1>23 DEF DeleteOrder
    <3>4. \A q \in Request : row'[q] # None =>
           IF row'[q].type = "AUTO"
             THEN row'[q].sepay # None /\ bank'[row'[q].sepay] = row'[q].payment
             ELSE row'[q].sepay = None
      BY <1>23 DEF DeleteOrder
    <3>5. \A x \in Payment : payStatus'[x] = "COMPLETED" => WasPaid(x)'
      BY <3>1, <3>2
    <3> QED
      BY <3>3, <3>4, <3>5
  <2>8. UnloggedIsExplained'
    BY <1>23 DEF DeleteOrder
  <2> QED
    BY <2>1, <2>2, <2>3, <2>4, <2>5, <2>6, <2>7, <2>8
<1>24. CASE UNCHANGED vars
  BY <1>24 DEF vars
<1> HIDE DEF Await, Answer, Arrive, OrderExists, PaymentExists, StoredStatus, TypeOK,
             RowOf, RowFits, IInv, Safe, DbOK, RequestOK, FreshOK, PaidOK, EntityOK,
             LoggedIsSettled, EvidenceIsGenuine, WasPaid, UnloggedIsExplained
<1> QED
  BY <1>1, <1>2, <1>3, <1>4, <1>5, <1>6, <1>7, <1>8, <1>9, <1>10, <1>11, <1>12,
     <1>13, <1>14, <1>15, <1>16, <1>17, <1>18, <1>19, <1>20, <1>21, <1>22, <1>23, <1>24,
     <1>25, <1>26
  DEF Next, Handler, Begin, Proceed, Paying, Staff

LEMMA IInvStep == IInv /\ [Next]_vars => IInv'
BY TypeStep, SafeStep DEF IInv, Safe

LEMMA Invariance == Spec => []IInv
<1>1. Init => IInv
  BY InitIInv
<1>2. IInv /\ [Next]_vars => IInv'
  BY IInvStep
<1> QED
  BY <1>1, <1>2, PTL DEF Spec

-----------------------------------------------------------------------------

\* Every variable keeps its type.
THEOREM TypesHold == Spec => []TypeOK
<1>1. IInv => TypeOK
  BY DEF IInv
<1> QED
  BY <1>1, Invariance, PTL

\* No transaction is ever logged for a payment that is not stored as COMPLETED.
THEOREM LoggedPaymentsAreSettled == Spec => []LoggedIsSettled
<1>1. IInv => LoggedIsSettled
  BY DEF IInv, Safe
<1> QED
  BY <1>1, Invariance, PTL

\* Every stored SePay id is a transfer that carries the payment's code, and no
\* payment is COMPLETED without a transfer or a manual confirmation.
THEOREM EvidenceHolds == Spec => []EvidenceIsGenuine
<1>1. IInv => EvidenceIsGenuine
  BY DEF IInv, Safe
<1> QED
  BY <1>1, Invariance, PTL

\* A COMPLETED payment without a transactions row has a request that is about
\* to log it, or that was stopped before it could.
THEOREM UnloggedPaymentsAreExplained == Spec => []UnloggedIsExplained
<1>1. IInv => UnloggedIsExplained
  BY DEF IInv, Safe
<1> QED
  BY <1>1, Invariance, PTL

-----------------------------------------------------------------------------

\* Only these steps write the status of a payment.
LEMMA PayStatusWriters ==
  ASSUME [Next]_vars
  PROVE  \/ UNCHANGED payStatus
         \/ \E r \in Request : CreateInsert(r) \/ UpdatePayment(r) \/ ReinsertPayment(r)
         \/ \E o \in Order : DeleteOrder(o)
BY DEF Next, vars, db, call, Handler, Begin, Proceed, Paying, Staff, CreateLoad,
       VerifyLoad, ManualLoad, SepayMatches, SepayHasNoMatch, SepayFails, Reread,
       ReloadPayment, LoadOrder, ReloadOrder, WriteOrder, LogRow, LogFails, Audit,
       ReloadRow, ReinsertRow, Final, Stop, Pay, PatchOrder, RestoreOrder

\* A COMPLETED payment stays COMPLETED until its order is deleted.
THEOREM CompletedStaysCompleted == Spec => CompletedIsFinal
<1> DEFINE Final1(p) == \/ payStatus'[p] = "COMPLETED"
                        \/ payStatus'[p] = Absent /\ orderStatus'[OrderOf[p]] = Absent
<1>1. ASSUME IInv, [Next]_vars, NEW p \in Payment, payStatus[p] = "COMPLETED"
      PROVE  Final1(p)
  <2> USE <1>1, OrderOfAssumption
      DEF IInv, Safe, TypeOK, RequestOK, FreshOK, Absent, PaymentExists, OrderExists
  <2>1. CASE UNCHANGED payStatus
    BY <2>1
  <2>2. ASSUME NEW r \in Request, CreateInsert(r) PROVE Final1(p)
    BY <2>2 DEF CreateInsert
  <2>3. ASSUME NEW r \in Request, UpdatePayment(r) PROVE Final1(p)
    BY <2>3 DEF UpdatePayment
  <2>4. ASSUME NEW r \in Request, ReinsertPayment(r) PROVE Final1(p)
    BY <2>4 DEF ReinsertPayment
  <2>5. ASSUME NEW o \in Order, DeleteOrder(o) PROVE Final1(p)
    BY <2>5 DEF DeleteOrder
  <2> QED
    BY <2>1, <2>2, <2>3, <2>4, <2>5, PayStatusWriters
<1>2. IInv /\ [Next]_vars =>
        [\A p \in Payment : payStatus[p] = "COMPLETED" => Final1(p)]_vars
  BY <1>1
<1> QED
  BY <1>2, Invariance, PTL DEF Spec, CompletedIsFinal

\* A payment that was settled once: stored as COMPLETED or gone, and no create
\* request is left that could insert it as PENDING.
WasSettled(p) ==
  /\ p \in issued
  /\ payStatus[p] \in {"COMPLETED", Absent}
  /\ \A r \in Request : pc[r] = "insert" => target[r] # p

LEMMA SettledIsWasSettled ==
  ASSUME IInv, NEW p \in Payment, payStatus[p] = "COMPLETED"
  PROVE  WasSettled(p)
BY DEF IInv, Safe, TypeOK, DbOK, RequestOK, FreshOK, WasSettled, PaymentExists, Absent

LEMMA WasSettledStep ==
  ASSUME IInv, [Next]_vars, NEW p \in Payment, WasSettled(p)
  PROVE  WasSettled(p)'
<1> USE OrderOfAssumption
    DEF IInv, Safe, TypeOK, RequestOK, WasSettled, Absent, PaymentExists, OrderExists
<1>1. payStatus'[p] \in {"COMPLETED", Absent}
  <2>1. CASE UNCHANGED payStatus
    BY <2>1
  <2>2. ASSUME NEW r \in Request, CreateInsert(r) PROVE payStatus'[p] \in {"COMPLETED", Absent}
    BY <2>2 DEF CreateInsert
  <2>3. ASSUME NEW r \in Request, UpdatePayment(r) PROVE payStatus'[p] \in {"COMPLETED", Absent}
    BY <2>3 DEF UpdatePayment
  <2>4. ASSUME NEW r \in Request, ReinsertPayment(r) PROVE payStatus'[p] \in {"COMPLETED", Absent}
    BY <2>4 DEF ReinsertPayment
  <2>5. ASSUME NEW o \in Order, DeleteOrder(o) PROVE payStatus'[p] \in {"COMPLETED", Absent}
    BY <2>5 DEF DeleteOrder
  <2> QED
    BY <2>1, <2>2, <2>3, <2>4, <2>5, PayStatusWriters
<1>2. ASSUME NEW r \in Request, NEW q \in Payment, CreateLoad(r, q) PROVE WasSettled(p)'
  BY <1>1, <1>2 DEF CreateLoad, Arrive, Await, Answer
<1>3. ASSUME \A r \in Request, q \in Payment : ~CreateLoad(r, q) PROVE WasSettled(p)'
  <2>1. \A r \in Request : pc'[r] = "insert" => pc[r] = "insert" /\ target'[r] = target[r]
    BY <1>3 DEF Next, vars, db, call, Handler, Begin, Proceed, Paying, Staff, Arrive,
      Await, Answer, VerifyLoad, ManualLoad, CreateInsert, SepayMatches, SepayHasNoMatch,
      SepayFails, Reread, ReloadPayment, UpdatePayment, ReinsertPayment, LoadOrder,
      ReloadOrder, WriteOrder, LogRow, LogFails, Audit, ReloadRow, ReinsertRow, Final,
      Stop, Pay, PatchOrder, RestoreOrder, DeleteOrder
  <2>2. p \in issued'
    BY <1>3 DEF Next, vars, db, call, Handler, Begin, Proceed, Paying, Staff,
      VerifyLoad, ManualLoad, CreateInsert, SepayMatches, SepayHasNoMatch,
      SepayFails, Reread, ReloadPayment, UpdatePayment, ReinsertPayment, LoadOrder,
      ReloadOrder, WriteOrder, LogRow, LogFails, Audit, ReloadRow, ReinsertRow, Final,
      Stop, Pay, PatchOrder, RestoreOrder, DeleteOrder
  <2> QED
    BY <1>1, <2>1, <2>2
<1> QED
  BY <1>2, <1>3

\* A payment that was COMPLETED once is never PENDING again.
THEOREM SettledStaysSettled == Spec => NeverReopened
<1>1. ASSUME NEW p \in Payment
      PROVE  Spec => [](payStatus[p] = "COMPLETED" => [](payStatus[p] # "PENDING"))
  <2>1. IInv /\ payStatus[p] = "COMPLETED" => WasSettled(p)
    BY SettledIsWasSettled
  <2>2. IInv /\ [Next]_vars /\ WasSettled(p) => WasSettled(p)'
    BY WasSettledStep
  <2>3. WasSettled(p) => payStatus[p] # "PENDING"
    BY DEF WasSettled, Absent
  <2> QED
    BY <2>1, <2>2, <2>3, Invariance, PTL DEF Spec
<1> QED
  BY <1>1 DEF NeverReopened

-----------------------------------------------------------------------------

\* Only these steps change what Ledger sees.
LEMMA LedgerWriters ==
  ASSUME [Next]_vars
  PROVE  \/ UNCHANGED <<issued, payStatus, bank, row>>
         \/ \E r \in Request : \E p \in Payment : CreateLoad(r, p)
         \/ \E r \in Request : CreateInsert(r) \/ UpdatePayment(r) \/ ReinsertPayment(r)
         \/ \E r \in Request : LogRow(r) \/ ReinsertRow(r)
         \/ \E t \in Transfer, p \in Payment : Pay(t, p)
         \/ \E o \in Order : DeleteOrder(o)
BY DEF Next, vars, db, call, Handler, Begin, Proceed, Paying, Staff, VerifyLoad,
       ManualLoad, SepayMatches, SepayHasNoMatch, SepayFails, Reread,
       ReloadPayment, LoadOrder, ReloadOrder, WriteOrder, LogFails, Audit, ReloadRow, Final,
       Stop, PatchOrder, RestoreOrder

LEMMA LedgerInit == Init => L!Init
BY NoneAssumption DEF Init, L!Init, LedgerState, PaymentExists, Absent

\* The mapping of a step that writes the status of one stored payment.
LEMMA LedgerMoves ==
  ASSUME TypeOK, DbOK, NEW p \in Payment, p \in issued, UNCHANGED issued,
         NEW v \in {"PENDING", "COMPLETED"}, payStatus' = [payStatus EXCEPT ![p] = v]
  PROVE  \A q \in Payment : LedgerState(q)' =
           IF q # p THEN LedgerState(q)
           ELSE IF v = "PENDING" THEN "open" ELSE "settled"
BY DEF TypeOK, LedgerState, PaymentExists, Absent

LEMMA LedgerOpens ==
  ASSUME TypeOK, DbOK, NEW p \in Payment, p \in issued, payStatus[p] = Absent,
         UNCHANGED <<issued, bank, row>>,
         UNCHANGED payStatus \/ payStatus' = [payStatus EXCEPT ![p] = "PENDING"]
  PROVE  L!Open(p) \/ UNCHANGED L!vars
<1>1. CASE UNCHANGED payStatus
  BY <1>1 DEF L!vars, LedgerState, PaymentExists
<1>2. CASE payStatus' = [payStatus EXCEPT ![p] = "PENDING"]
  <2>1. LedgerState(p) = "missing"
    BY DEF LedgerState, PaymentExists
  <2>2. \A q \in Payment : LedgerState(q)' = IF q # p THEN LedgerState(q) ELSE "open"
    BY <1>2, LedgerMoves
  <2> QED
    BY <2>1, <2>2 DEF L!Open
<1> QED
  BY <1>1, <1>2

LEMMA LedgerSettles ==
  ASSUME TypeOK, DbOK, NEW p \in Payment, p \in issued, UNCHANGED <<issued, bank, row>>,
         payStatus[p] = "COMPLETED" => UNCHANGED payStatus,
         UNCHANGED payStatus \/ payStatus' = [payStatus EXCEPT ![p] = "COMPLETED"]
  PROVE  L!Settle(p) \/ UNCHANGED L!vars
<1>1. CASE UNCHANGED payStatus
  BY <1>1 DEF L!vars, LedgerState, PaymentExists
<1>2. CASE payStatus' = [payStatus EXCEPT ![p] = "COMPLETED"] /\ payStatus[p] # "COMPLETED"
  <2>1. LedgerState(p) \in {"open", "missing"}
    BY <1>2 DEF LedgerState, PaymentExists, DbOK, Absent
  <2>2. \A q \in Payment : LedgerState(q)' = IF q # p THEN LedgerState(q) ELSE "settled"
    BY <1>2, LedgerMoves
  <2> QED
    BY <2>1, <2>2 DEF L!Settle
<1> QED
  BY <1>1, <1>2

LEMMA LedgerStep == IInv /\ [Next]_vars => [L!Next]_(L!vars)
<1> SUFFICES ASSUME IInv, [Next]_vars PROVE L!Next \/ UNCHANGED L!vars
  OBVIOUS
<1> USE OrderOfAssumption, NoneAssumption
    DEF IInv, Safe, TypeOK, DbOK, RequestOK, FreshOK, PaidOK, EntityOK, Settling,
        Logged, RowOf, RowFits, PaymentExists, OrderExists, Absent, LedgerState, db, call, Arrive
<1>1. ASSUME NEW r \in Request, NEW p \in Payment, CreateLoad(r, p) PROVE L!Issue(p)
  <2>1. issued' = issued \cup {p} /\ p \notin issued /\ UNCHANGED <<payStatus, bank, row>>
    BY <1>1 DEF CreateLoad
  <2>2. payStatus[p] = Absent
    BY <2>1
  <2>3. LedgerState(p) = "unissued"
    BY <2>1
  <2>4. \A q \in Payment : LedgerState(q)' = IF q = p THEN "missing" ELSE LedgerState(q)
    BY <2>1, <2>2
  <2> HIDE DEF LedgerState
  <2> QED
    BY ONLY <2>1, <2>3, <2>4 DEF L!Issue
<1>2. ASSUME NEW r \in Request, NEW p \in Payment, p = target[r], CreateInsert(r)
      PROVE  L!Open(p) \/ UNCHANGED L!vars
  <2>1. UNCHANGED <<issued, bank, row>> /\ p \in issued /\ payStatus[p] = Absent
    BY <1>2 DEF CreateInsert
  <2>2. UNCHANGED payStatus \/ payStatus' = [payStatus EXCEPT ![p] = "PENDING"]
    BY <1>2 DEF CreateInsert
  <2> QED
    BY <2>1, <2>2, LedgerOpens
<1>3. ASSUME NEW r \in Request, NEW p \in Payment, p = target[r], UpdatePayment(r)
      PROVE  L!Settle(p) \/ UNCHANGED L!vars
  <2>1. UNCHANGED <<issued, bank, row>> /\ p \in issued
    BY <1>3 DEF UpdatePayment
  <2>2. UNCHANGED payStatus \/ payStatus' = [payStatus EXCEPT ![p] = "COMPLETED"]
    BY <1>3 DEF UpdatePayment
  <2>3. payStatus[p] = "COMPLETED" => UNCHANGED payStatus
    BY <2>2
  <2> QED
    BY <2>1, <2>2, <2>3, LedgerSettles
<1>4. ASSUME NEW r \in Request, NEW p \in Payment, p = target[r], ReinsertPayment(r)
      PROVE  L!Settle(p) \/ UNCHANGED L!vars
  <2>1. UNCHANGED <<issued, bank, row>> /\ p \in issued
    BY <1>4 DEF ReinsertPayment
  <2>2. UNCHANGED payStatus \/ payStatus' = [payStatus EXCEPT ![p] = "COMPLETED"]
    BY <1>4 DEF ReinsertPayment
  <2>3. payStatus[p] = "COMPLETED" => UNCHANGED payStatus
    BY <2>2
  <2> QED
    BY <2>1, <2>2, <2>3, LedgerSettles
<1>5. ASSUME NEW t \in Transfer, NEW p \in Payment, Pay(t, p) PROVE L!Receive(t, p)
  BY <1>5 DEF Pay, L!Receive
<1>6. ASSUME NEW r \in Request, NEW x, x = RowOf(r), row' = [row EXCEPT ![r] = x],
             RowFits(r), row[r] = None, pc[r] \in {"log", "writeRow"},
             UNCHANGED <<issued, payStatus, bank>>
      PROVE  L!Record(r, x)
  BY <1>6 DEF L!Record
<1>7. ASSUME NEW o \in Order, DeleteOrder(o) PROVE L!Erase(o)
  BY <1>7 DEF DeleteOrder, L!Erase
<1>8. CASE UNCHANGED <<issued, payStatus, bank, row>>
  BY <1>8 DEF L!vars
<1>9. ASSUME NEW r \in Request, LogRow(r) \/ ReinsertRow(r)
      PROVE  L!Next \/ UNCHANGED L!vars
  <2>1. CASE row' = row
    BY <1>9, <1>8, <2>1 DEF LogRow, ReinsertRow
  <2>2. CASE row' # row
    <3>1. pc[r] \in {"log", "writeRow"} /\ row[r] = None
      BY <1>9 DEF LogRow, ReinsertRow
    <3>2. target[r] \in Payment /\ entity[r] \in Transfer \cup {None}
      BY <3>1
    <3>3. RowOf(r) \in L!Log
      BY ONLY <3>2 DEF L!Log, RowOf
    <3>4. PICK x \in L!Log : x = RowOf(r)
      BY ONLY <3>3
    <3>5. /\ RowFits(r) /\ row' = [row EXCEPT ![r] = x]
          /\ UNCHANGED <<issued, payStatus, bank>>
      BY <1>9, <2>2, <3>4 DEF LogRow, ReinsertRow
    <3> HIDE DEF RowOf, RowFits, LedgerState
    <3>6. L!Record(r, x)
      BY <1>6, <3>1, <3>4, <3>5
    <3> QED
      BY <3>6 DEF L!Next
  <2> QED
    BY <2>1, <2>2
<1>10. ASSUME NEW r \in Request, NEW p \in Payment, CreateLoad(r, p) PROVE L!Next
  BY <1>1, <1>10 DEF L!Next
<1>11. ASSUME NEW r \in Request, CreateInsert(r) \/ UpdatePayment(r) \/ ReinsertPayment(r)
       PROVE  L!Next \/ UNCHANGED L!vars
  <2>1. PICK p \in Payment : p = target[r]
    BY <1>11 DEF CreateInsert, UpdatePayment, ReinsertPayment
  <2>2. L!Open(p) \/ L!Settle(p) \/ UNCHANGED L!vars
    BY <1>2, <1>3, <1>4, <1>11, <2>1
  <2> QED
    BY <2>2 DEF L!Next
<1>12. ASSUME NEW t \in Transfer, NEW p \in Payment, Pay(t, p) PROVE L!Next
  BY <1>5, <1>12 DEF L!Next
<1>13. ASSUME NEW o \in Order, DeleteOrder(o) PROVE L!Next
  BY <1>7, <1>13 DEF L!Next
<1> QED
  BY <1>8, <1>9, <1>10, <1>11, <1>12, <1>13, LedgerWriters

\* Every behaviour of the service is a behaviour of Ledger.
THEOREM PaymentsImplementLedger == Spec => ImplementsLedger
<1>1. IInv /\ [Next]_vars => [L!Next]_(L!vars)
  BY LedgerStep
<1> QED
  BY <1>1, LedgerInit, Invariance, PTL DEF Spec, ImplementsLedger, L!Spec

=============================================================================
