------------------------------ MODULE Payments ------------------------------
(***************************************************************************)
(* The payment service of the back end (src/backend/src/payments), as one  *)
(* Node process runs it: every await is a point where other requests run.  *)
(* A request is an identity that is used once; pc says which database or   *)
(* remote call it awaits next, and one action is one such call together    *)
(* with the synchronous code up to the following await.                    *)
(*                                                                         *)
(* Repository.save(entity) of TypeORM is two calls: a SELECT whose row is  *)
(* compared with the entity, and a write of the columns found different    *)
(* (an INSERT when the SELECT found no row). The row may change or vanish  *)
(* between the two.                                                        *)
(*                                                                         *)
(* Of an order only the status is kept here; tables are in Occupancy.      *)
(***************************************************************************)

CONSTANTS
  Order,     \* order ids; every order exists at the start
  Payment,   \* payment codes, each drawn by at most one create request
  Transfer,  \* ids of bank transfers
  Request,   \* requests to the payment controller
  OrderOf,   \* the order each payment is created for
  PatchInput,\* the statuses clients store with PATCH /orders/:id
  None

ASSUME OrderOfAssumption == OrderOf \in [Payment -> Order]

VARIABLES
  orderStatus,  \* orders.status, or Absent
  payStatus,    \* payment_requests.status, or Absent
  paySepay,     \* payment_requests.sepay_transaction_id
  issued,       \* payment codes drawn so far
  bank,         \* the payment whose code a transfer carries, None if not made
  row,          \* the transactions row a request inserted
  pc,           \* the call a request awaits
  kind,         \* the controller method it runs
  target,       \* the payment it is about
  entity,       \* sepayTransactionId of the entity it holds
  dirty,        \* what its save found different from the stored row
  answer,       \* the status it answered with, "empty" (null) or "error"
  lost          \* requests stopped before their log insert, or whose insert
                \* failed (history)

db   == <<orderStatus, payStatus, paySepay, issued, row>>
call == <<pc, entity, dirty, answer>>
vars == <<db, bank, call, kind, target, lost>>

Absent        == "ABSENT"
OrderStatus   == {"PENDING", "CONFIRMED", "PREPARING", "COMPLETED", "CANCELLED"}
PaymentStatus == {"PENDING", "COMPLETED", "FAILED", "EXPIRED"}

ASSUME PatchInputAssumption == PatchInput \subseteq OrderStatus

TransactionRow ==
  [payment : Payment, type : {"AUTO", "MANUAL"}, sepay : Transfer \cup {None}]

ASSUME NoneAssumption == None \notin Payment \cup Transfer \cup TransactionRow

Labels == {"new", "insert", "query", "reread", "savePay", "writePay",
           "loadOrder", "saveOrder", "writeOrder", "log", "audit", "saveRow",
           "writeRow", "final", "done"}

\* The calls after the payment is stored as COMPLETED, up to the log insert.
Settling == {"loadOrder", "saveOrder", "writeOrder", "log"}

TypeOK ==
  /\ orderStatus \in [Order -> OrderStatus \cup {Absent}]
  /\ payStatus \in [Payment -> PaymentStatus \cup {Absent}]
  /\ paySepay \in [Payment -> Transfer \cup {None}]
  /\ issued \in SUBSET Payment
  /\ bank \in [Transfer -> Payment \cup {None}]
  /\ row \in [Request -> TransactionRow \cup {None}]
  /\ pc \in [Request -> Labels]
  /\ kind \in [Request -> {"none", "create", "verify", "manual"}]
  /\ target \in [Request -> Payment \cup {None}]
  /\ entity \in [Request -> Transfer \cup {None}]
  /\ dirty \in [Request -> SUBSET {"status", "sepay", "row"}]
  /\ answer \in [Request -> PaymentStatus \cup {"none", "empty", "error"}]
  /\ lost \in SUBSET Request

\* The process starts on a database that may hold payments created earlier.
Init ==
  /\ orderStatus = [o \in Order |-> "PENDING"]
  /\ issued \in SUBSET Payment
  /\ payStatus = [p \in Payment |-> IF p \in issued THEN "PENDING" ELSE Absent]
  /\ paySepay = [p \in Payment |-> None]
  /\ bank = [t \in Transfer |-> None]
  /\ row = [r \in Request |-> None]
  /\ pc = [r \in Request |-> "new"]
  /\ kind = [r \in Request |-> "none"]
  /\ target = [r \in Request |-> None]
  /\ entity = [r \in Request |-> None]
  /\ dirty = [r \in Request |-> {}]
  /\ answer = [r \in Request |-> "none"]
  /\ lost = {}

(***************************************************************************)
(* Steps shared by the handlers                                            *)
(*                                                                         *)
(* An operator marked "Variant" is not part of the specification: it is    *)
(* its neighbour with a plausible mistake, which a property must reject.   *)
(***************************************************************************)

\* r awaits the call named to next, with the entity it holds.
Await(r, to) ==
  /\ pc' = [pc EXCEPT ![r] = to]
  /\ UNCHANGED <<entity, dirty, answer>>

\* r answers the client and is over; the entity it held is garbage.
Answer(r, a) ==
  /\ pc' = [pc EXCEPT ![r] = "done"]
  /\ answer' = [answer EXCEPT ![r] = a]
  /\ entity' = [entity EXCEPT ![r] = None]
  /\ dirty' = [dirty EXCEPT ![r] = {}]

OrderExists(o)   == orderStatus[o] # Absent
PaymentExists(p) == payStatus[p] # Absent

\* Variant: the "not found" check is forgotten.
UncheckedStatus(p) == payStatus[p]

\* What a handler that returns payment p answers.
StoredStatus(p) == IF PaymentExists(p) THEN payStatus[p] ELSE "error"

Arrive(r, k, p) ==
  /\ pc[r] = "new"
  /\ kind' = [kind EXCEPT ![r] = k]
  /\ target' = [target EXCEPT ![r] = p]

(***************************************************************************)
(* create(orderId): POST /payments/qr                                      *)
(***************************************************************************)

\* The order is read and a code is drawn. A cancelled order is refused.
CreateLoad(r, p) ==
  /\ Arrive(r, "create", p)
  /\ p \notin issued
  /\ issued' = issued \cup {p}
  /\ IF OrderExists(OrderOf[p]) /\ orderStatus[OrderOf[p]] # "CANCELLED"
       THEN Await(r, "insert")
       ELSE Answer(r, "error")
  /\ UNCHANGED <<orderStatus, payStatus, paySepay, row, bank, lost>>

\* The payment is inserted; order_id is a foreign key.
CreateInsert(r) ==
  LET p == target[r] IN
  /\ pc[r] = "insert"
  /\ IF OrderExists(OrderOf[p])
       THEN /\ payStatus' = [payStatus EXCEPT ![p] = "PENDING"]
            /\ Answer(r, "PENDING")
       ELSE /\ UNCHANGED payStatus
            /\ Answer(r, "error")
  /\ UNCHANGED <<orderStatus, paySepay, issued, row, bank, kind, target, lost>>

(***************************************************************************)
(* verify(paymentId): POST /payments/:id/verify                            *)
(***************************************************************************)

\* findById: only a PENDING payment goes on to SePay.
VerifyLoad(r, p) ==
  /\ Arrive(r, "verify", p)
  /\ p \in issued
  /\ IF payStatus[p] = "PENDING" THEN Await(r, "query")
                                 ELSE Answer(r, StoredStatus(p))
  /\ UNCHANGED <<db, bank, lost>>

\* Variant: any transfer of the right amount is taken, whatever its content.
AnyTransferMatches(r) ==
  /\ pc[r] = "query"
  /\ \E t \in Transfer :
       /\ bank[t] # None
       /\ entity' = [entity EXCEPT ![r] = t]
  /\ pc' = [pc EXCEPT ![r] = "savePay"]
  /\ UNCHANGED <<db, bank, dirty, answer, kind, target, lost>>

\* SePay's list holds a transfer that carries the code: the entity gets its id.
SepayMatches(r) ==
  /\ pc[r] = "query"
  /\ \E t \in Transfer :
       /\ bank[t] = target[r]
       /\ entity' = [entity EXCEPT ![r] = t]
  /\ pc' = [pc EXCEPT ![r] = "savePay"]
  /\ UNCHANGED <<db, bank, dirty, answer, kind, target, lost>>

\* No match: not paid yet, or not among the 20 latest transfers SePay lists.
SepayHasNoMatch(r) ==
  /\ pc[r] = "query"
  /\ Await(r, "reread")
  /\ UNCHANGED <<db, bank, kind, target, lost>>

\* No API key, an HTTP error, or no answer within 10 s.
SepayFails(r) ==
  /\ pc[r] = "query"
  /\ Answer(r, "error")
  /\ UNCHANGED <<db, bank, kind, target, lost>>

\* Variant: a payment without a match is stored as EXPIRED.
ExpireUnmatched(r) ==
  /\ pc[r] = "reread"
  /\ payStatus' = IF PaymentExists(target[r])
                    THEN [payStatus EXCEPT ![target[r]] = "EXPIRED"] ELSE payStatus
  /\ Answer(r, "EXPIRED")
  /\ UNCHANGED <<orderStatus, paySepay, issued, row, bank, kind, target, lost>>

\* After no match the payment is read again and returned as it then is, null
\* when it is gone.
Reread(r) ==
  /\ pc[r] = "reread"
  /\ Answer(r, IF PaymentExists(target[r]) THEN payStatus[target[r]] ELSE "empty")
  /\ UNCHANGED <<db, bank, kind, target, lost>>

(***************************************************************************)
(* markManual(paymentId): POST /payments/:id/mark-manual                   *)
(***************************************************************************)

\* Variant: the order is completed and the log written before the payment.
ManualOrderFirst(r, p) ==
  /\ Arrive(r, "manual", p)
  /\ p \in issued
  /\ IF PaymentExists(p) THEN Await(r, "loadOrder") ELSE Answer(r, "error")
  /\ UNCHANGED <<db, bank, lost>>

\* findById, whatever the status is; the entity keeps the id it was read with.
ManualLoad(r, p) ==
  /\ Arrive(r, "manual", p)
  /\ p \in issued
  /\ IF PaymentExists(p)
       THEN /\ pc' = [pc EXCEPT ![r] = "savePay"]
            /\ entity' = [entity EXCEPT ![r] = paySepay[p]]
            /\ UNCHANGED <<dirty, answer>>
       ELSE Answer(r, "error")
  /\ UNCHANGED <<db, bank, lost>>

(***************************************************************************)
(* What verify and markManual do once the payment is known to be paid      *)
(***************************************************************************)

\* save(payment), the SELECT: the entity is COMPLETED and carries entity[r].
ReloadPayment(r) ==
  LET p    == target[r]
      diff == IF ~PaymentExists(p) THEN {"row"}
              ELSE {c \in {"status", "sepay"} :
                      \/ c = "status" /\ payStatus[p] # "COMPLETED"
                      \/ c = "sepay" /\ paySepay[p] # entity[r]}
  IN
  /\ pc[r] = "savePay"
  /\ dirty' = [dirty EXCEPT ![r] = diff]
  /\ pc' = [pc EXCEPT ![r] = IF dirty'[r] = {} THEN "loadOrder" ELSE "writePay"]
  /\ UNCHANGED <<db, bank, entity, answer, kind, target, lost>>

\* save(payment), an UPDATE of the columns that differed: it changes no row
\* when the payment is gone by now.
UpdatePayment(r) ==
  LET p == target[r] IN
  /\ pc[r] = "writePay"
  /\ "row" \notin dirty[r]
  /\ payStatus' = IF PaymentExists(p) /\ "status" \in dirty[r]
                    THEN [payStatus EXCEPT ![p] = "COMPLETED"] ELSE payStatus
  /\ paySepay' = IF PaymentExists(p) /\ "sepay" \in dirty[r]
                   THEN [paySepay EXCEPT ![p] = entity[r]] ELSE paySepay
  /\ Await(r, "loadOrder")
  /\ UNCHANGED <<orderStatus, issued, row, bank, kind, target, lost>>

\* Variant: the entity is saved before its status is set when the row is gone.
ReinsertAsRead(r) ==
  LET p == target[r] IN
  /\ pc[r] = "writePay"
  /\ "row" \in dirty[r]
  /\ IF OrderExists(OrderOf[p]) /\ ~PaymentExists(p)
       THEN /\ payStatus' = [payStatus EXCEPT ![p] = "PENDING"]
            /\ Await(r, "loadOrder")
       ELSE /\ UNCHANGED payStatus
            /\ Answer(r, "error")
  /\ UNCHANGED <<orderStatus, paySepay, issued, row, bank, kind, target, lost>>

\* save(payment), an INSERT of a payment that was deleted meanwhile: refused
\* unless its order is back and nobody else has inserted it.
ReinsertPayment(r) ==
  LET p == target[r] IN
  /\ pc[r] = "writePay"
  /\ "row" \in dirty[r]
  /\ IF OrderExists(OrderOf[p]) /\ ~PaymentExists(p)
       THEN /\ payStatus' = [payStatus EXCEPT ![p] = "COMPLETED"]
            /\ paySepay' = [paySepay EXCEPT ![p] = entity[r]]
            /\ Await(r, "loadOrder")
       ELSE /\ UNCHANGED <<payStatus, paySepay>>
            /\ Answer(r, "error")
  /\ UNCHANGED <<orderStatus, issued, row, bank, kind, target, lost>>

\* Variant: a manual confirmation leaves the order alone.
LoadOrderOfVerifyOnly(r) ==
  /\ pc[r] = "loadOrder"
  /\ Await(r, IF kind[r] = "verify" /\ OrderExists(OrderOf[target[r]])
                THEN "saveOrder" ELSE "log")
  /\ UNCHANGED <<db, bank, kind, target, lost>>

\* The order of the payment is read; without one its status is left alone.
LoadOrder(r) ==
  /\ pc[r] = "loadOrder"
  /\ Await(r, IF OrderExists(OrderOf[target[r]]) THEN "saveOrder" ELSE "log")
  /\ UNCHANGED <<db, bank, kind, target, lost>>

\* save(order), the SELECT. An order deleted meanwhile would be inserted
\* without its user, which the table refuses.
ReloadOrder(r) ==
  LET o == OrderOf[target[r]] IN
  /\ pc[r] = "saveOrder"
  /\ IF OrderExists(o)
       THEN Await(r, IF orderStatus[o] = "COMPLETED" THEN "log" ELSE "writeOrder")
       ELSE Answer(r, "error")
  /\ UNCHANGED <<db, bank, kind, target, lost>>

\* Variant: the handler returns from within "if (order)", before the log.
WriteOrderAndReturn(r) ==
  LET o == OrderOf[target[r]] IN
  /\ pc[r] = "writeOrder"
  /\ orderStatus' = IF OrderExists(o)
                      THEN [orderStatus EXCEPT ![o] = "COMPLETED"] ELSE orderStatus
  /\ Await(r, "final")
  /\ UNCHANGED <<payStatus, paySepay, issued, row, bank, kind, target, lost>>

\* save(order), the UPDATE.
WriteOrder(r) ==
  LET o == OrderOf[target[r]] IN
  /\ pc[r] = "writeOrder"
  /\ orderStatus' = IF OrderExists(o)
                      THEN [orderStatus EXCEPT ![o] = "COMPLETED"] ELSE orderStatus
  /\ Await(r, "log")
  /\ UNCHANGED <<payStatus, paySepay, issued, row, bank, kind, target, lost>>

\* The row a request logs.
RowOf(r) ==
  IF kind[r] = "verify"
    THEN [payment |-> target[r], type |-> "AUTO", sepay |-> entity[r]]
    ELSE [payment |-> target[r], type |-> "MANUAL", sepay |-> None]

\* What the foreign keys of a row, order_id and payment_id, accept.
RowFits(r) == OrderExists(OrderOf[target[r]]) /\ PaymentExists(target[r])

\* logTransaction, the MySQL insert.
LogRow(r) ==
  /\ pc[r] = "log"
  /\ RowFits(r)
  /\ row' = [row EXCEPT ![r] = RowOf(r)]
  /\ Await(r, "audit")
  /\ UNCHANGED <<orderStatus, payStatus, paySepay, issued, bank, kind, target, lost>>

\* The insert fails: logTransaction returns at once, without immudb.
LogFails(r) ==
  /\ pc[r] = "log"
  /\ lost' = lost \cup {r}
  /\ Await(r, "final")
  /\ UNCHANGED <<db, bank, kind, target>>

\* immudb answers: with an id, which is to be saved in the row, or badly.
Audit(r) ==
  /\ pc[r] = "audit"
  /\ Await(r, "saveRow") \/ Await(r, "final")
  /\ UNCHANGED <<db, bank, kind, target, lost>>

\* save(row), the SELECT; a row it finds gets its immudb_tx_id, not kept here.
ReloadRow(r) ==
  /\ pc[r] = "saveRow"
  /\ Await(r, IF row[r] = None THEN "writeRow" ELSE "final")
  /\ UNCHANGED <<db, bank, kind, target, lost>>

\* save(row), the INSERT of a row deleted meanwhile; an error is swallowed.
ReinsertRow(r) ==
  /\ pc[r] = "writeRow"
  /\ row' = IF RowFits(r) THEN [row EXCEPT ![r] = RowOf(r)] ELSE row
  /\ Await(r, "final")
  /\ UNCHANGED <<orderStatus, payStatus, paySepay, issued, bank, kind, target, lost>>

\* The payment is read once more and returned.
Final(r) ==
  /\ pc[r] = "final"
  /\ Answer(r, StoredStatus(target[r]))
  /\ UNCHANGED <<db, bank, kind, target, lost>>

(***************************************************************************)
(* Failures and the rest of the system                                     *)
(***************************************************************************)

\* A database call of r throws, or the process dies (a crash is one Stop for
\* every request in flight): what r has stored so far stays.
Stop(r) ==
  /\ pc[r] \notin {"new", "done"}
  /\ Answer(r, "error")
  /\ lost' = IF pc[r] \in Settling THEN lost \cup {r} ELSE lost
  /\ UNCHANGED <<db, bank, kind, target>>

\* A customer pays: the transfer carries the code and amount of payment p.
Pay(t, p) ==
  /\ bank[t] = None
  /\ payStatus[p] # Absent
  /\ bank' = [bank EXCEPT ![t] = p]
  /\ UNCHANGED <<db, call, kind, target, lost>>

\* PATCH /orders/:id stores any status.
PatchOrder(o, s) ==
  /\ OrderExists(o)
  /\ orderStatus' = [orderStatus EXCEPT ![o] = s]
  /\ UNCHANGED <<payStatus, paySepay, issued, row, bank, call, kind, target, lost>>

\* Variant: the transactions of a deleted order are kept.
DeleteOrderKeepRows(o) ==
  /\ OrderExists(o)
  /\ orderStatus' = [orderStatus EXCEPT ![o] = Absent]
  /\ payStatus' = [p \in Payment |-> IF OrderOf[p] = o THEN Absent ELSE payStatus[p]]
  /\ paySepay' = [p \in Payment |-> IF OrderOf[p] = o THEN None ELSE paySepay[p]]
  /\ UNCHANGED <<issued, row, bank, call, kind, target, lost>>

\* DELETE /orders/:id: the payments and transactions of the order go with it.
DeleteOrder(o) ==
  /\ OrderExists(o)
  /\ orderStatus' = [orderStatus EXCEPT ![o] = Absent]
  /\ payStatus' = [p \in Payment |-> IF OrderOf[p] = o THEN Absent ELSE payStatus[p]]
  /\ paySepay' = [p \in Payment |-> IF OrderOf[p] = o THEN None ELSE paySepay[p]]
  /\ row' = [r \in Request |->
       IF row[r] # None /\ OrderOf[row[r].payment] = o THEN None ELSE row[r]]
  /\ UNCHANGED <<issued, bank, call, kind, target, lost>>

\* A PATCH that had read the order before it was deleted saves it again.
RestoreOrder(o, s) ==
  /\ ~OrderExists(o)
  /\ orderStatus' = [orderStatus EXCEPT ![o] = s]
  /\ UNCHANGED <<payStatus, paySepay, issued, row, bank, call, kind, target, lost>>

-----------------------------------------------------------------------------

Begin(r) == \E p \in Payment : CreateLoad(r, p) \/ VerifyLoad(r, p) \/ ManualLoad(r, p)

\* Every step of a request that waits for MySQL or SePay.
Proceed(r) ==
  \/ CreateInsert(r)
  \/ SepayMatches(r) \/ SepayHasNoMatch(r) \/ SepayFails(r) \/ Reread(r)
  \/ ReloadPayment(r) \/ UpdatePayment(r) \/ ReinsertPayment(r)
  \/ LoadOrder(r) \/ ReloadOrder(r) \/ WriteOrder(r)
  \/ LogRow(r) \/ LogFails(r) \/ ReloadRow(r) \/ ReinsertRow(r) \/ Final(r)

Handler(r) == Begin(r) \/ Proceed(r) \/ Audit(r)

Paying == \E t \in Transfer, p \in Payment : Pay(t, p)

Staff ==
  \E o \in Order :
    \/ DeleteOrder(o)
    \/ \E s \in PatchInput : PatchOrder(o, s) \/ RestoreOrder(o, s)

Next ==
  \/ \E r \in Request : Handler(r) \/ Stop(r)
  \/ Paying
  \/ Staff

Spec == Init /\ [][Next]_vars

\* The event loop serves every request, MySQL answers every query, SePay
\* answers within its timeout and immudb answers too.
FairSpec == Spec /\ \A r \in Request : WF_vars(Proceed(r)) /\ WF_vars(Audit(r))

\* Only payment requests and customers: nobody edits an order, nothing fails.
CalmNext == (\E r \in Request : Handler(r)) \/ Paying

CalmSpec == Init /\ [][CalmNext]_vars

-----------------------------------------------------------------------------
(***************************************************************************)
(* Safety                                                                  *)
(***************************************************************************)

\* A transactions row exists only for a payment that is stored as COMPLETED:
\* no order of two handlers, a delete and a late write logs an unpaid payment
\* (verify and markManual store the payment before they log).
LoggedIsSettled ==
  \A r \in Request : row[r] # None => payStatus[row[r].payment] = "COMPLETED"

\* A transfer carries the code of p, or a member of the staff confirmed it.
WasPaid(p) ==
  \/ \E t \in Transfer : bank[t] = p
  \/ \E r \in Request : target[r] = p /\ kind[r] = "manual"

\* Evidence is genuine: the SePay id stored on a payment or on an AUTO row is
\* a transfer that carries that payment's code, although entities are saved
\* long after they were read (payment.service.ts:122-124, 137-144); and no
\* payment is COMPLETED for which there is neither a transfer nor a manual
\* confirmation.
EvidenceIsGenuine ==
  /\ \A p \in Payment : paySepay[p] # None =>
       bank[paySepay[p]] = p /\ payStatus[p] = "COMPLETED"
  /\ \A r \in Request : row[r] # None =>
       IF row[r].type = "AUTO"
         THEN row[r].sepay # None /\ bank[row[r].sepay] = row[r].payment
         ELSE row[r].sepay = None
  /\ \A p \in Payment : payStatus[p] = "COMPLETED" => WasPaid(p)

\* A payment that is COMPLETED without a transactions row is explained: some
\* request that completed it has yet to log, or was stopped or refused by the
\* database before it could. README.md promises that all verifications are
\* logged; this is the exact form in which the code keeps it.
UnloggedIsExplained ==
  \A p \in Payment : payStatus[p] = "COMPLETED" =>
    \E r \in Request :
      \/ row[r] # None /\ row[r].payment = p
      \/ /\ target[r] = p /\ kind[r] \in {"verify", "manual"}
         /\ pc[r] \in Settling \/ r \in lost

\* No stale write undoes a settlement: a COMPLETED payment stays so until its
\* order is deleted.
CompletedIsFinal ==
  [][\A p \in Payment : payStatus[p] = "COMPLETED" =>
        \/ payStatus'[p] = "COMPLETED"
        \/ payStatus'[p] = Absent /\ orderStatus'[OrderOf[p]] = Absent]_vars

\* A settled payment is never open again, not even after its order was deleted
\* and restored: what a late create or a stale save inserts for it is not a
\* PENDING payment (payment.service.ts:65, 124, 162).
NeverReopened ==
  \A p \in Payment : [](payStatus[p] = "COMPLETED" => [](payStatus[p] # "PENDING"))

(***************************************************************************)
(* Liveness                                                                *)
(***************************************************************************)

\* Whatever overlaps, fails or is edited: a request that has stored its payment
\* as COMPLETED brings the order to COMPLETED, unless the request itself is
\* stopped or the order is deleted under it.
CompletionReachesOrder ==
  \A r \in Request :
    pc[r] = "loadOrder" ~>
      \/ target[r] # None /\ orderStatus[OrderOf[target[r]]] \in {"COMPLETED", Absent}
      \/ r \in lost

(***************************************************************************)
(* Refinement                                                              *)
(***************************************************************************)

\* The ledger state of a payment, as stored.
LedgerState(p) ==
  IF p \notin issued THEN "unissued"
  ELSE IF ~PaymentExists(p) THEN "missing"
  ELSE IF payStatus[p] = "PENDING" THEN "open" ELSE "settled"

L == INSTANCE Ledger WITH
       Entry    <- Request,
       state    <- [p \in Payment |-> LedgerState(p)],
       received <- bank,
       entry    <- row

\* The service implements the ledger: however requests overlap, stop or are
\* overtaken by deletions, each stored change is one step of the ledger.
ImplementsLedger == L!Spec

=============================================================================
