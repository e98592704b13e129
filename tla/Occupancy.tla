----------------------------- MODULE Occupancy ------------------------------
(***************************************************************************)
(* Orders and the tables they occupy: OrdersService and TableService       *)
(* (src/backend/src/orders, src/backend/src/tables). As in Payments a      *)
(* request is used once, pc names the call it awaits, and a save is a      *)
(* SELECT followed by a write of what differed.                            *)
(*                                                                         *)
(* create runs in one MySQL transaction (REPEATABLE READ): its SELECTs see *)
(* one snapshot, its rows become visible at COMMIT, and inserting an order *)
(* takes a shared lock on the table row it refers to until then. UPDATE    *)
(* and DELETE of that row wait for the lock; two transactions that wait    *)
(* for each other are a deadlock, of which MySQL fails one.                *)
(*                                                                         *)
(* Items and totals are left out; a handler that edits items appears here  *)
(* because it saves the whole order it has read.                           *)
(***************************************************************************)
EXTENDS FiniteSets

CONSTANTS
  Table, Order, Request,
  PatchInput,  \* the order statuses clients send
  TableInput,  \* the table statuses clients send
  None

Absent      == "ABSENT"
OrderStatus == {"PENDING", "CONFIRMED", "PREPARING", "COMPLETED", "CANCELLED"}
TableStatus == {"EMPTY", "OCCUPIED", "RESERVED"}
Active      == {"PENDING", "CONFIRMED", "PREPARING"}
Terminal    == {"COMPLETED", "CANCELLED"}

ASSUME NoneAssumption ==
  None \notin Table \cup Order \cup OrderStatus \cup TableStatus
ASSUME InputAssumption ==
  PatchInput \subseteq OrderStatus /\ TableInput \subseteq TableStatus

VARIABLES
  tblStatus,  \* tables.status, or Absent
  ordStatus,  \* orders.status, or Absent
  ordTable,   \* orders.table_id
  used,       \* the ids given to orders and tables so far
  pc,         \* the call a request awaits
  op,         \* the handler it runs
  ord,        \* the order it is about
  tbl,        \* the table it holds: the order's, or the one it edits
  st,         \* the order status in the entity it saves
  tst,        \* the table status in the entity it saves; for create the one
              \* its snapshot shows
  plan,       \* what its save found different
  came        \* history: how an order came to be active at its table

db     == <<tblStatus, ordStatus, ordTable, used, came>>
entity == <<op, ord, tbl, st, tst, plan>>
vars   == <<db, pc, entity>>

Labels == {"new", "insert", "occupy", "findTable", "saveOrder", "writeOrder",
           "deleteOrder", "count", "findRelease", "saveTable", "writeTable",
           "deleteTable", "done"}

Ops == {"none", "create", "update", "item", "remove", "tableUpdate", "tableRemove",
        "tableCreate"}

\* Its table was shown OCCUPIED for it ("seated"), or was being released ("late"),
\* or it is there by a PATCH or a save that leave the table as it was, or the
\* staff have set the table's status since.
Ways == {"seated", "late", "moved", "reopened", "restored", "edited"}

TypeOK ==
  /\ tblStatus \in [Table -> TableStatus \cup {Absent}]
  /\ ordStatus \in [Order -> OrderStatus \cup {Absent}]
  /\ ordTable \in [Order -> Table \cup {None}]
  /\ used \in SUBSET (Order \cup Table)
  /\ pc \in [Request -> Labels]
  /\ op \in [Request -> Ops]
  /\ ord \in [Request -> Order \cup {None}]
  /\ tbl \in [Request -> Table \cup {None}]
  /\ st \in [Request -> OrderStatus \cup {None}]
  /\ tst \in [Request -> TableStatus \cup {None}]
  /\ plan \in [Request -> SUBSET {"status", "table", "row"}]
  /\ came \in [Order -> Ways \cup {None}]

\* Some tables are set up; no order has been made.
Init ==
  /\ used \in SUBSET Table
  /\ tblStatus = [t \in Table |-> IF t \in used THEN "EMPTY" ELSE Absent]
  /\ ordStatus = [o \in Order |-> Absent]
  /\ ordTable = [o \in Order |-> None]
  /\ pc = [r \in Request |-> "new"]
  /\ op = [r \in Request |-> "none"]
  /\ ord = [r \in Request |-> None]
  /\ tbl = [r \in Request |-> None]
  /\ st = [r \in Request |-> None]
  /\ tst = [r \in Request |-> None]
  /\ plan = [r \in Request |-> {}]
  /\ came = [o \in Order |-> None]

-----------------------------------------------------------------------------

\* An operator marked "Variant" is not part of the specification: it is its
\* neighbour with a plausible mistake, which a property must reject.

Goto(r, to) == pc' = [pc EXCEPT ![r] = to]

TableExists(t) == tblStatus[t] # Absent
OrderExists(o) == ordStatus[o] # Absent

\* What a foreign key on table_id accepts.
Refers(t) == t # None => TableExists(t)

ActiveAt(t) == {o \in Order : ordStatus[o] \in Active /\ ordTable[o] = t}

\* r has inserted an order for table t and not committed: a shared lock.
Locks(r, t) == pc[r] = "occupy" /\ tbl[r] = t

\* ... and it will also update the table row, for which it needs it alone.
Upgrades(r, t) == Locks(r, t) /\ tst[r] # "OCCUPIED"

\* r is about to update or delete the row of table t.
Overwrites(r, t) ==
  /\ pc[r] \in {"writeTable", "deleteTable"}
  /\ tbl[r] = t
  /\ "row" \notin plan[r]

\* r has ended or deleted an order of table t, counted none left, and has yet
\* to release t.
Counted(r, t) ==
  /\ pc[r] \in {"findRelease", "saveTable", "writeTable"}
  /\ op[r] \in {"update", "remove"}
  /\ tbl[r] = t

Came(o, way) == came' = [came EXCEPT ![o] = way]

Arrive(r, k) ==
  /\ pc[r] = "new"
  /\ op' = [op EXCEPT ![r] = k]

(***************************************************************************)
(* create                                                                  *)
(***************************************************************************)

\* The transaction's reads: one snapshot of the table.
CreateRead(r, t) ==
  /\ Arrive(r, "create")
  /\ IF Refers(t)
       THEN /\ tbl' = [tbl EXCEPT ![r] = t]
            /\ tst' = [tst EXCEPT ![r] = IF t = None THEN None ELSE tblStatus[t]]
            /\ Goto(r, "insert")
       ELSE UNCHANGED <<tbl, tst>> /\ Goto(r, "done")
  /\ UNCHANGED <<db, ord, st, plan>>

\* save(order): the INSERT, invisible until COMMIT. The foreign key fails when
\* the table was deleted after the snapshot.
CreateInsert(r) ==
  /\ pc[r] = "insert"
  /\ IF Refers(tbl[r])
       THEN /\ \E o \in Order \ used :
                 used' = used \cup {o} /\ ord' = [ord EXCEPT ![r] = o]
            /\ Goto(r, "occupy")
       ELSE UNCHANGED <<used, ord>> /\ Goto(r, "done")
  /\ UNCHANGED <<tblStatus, ordStatus, ordTable, came, op, tbl, st, tst, plan>>

\* save(table) and COMMIT. The save compares OCCUPIED with the snapshot: a
\* table that was occupied then is not written, whatever it is now.
CreateCommit(r) ==
  LET t == tbl[r] IN
  /\ pc[r] = "occupy"
  /\ IF t # None /\ tst[r] # "OCCUPIED"
       THEN /\ \A q \in Request \ {r} : ~Locks(q, t)
            /\ tblStatus' = [tblStatus EXCEPT ![t] = "OCCUPIED"]
       ELSE UNCHANGED tblStatus
  /\ ordStatus' = [ordStatus EXCEPT ![ord[r]] = "PENDING"]
  /\ ordTable' = [ordTable EXCEPT ![ord[r]] = t]
  /\ Came(ord[r], IF \/ t # None /\ tst[r] = "OCCUPIED" /\ tblStatus[t] # "OCCUPIED"
                     \/ \E q \in Request : Counted(q, t)
                    THEN "late" ELSE "seated")
  /\ Goto(r, "done")
  /\ UNCHANGED <<used, entity>>

\* Two requests need the row of one table: one that holds it shared and wants
\* it alone, and another such or one waiting to overwrite it. MySQL fails
\* either of them.
Deadlock(r) ==
  /\ \E t \in Table, q \in Request \ {r} :
       \/ Upgrades(r, t) /\ (Upgrades(q, t) \/ Overwrites(q, t))
       \/ Overwrites(r, t) /\ Upgrades(q, t)
  /\ Goto(r, "done")
  /\ UNCHANGED <<db, entity>>

(***************************************************************************)
(* update, the item handlers and remove                                    *)
(***************************************************************************)

\* update: findOne, and the DTO assigned over what was read. The entity keeps
\* the stored values of the fields the DTO leaves out.
UpdateLoad(r, o, s, t) ==
  /\ Arrive(r, "update")
  /\ o \in used
  /\ ord' = [ord EXCEPT ![r] = o]
  /\ IF OrderExists(o)
       THEN /\ st' = [st EXCEPT ![r] = IF s = None THEN ordStatus[o] ELSE s]
            /\ tbl' = [tbl EXCEPT ![r] = IF t = None THEN ordTable[o] ELSE t]
            /\ Goto(r, IF t = None THEN "saveOrder" ELSE "findTable")
       ELSE UNCHANGED <<st, tbl>> /\ Goto(r, "done")
  /\ UNCHANGED <<db, tst, plan>>

UpdateFindTable(r) ==
  /\ pc[r] = "findTable"
  /\ Goto(r, IF TableExists(tbl[r]) THEN "saveOrder" ELSE "done")
  /\ UNCHANGED <<db, entity>>

\* addItem, updateItem, removeItem: findOne, and later a save of the order.
ItemLoad(r, o) ==
  /\ Arrive(r, "item")
  /\ o \in used
  /\ ord' = [ord EXCEPT ![r] = o]
  /\ IF OrderExists(o)
       THEN /\ st' = [st EXCEPT ![r] = ordStatus[o]]
            /\ tbl' = [tbl EXCEPT ![r] = ordTable[o]]
            /\ Goto(r, "saveOrder")
       ELSE UNCHANGED <<st, tbl>> /\ Goto(r, "done")
  /\ UNCHANGED <<db, tst, plan>>

\* Variant: only a cancelled order releases its table.
AfterSaveCancelled(r) ==
  IF op[r] = "update" /\ tbl[r] # None /\ st[r] = "CANCELLED" THEN "count" ELSE "done"

\* What follows the save: update releases the table of a terminal order.
AfterSave(r) ==
  IF op[r] = "update" /\ tbl[r] # None /\ st[r] \in Terminal THEN "count" ELSE "done"

\* save(order), the SELECT.
ReloadOrder(r) ==
  LET o == ord[r] IN
  /\ pc[r] = "saveOrder"
  /\ plan' = [plan EXCEPT ![r] =
       IF ~OrderExists(o) THEN {"row"}
       ELSE {c \in {"status", "table"} :
               \/ c = "status" /\ ordStatus[o] # st[r]
               \/ c = "table" /\ ordTable[o] # tbl[r]}]
  /\ Goto(r, IF plan'[r] = {} THEN AfterSave(r) ELSE "writeOrder")
  /\ UNCHANGED <<db, op, ord, tbl, st, tst>>

\* save(order), the UPDATE of what differed; no row when the order is gone.
UpdateOrder(r) ==
  LET o == ord[r] IN
  /\ pc[r] = "writeOrder" /\ "row" \notin plan[r]
  /\ IF OrderExists(o) /\ "table" \in plan[r] /\ ~Refers(tbl[r])
       THEN UNCHANGED <<ordStatus, ordTable, came>> /\ Goto(r, "done")
       ELSE /\ ordStatus' = IF OrderExists(o) /\ "status" \in plan[r]
                              THEN [ordStatus EXCEPT ![o] = st[r]] ELSE ordStatus
            /\ ordTable' = IF OrderExists(o) /\ "table" \in plan[r]
                             THEN [ordTable EXCEPT ![o] = tbl[r]] ELSE ordTable
            /\ Came(o, IF ordTable'[o] # ordTable[o] THEN "moved"
                       ELSE IF ordStatus[o] \notin Active /\ ordStatus'[o] \in Active
                              THEN "reopened" ELSE came[o])
            /\ Goto(r, AfterSave(r))
  /\ UNCHANGED <<tblStatus, used, entity>>

\* save(order), the INSERT of an order deleted after it was read.
ReinsertOrder(r) ==
  LET o == ord[r] IN
  /\ pc[r] = "writeOrder" /\ "row" \in plan[r]
  /\ IF ~OrderExists(o) /\ Refers(tbl[r])
       THEN /\ ordStatus' = [ordStatus EXCEPT ![o] = st[r]]
            /\ ordTable' = [ordTable EXCEPT ![o] = tbl[r]]
            /\ Came(o, "restored")
            /\ Goto(r, AfterSave(r))
       ELSE UNCHANGED <<ordStatus, ordTable, came>> /\ Goto(r, "done")
  /\ UNCHANGED <<tblStatus, used, entity>>

\* remove: findOne, and the table id remembered.
RemoveLoad(r, o) ==
  /\ Arrive(r, "remove")
  /\ o \in used
  /\ ord' = [ord EXCEPT ![r] = o]
  /\ IF OrderExists(o)
       THEN /\ tbl' = [tbl EXCEPT ![r] = ordTable[o]]
            /\ Goto(r, "deleteOrder")
       ELSE UNCHANGED tbl /\ Goto(r, "done")
  /\ UNCHANGED <<db, st, tst, plan>>

RemoveDelete(r) ==
  /\ pc[r] = "deleteOrder"
  /\ ordStatus' = [ordStatus EXCEPT ![ord[r]] = Absent]
  /\ ordTable' = [ordTable EXCEPT ![ord[r]] = None]
  /\ Came(ord[r], None)
  /\ Goto(r, IF tbl[r] = None THEN "done" ELSE "count")
  /\ UNCHANGED <<tblStatus, used, entity>>

\* Variant: the table is released whoever else sits at it.
ReleaseAlways(r) ==
  /\ pc[r] = "count"
  /\ tst' = [tst EXCEPT ![r] = "EMPTY"]
  /\ Goto(r, IF op[r] = "update" THEN "saveTable" ELSE "findRelease")
  /\ UNCHANGED <<db, op, ord, tbl, st, plan>>

\* The active orders of the table are counted; with none left it is released.
Count(r) ==
  /\ pc[r] = "count"
  /\ tst' = [tst EXCEPT ![r] = "EMPTY"]
  /\ Goto(r, IF ActiveAt(tbl[r]) # {} THEN "done"
             ELSE IF op[r] = "update" THEN "saveTable" ELSE "findRelease")
  /\ UNCHANGED <<db, op, ord, tbl, st, plan>>

\* Variant: the test on the table that was read is inverted.
FindReleaseInverted(r) ==
  /\ pc[r] = "findRelease"
  /\ Goto(r, IF TableExists(tbl[r]) THEN "done" ELSE "saveTable")
  /\ UNCHANGED <<db, entity>>

\* remove reads the table again before it releases it.
FindRelease(r) ==
  /\ pc[r] = "findRelease"
  /\ Goto(r, IF TableExists(tbl[r]) THEN "saveTable" ELSE "done")
  /\ UNCHANGED <<db, entity>>

(***************************************************************************)
(* Tables                                                                  *)
(***************************************************************************)

\* save(table), the SELECT.
ReloadTable(r) ==
  LET t == tbl[r] IN
  /\ pc[r] = "saveTable"
  /\ plan' = [plan EXCEPT ![r] = IF ~TableExists(t) THEN {"row"}
                                 ELSE IF tblStatus[t] # tst[r] THEN {"status"} ELSE {}]
  /\ Goto(r, IF plan'[r] = {} THEN "done" ELSE "writeTable")
  /\ UNCHANGED <<db, op, ord, tbl, st, tst>>

\* Variant: the release waits until nobody sits at the table.
UpdateTableWhenFree(r) ==
  LET t == tbl[r] IN
  /\ pc[r] = "writeTable" /\ "row" \notin plan[r]
  /\ \A q \in Request : ~Locks(q, t)
  /\ ActiveAt(t) = {}
  /\ tblStatus' = IF TableExists(t) THEN [tblStatus EXCEPT ![t] = tst[r]] ELSE tblStatus
  /\ Goto(r, "done")
  /\ UNCHANGED <<ordStatus, ordTable, used, came, entity>>

\* save(table), the UPDATE, once no uncommitted order refers to the row.
UpdateTable(r) ==
  LET t == tbl[r] IN
  /\ pc[r] = "writeTable" /\ "row" \notin plan[r]
  /\ \A q \in Request : ~Locks(q, t)
  /\ tblStatus' = IF TableExists(t) THEN [tblStatus EXCEPT ![t] = tst[r]] ELSE tblStatus
  /\ came' = [o \in Order |-> IF op[r] = "tableUpdate" /\ ordTable[o] = t
                                 /\ tst[r] # "OCCUPIED"
                                THEN "edited" ELSE came[o]]
  /\ Goto(r, "done")
  /\ UNCHANGED <<ordStatus, ordTable, used, entity>>

\* save(table), the INSERT of a table deleted after it was read.
ReinsertTable(r) ==
  LET t == tbl[r] IN
  /\ pc[r] = "writeTable" /\ "row" \in plan[r]
  /\ tblStatus' = IF TableExists(t) THEN tblStatus ELSE [tblStatus EXCEPT ![t] = tst[r]]
  /\ Goto(r, "done")
  /\ UNCHANGED <<ordStatus, ordTable, used, came, entity>>

\* TableService.create: one INSERT.
TableInsert(r, t, s) ==
  /\ Arrive(r, "tableCreate")
  /\ t \notin used
  /\ used' = used \cup {t}
  /\ tblStatus' = [tblStatus EXCEPT ![t] = s]
  /\ Goto(r, "done")
  /\ UNCHANGED <<ordStatus, ordTable, came, ord, tbl, st, tst, plan>>

\* TableService.update: findOne, and the DTO assigned. Without a status in it
\* (a new number) the one that was read is saved again.
TableUpdateLoad(r, t, s) ==
  /\ Arrive(r, "tableUpdate")
  /\ t \in used
  /\ tbl' = [tbl EXCEPT ![r] = t]
  /\ IF TableExists(t)
       THEN /\ tst' = [tst EXCEPT ![r] = IF s = None THEN tblStatus[t] ELSE s]
            /\ Goto(r, "saveTable")
       ELSE UNCHANGED tst /\ Goto(r, "done")
  /\ UNCHANGED <<db, ord, st, plan>>

TableRemoveLoad(r, t) ==
  /\ Arrive(r, "tableRemove")
  /\ t \in used
  /\ tbl' = [tbl EXCEPT ![r] = t]
  /\ Goto(r, IF TableExists(t) THEN "deleteTable" ELSE "done")
  /\ UNCHANGED <<db, ord, st, tst, plan>>

\* The DELETE, refused while an order refers to the table.
TableDelete(r) ==
  LET t == tbl[r] IN
  /\ pc[r] = "deleteTable"
  /\ \A q \in Request : ~Locks(q, t)
  /\ tblStatus' = IF \E o \in Order : ordTable[o] = t
                    THEN tblStatus ELSE [tblStatus EXCEPT ![t] = Absent]
  /\ Goto(r, "done")
  /\ UNCHANGED <<ordStatus, ordTable, used, came, entity>>

(***************************************************************************)
(* The rest of the system                                                  *)
(***************************************************************************)

\* The payment service completes an order (see Payments); it knows no tables.
Settle(o) ==
  /\ OrderExists(o)
  /\ ordStatus' = [ordStatus EXCEPT ![o] = "COMPLETED"]
  /\ UNCHANGED <<tblStatus, ordTable, used, came, pc, entity>>

\* A database call throws or the process dies: the request ends where it is
\* and an open transaction is rolled back.
Stop(r) ==
  /\ pc[r] \notin {"new", "done"}
  /\ Goto(r, "done")
  /\ UNCHANGED <<db, entity>>

-----------------------------------------------------------------------------

Proceed(r) ==
  \/ CreateInsert(r) \/ CreateCommit(r) \/ Deadlock(r)
  \/ UpdateFindTable(r) \/ ReloadOrder(r) \/ UpdateOrder(r) \/ ReinsertOrder(r)
  \/ RemoveDelete(r) \/ Count(r) \/ FindRelease(r)
  \/ ReloadTable(r) \/ UpdateTable(r) \/ ReinsertTable(r) \/ TableDelete(r)

\* Taking orders, setting their status, deleting them.
Serve(r) ==
  \/ \E t \in Table \cup {None} : CreateRead(r, t)
  \/ \E o \in Order :
       RemoveLoad(r, o) \/ \E s \in PatchInput : UpdateLoad(r, o, s, None)

\* Moving orders between tables, editing items and tables.
Manage(r) ==
  \/ \E o \in Order :
       \/ ItemLoad(r, o)
       \/ \E s \in PatchInput \cup {None}, t \in Table : UpdateLoad(r, o, s, t)
  \/ \E t \in Table :
       \/ TableRemoveLoad(r, t)
       \/ \E s \in TableInput \cup {None} : TableUpdateLoad(r, t, s)
       \/ \E s \in TableInput : TableInsert(r, t, s)

Next ==
  \/ \E r \in Request : Serve(r) \/ Manage(r) \/ Proceed(r) \/ Stop(r)
  \/ \E o \in Order : Settle(o)

Spec == Init /\ [][Next]_vars

\* The event loop runs every request on, MySQL grants the locks it can.
Fairness == \A r \in Request : WF_vars(Proceed(r))

\* Serving only, with nothing failing, but with any overlap of requests.
ServeNext == \E r \in Request : Serve(r) \/ Proceed(r)

ServeSpec == Init /\ [][ServeNext]_vars

FairServeSpec == ServeSpec /\ Fairness

-----------------------------------------------------------------------------
(***************************************************************************)
(* Properties                                                              *)
(***************************************************************************)

\* r has ended or deleted an order of table t, has yet to release t, and will
\* unless it finds an active order there.
Releasing(r, t) ==
  /\ pc[r] \in {"count", "findRelease", "saveTable", "writeTable"}
  /\ op[r] \in {"update", "remove"}
  /\ tbl[r] = t
  /\ pc[r] = "writeTable" => "row" \notin plan[r]

\* A table is never left OCCUPIED with nobody at it: when its last active order
\* is gone, a request is still on its way to release it, or one with a new
\* order is about to commit. Holds however creates, status changes and deletes
\* overlap, because each counts the active orders after its own write
\* (orders.service.ts:147-164, 258-273); no lock protects the two.
NoStuckTable ==
  \A t \in Table : tblStatus[t] = "OCCUPIED" /\ ActiveAt(t) = {} =>
    \E r \in Request : Releasing(r, t) \/ Locks(r, t)

\* ... and so, once requests are served, the table becomes free or is in use
\* by an active order: deadlock victims included, nothing waits for ever.
TablesAreReleased ==
  \A t \in Table :
    tblStatus[t] = "OCCUPIED" /\ ActiveAt(t) = {} ~>
      tblStatus[t] # "OCCUPIED" \/ ActiveAt(t) # {}

\* t is OCCUPIED, nobody sits there and nobody is about to release it.
Left(t) ==
  /\ tblStatus[t] = "OCCUPIED" /\ ActiveAt(t) = {}
  /\ \A r \in Request : ~Releasing(r, t)

\* With everything the system does, a table is left so only by: a payment, which
\* completes the order and leaves the table alone; a PATCH that moves the order
\* away; a PATCH or DELETE that had read the order before it was moved here; an
\* item edit that saves an older, ended status; a request that stops or falls to a
\* deadlock on its way to release it; and the staff, who make it OCCUPIED
\* (payment.service.ts:131-134, orders.service.ts:140-164, 251-273).
LeftTableIsExplained ==
  [][\A t \in Table : Left(t)' =>
       \/ Left(t)
       \/ \E o \in Order : Settle(o) /\ ordTable[o] = t
       \/ \E r \in Request :
            \/ /\ UpdateOrder(r) \/ RemoveDelete(r)
               /\ ordTable[ord[r]] = t /\ (tbl[r] # t \/ op[r] = "item")
            \/ (Stop(r) \/ Deadlock(r)) /\ Releasing(r, t)
            \/ (UpdateTable(r) \/ ReinsertTable(r)) /\ op[r] = "tableUpdate" /\ tbl[r] = t
            \/ TableInsert(r, t, "OCCUPIED")]_vars

\* An order that create seated at a table is seen there for as long as it is
\* active: the table stays OCCUPIED whatever ends, leaves or is deleted at it,
\* unless the order was committed after a release had counted or on a snapshot
\* from before one, or came to the table otherwise than by create, or the staff
\* have set the table's status since (orders.service.ts:60-99, 147-164, 258-273).
SeatedOrderIsSeen ==
  \A o \in Order :
    ordStatus[o] \in Active /\ came[o] = "seated" /\ ordTable[o] # None =>
      tblStatus[ordTable[o]] = "OCCUPIED"

\* Every request ends, also when it must wait for the lock of another.
RequestsAreAnswered ==
  \A r \in Request : pc[r] # "new" ~> pc[r] = "done"

=============================================================================
