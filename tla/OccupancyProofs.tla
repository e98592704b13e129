--------------------------- MODULE OccupancyProofs --------------------------
(***************************************************************************)
(* Proofs about Occupancy, for any number of tables, orders and requests.  *)
(***************************************************************************)
EXTENDS Occupancy, TLAPS

\* What a request holds at each call.
ShapeOK ==
  \A r \in Request :
    /\ pc[r] \in {"occupy", "findTable", "saveOrder", "writeOrder", "deleteOrder"} =>
         ord[r] \in Order
    /\ pc[r] \in {"findTable", "count", "findRelease", "saveTable", "writeTable",
                  "deleteTable"} => tbl[r] \in Table
    /\ pc[r] \in {"findTable", "saveOrder", "writeOrder"} => st[r] \in OrderStatus
    /\ pc[r] \in {"findRelease", "saveTable", "writeTable"} => tst[r] \in TableStatus

\* The shared lock keeps the table of an uncommitted order from being deleted.
LockedTableExists ==
  \A r \in Request : pc[r] = "occupy" => Refers(tbl[r])

\* No order refers to a table that is gone.
OrderTableExists == \A o \in Order : Refers(ordTable[o])

\* The invariant on which the others rest.
IFull == TypeOK /\ ShapeOK /\ LockedTableExists /\ OrderTableExists

\* While requests are only served: which handlers run, and that no table is
\* ever deleted, so that releasing one is always an UPDATE to EMPTY.
ServeOK ==
  \A r \in Request :
    /\ pc[r] \in {"saveOrder", "writeOrder"} => op[r] = "update"
    /\ pc[r] = "deleteOrder" => op[r] = "remove"
    /\ pc[r] \in {"count", "findRelease", "saveTable", "writeTable"} =>
         op[r] \in {"update", "remove"}
    /\ pc[r] \in {"findRelease", "saveTable", "writeTable"} => tst[r] = "EMPTY"
    /\ pc[r] = "writeTable" => "row" \notin plan[r]
    /\ pc[r] \notin {"findTable", "deleteTable"}
    /\ Refers(tbl[r])

\* An order that is not committed is known to its own request only.
FreshOK ==
  /\ \A r \in Request : ord[r] # None => ord[r] \in used
  /\ \A o \in Order : OrderExists(o) => o \in used
  /\ \A r, q \in Request : pc[r] = "occupy" =>
       /\ ~OrderExists(ord[r])
       /\ q # r /\ ord[q] = ord[r] => pc[q] = "done"

HoldsOrder(r) == pc[r] \in {"saveOrder", "writeOrder", "deleteOrder"}

\* A request's idea of the table of its order is never stale: serving moves no
\* order, and whoever restores a deleted order restores it to the same table.
TableKnown ==
  /\ \A r \in Request : HoldsOrder(r) /\ OrderExists(ord[r]) => ordTable[ord[r]] = tbl[r]
  /\ \A r, q \in Request : HoldsOrder(r) /\ HoldsOrder(q) /\ ord[r] = ord[q] =>
       tbl[r] = tbl[q]

\* The inductive invariant of serving, apart from IFull.
Served == ServeOK /\ FreshOK /\ TableKnown /\ NoStuckTable

-----------------------------------------------------------------------------

LEMMA InitIFull == Init => IFull
BY NoneAssumption
DEF Init, IFull, TypeOK, ShapeOK, LockedTableExists, OrderTableExists, Refers, Ways,
    OrderStatus, TableStatus, Labels, Ops, Absent

LEMMA FullStep == IFull /\ [Next]_vars => IFull'
<1> SUFFICES ASSUME IFull, [Next]_vars PROVE IFull'
  OBVIOUS
<1> USE NoneAssumption, InputAssumption
    DEF Arrive, Goto, db, entity, TableExists, OrderExists, Refers, Absent,
         Locks, OrderStatus, TableStatus, Labels, Ops, Ways, Came, Terminal, AfterSave, TypeOK,
         ShapeOK, LockedTableExists, OrderTableExists, IFull
<1>1. ASSUME NEW r \in Request, NEW t \in Table \cup {None}, CreateRead(r, t)
      PROVE  IFull'
  BY <1>1 DEF CreateRead
<1>2. ASSUME NEW r \in Request, NEW o \in Order, RemoveLoad(r, o)
      PROVE  IFull'
  BY <1>2 DEF RemoveLoad
<1>3. ASSUME NEW r \in Request, NEW o \in Order, NEW s \in PatchInput \cup {None},
            NEW t \in Table \cup {None}, UpdateLoad(r, o, s, t)
      PROVE  IFull'
  BY <1>3 DEF UpdateLoad
<1>4. ASSUME NEW r \in Request, NEW o \in Order, ItemLoad(r, o)
      PROVE  IFull'
  BY <1>4 DEF ItemLoad
<1>5. ASSUME NEW r \in Request, NEW t \in Table, TableRemoveLoad(r, t)
      PROVE  IFull'
  BY <1>5 DEF TableRemoveLoad
<1>6. ASSUME NEW r \in Request, NEW t \in Table, NEW s \in TableInput \cup {None},
            TableUpdateLoad(r, t, s)
      PROVE  IFull'
  BY <1>6 DEF TableUpdateLoad
<1>7. ASSUME NEW r \in Request, NEW t \in Table, NEW s \in TableInput, TableInsert(r, t, s)
      PROVE  IFull'
  BY <1>7 DEF TableInsert
<1>8. ASSUME NEW r \in Request, CreateInsert(r)
      PROVE  IFull'
  BY <1>8 DEF CreateInsert
<1>9. ASSUME NEW r \in Request, CreateCommit(r)
      PROVE  IFull'
  BY <1>9 DEF CreateCommit
<1>10. ASSUME NEW r \in Request, Deadlock(r)
      PROVE  IFull'
  BY <1>10 DEF Deadlock
<1>11. ASSUME NEW r \in Request, UpdateFindTable(r)
      PROVE  IFull'
  BY <1>11 DEF UpdateFindTable
<1>12. ASSUME NEW r \in Request, ReloadOrder(r)
      PROVE  IFull'
  BY <1>12 DEF ReloadOrder
<1>13. ASSUME NEW r \in Request, UpdateOrder(r)
      PROVE  IFull'
  BY <1>13 DEF UpdateOrder
<1>14. ASSUME NEW r \in Request, ReinsertOrder(r)
      PROVE  IFull'
  BY <1>14 DEF ReinsertOrder
<1>15. ASSUME NEW r \in Request, RemoveDelete(r)
      PROVE  IFull'
  BY <1>15 DEF RemoveDelete
<1>16. ASSUME NEW r \in Request, Count(r)
      PROVE  IFull'
  BY <1>16 DEF Count
<1>17. ASSUME NEW r \in Request, FindRelease(r)
      PROVE  IFull'
  BY <1>17 DEF FindRelease
<1>18. ASSUME NEW r \in Request, ReloadTable(r)
      PROVE  IFull'
  BY <1>18 DEF ReloadTable
<1>19. ASSUME NEW r \in Request, UpdateTable(r)
      PROVE  IFull'
  BY <1>19 DEF UpdateTable
<1>20. ASSUME NEW r \in Request, ReinsertTable(r)
      PROVE  IFull'
  BY <1>20 DEF ReinsertTable
<1>21. ASSUME NEW r \in Request, TableDelete(r)
      PROVE  IFull'
  BY <1>21 DEF TableDelete
<1>22. ASSUME NEW r \in Request, Stop(r)
      PROVE  IFull'
  BY <1>22 DEF Stop
<1>23. ASSUME NEW o \in Order, Settle(o)
      PROVE  IFull'
  BY <1>23 DEF Settle
<1>24. CASE UNCHANGED vars
  BY <1>24 DEF vars
<1> QED
  BY <1>1, <1>2, <1>3, <1>4, <1>5, <1>6, <1>7, <1>8, <1>9, <1>10, <1>11, <1>12,
     <1>13, <1>14, <1>15, <1>16, <1>17, <1>18, <1>19, <1>20, <1>21, <1>22, <1>23, <1>24
  DEF Next, Serve, Manage, Proceed

LEMMA ServeStep == IFull /\ IFull' /\ Served /\ [ServeNext]_vars => Served'
<1> SUFFICES ASSUME IFull, IFull', Served, [ServeNext]_vars PROVE Served'
  OBVIOUS
<1> USE NoneAssumption, InputAssumption
    DEF Arrive, Goto, db, entity, TableExists, OrderExists, Refers, Absent,
         Locks, OrderStatus, TableStatus, Labels, Ops, Came, Terminal, AfterSave, TypeOK,
         ShapeOK, LockedTableExists, OrderTableExists, IFull,
         Served, ServeOK, FreshOK, TableKnown, HoldsOrder, NoStuckTable,
         Releasing, ActiveAt, Active, Upgrades, Overwrites
<1>1. ASSUME NEW r \in Request, NEW t \in Table \cup {None}, CreateRead(r, t)
      PROVE  Served'
  BY <1>1 DEF CreateRead
<1>2. ASSUME NEW r \in Request, NEW o \in Order, RemoveLoad(r, o)
      PROVE  Served'
  BY <1>2 DEF RemoveLoad
<1>3. ASSUME NEW r \in Request, NEW o \in Order, NEW s \in PatchInput,
            UpdateLoad(r, o, s, None)
      PROVE  Served'
  BY <1>3 DEF UpdateLoad
<1>4. ASSUME NEW r \in Request, CreateInsert(r)
      PROVE  Served'
  <2>1. ServeOK'
    BY <1>4 DEF CreateInsert
  <2>2. FreshOK'
    BY <1>4 DEF CreateInsert
  <2>3. TableKnown'
    BY <1>4 DEF CreateInsert
  <2>4. NoStuckTable'
    BY <1>4 DEF CreateInsert
  <2> QED
    BY <2>1, <2>2, <2>3, <2>4
<1>5. ASSUME NEW r \in Request, CreateCommit(r)
      PROVE  Served'
  <2>1. ServeOK'
    BY <1>5 DEF CreateCommit
  <2>2. FreshOK'
    BY <1>5 DEF CreateCommit
  <2>3. TableKnown'
    BY <1>5 DEF CreateCommit
  <2>4. NoStuckTable'
    BY <1>5 DEF CreateCommit
  <2> QED
    BY <2>1, <2>2, <2>3, <2>4
<1>6. ASSUME NEW r \in Request, Deadlock(r)
      PROVE  Served'
  BY <1>6 DEF Deadlock
<1>7. ASSUME NEW r \in Request, UpdateFindTable(r)
      PROVE  Served'
  <2>1. ServeOK'
    BY <1>7 DEF UpdateFindTable
  <2>2. FreshOK'
    BY <1>7 DEF UpdateFindTable
  <2>3. TableKnown'
    BY <1>7 DEF UpdateFindTable
  <2>4. NoStuckTable'
    BY <1>7 DEF UpdateFindTable
  <2> QED
    BY <2>1, <2>2, <2>3, <2>4
<1>8. ASSUME NEW r \in Request, ReloadOrder(r)
      PROVE  Served'
  <2>1. ServeOK'
    BY <1>8 DEF ReloadOrder
  <2>2. FreshOK'
    BY <1>8 DEF ReloadOrder
  <2>3. TableKnown'
    BY <1>8 DEF ReloadOrder
  <2>4. NoStuckTable'
    BY <1>8 DEF ReloadOrder
  <2> QED
    BY <2>1, <2>2, <2>3, <2>4
<1>9. ASSUME NEW r \in Request, UpdateOrder(r)
      PROVE  Served'
  <2>1. ServeOK'
    BY <1>9 DEF UpdateOrder
  <2>2. FreshOK'
    BY <1>9 DEF UpdateOrder
  <2>3. TableKnown'
    BY <1>9 DEF UpdateOrder
  <2>4. NoStuckTable'
    BY <1>9 DEF UpdateOrder
  <2> QED
    BY <2>1, <2>2, <2>3, <2>4
<1>10. ASSUME NEW r \in Request, ReinsertOrder(r)
      PROVE  Served'
  <2>1. ServeOK'
    BY <1>10 DEF ReinsertOrder
  <2>2. FreshOK'
    BY <1>10 DEF ReinsertOrder
  <2>3. TableKnown'
    BY <1>10 DEF ReinsertOrder
  <2>4. NoStuckTable'
    BY <1>10 DEF ReinsertOrder
  <2> QED
    BY <2>1, <2>2, <2>3, <2>4
<1>11. ASSUME NEW r \in Request, RemoveDelete(r)
      PROVE  Served'
  <2>1. ServeOK'
    BY <1>11 DEF RemoveDelete
  <2>2. FreshOK'
    BY <1>11 DEF RemoveDelete
  <2>3. TableKnown'
    BY <1>11 DEF RemoveDelete
  <2>4. NoStuckTable'
    BY <1>11 DEF RemoveDelete
  <2> QED
    BY <2>1, <2>2, <2>3, <2>4
<1>12. ASSUME NEW r \in Request, Count(r)
      PROVE  Served'
  <2>1. ServeOK'
    BY <1>12 DEF Count
  <2>2. FreshOK'
    BY <1>12 DEF Count
  <2>3. TableKnown'
    BY <1>12 DEF Count
  <2>4. NoStuckTable'
    BY <1>12 DEF Count
  <2> QED
    BY <2>1, <2>2, <2>3, <2>4
<1>13. ASSUME NEW r \in Request, FindRelease(r)
      PROVE  Served'
  BY <1>13 DEF FindRelease
<1>14. ASSUME NEW r \in Request, ReloadTable(r)
      PROVE  Served'
  <2>1. ServeOK'
    BY <1>14 DEF ReloadTable
  <2>2. FreshOK'
    BY <1>14 DEF ReloadTable
  <2>3. TableKnown'
    BY <1>14 DEF ReloadTable
  <2>4. NoStuckTable'
    <3>1. ASSUME tblStatus[tbl[r]] = "OCCUPIED"
          PROVE  pc'[r] = "writeTable" /\ plan'[r] = {"status"}
      <4>1. plan'[r] = {"status"}
        BY <1>14, <3>1 DEF ReloadTable
      <4>2. pc'[r] = IF plan'[r] = {} THEN "done" ELSE "writeTable"
        BY <1>14 DEF ReloadTable
      <4> QED
        BY <4>1, <4>2
    <3>2. pc[r] = "saveTable" /\ UNCHANGED <<tblStatus, ordStatus, ordTable, op, tbl>>
      BY <1>14 DEF ReloadTable
    <3>3. \A q \in Request \ {r} : pc'[q] = pc[q] /\ plan'[q] = plan[q]
      BY <1>14 DEF ReloadTable
    <3> QED
      <4> SUFFICES ASSUME NEW t \in Table, tblStatus[t] = "OCCUPIED", ActiveAt(t) = {}
                   PROVE  \E q \in Request : (Releasing(q, t) \/ Locks(q, t))'
        BY <3>2
      <4>1. PICK q \in Request : Releasing(q, t) \/ Locks(q, t)
        OBVIOUS
      <4> QED
        BY <3>1, <3>2, <3>3, <4>1
  <2> QED
    BY <2>1, <2>2, <2>3, <2>4
<1>15. ASSUME NEW r \in Request, UpdateTable(r)
      PROVE  Served'
  <2>1. ServeOK'
    BY <1>15 DEF UpdateTable
  <2>2. FreshOK'
    BY <1>15 DEF UpdateTable
  <2>3. TableKnown'
    BY <1>15 DEF UpdateTable
  <2>4. NoStuckTable'
    BY <1>15 DEF UpdateTable
  <2> QED
    BY <2>1, <2>2, <2>3, <2>4
<1>16. ASSUME NEW r \in Request, ReinsertTable(r)
      PROVE  Served'
  <2>1. ServeOK'
    BY <1>16 DEF ReinsertTable
  <2>2. FreshOK'
    BY <1>16 DEF ReinsertTable
  <2>3. TableKnown'
    BY <1>16 DEF ReinsertTable
  <2>4. NoStuckTable'
    BY <1>16 DEF ReinsertTable
  <2> QED
    BY <2>1, <2>2, <2>3, <2>4
<1>17. ASSUME NEW r \in Request, TableDelete(r)
      PROVE  Served'
  <2>1. ServeOK'
    BY <1>17 DEF TableDelete
  <2>2. FreshOK'
    BY <1>17 DEF TableDelete
  <2>3. TableKnown'
    BY <1>17 DEF TableDelete
  <2>4. NoStuckTable'
    BY <1>17 DEF TableDelete
  <2> QED
    BY <2>1, <2>2, <2>3, <2>4
<1>18. CASE UNCHANGED vars
  BY <1>18 DEF vars
<1> QED
  BY <1>1, <1>2, <1>3, <1>4, <1>5, <1>6, <1>7, <1>8, <1>9, <1>10, <1>11, <1>12,
     <1>13, <1>14, <1>15, <1>16, <1>17, <1>18
  DEF ServeNext, Serve, Proceed

-----------------------------------------------------------------------------
(***************************************************************************)
(* What the requests know, whatever else goes on                           *)
(***************************************************************************)

\* Which handler a request at each call runs; a release writes EMPTY.
RolesOK ==
  \A r \in Request :
    /\ pc[r] \in {"saveOrder", "writeOrder"} => op[r] \in {"update", "item"}
    /\ pc[r] = "deleteOrder" => op[r] = "remove"
    /\ pc[r] \in {"count", "findRelease"} => op[r] \in {"update", "remove"}
    /\ pc[r] \in {"saveTable", "writeTable"} => op[r] \in {"update", "remove", "tableUpdate"}
    /\ pc[r] = "findTable" => op[r] = "update"
    /\ pc[r] \in {"findRelease", "saveTable", "writeTable"} /\ op[r] # "tableUpdate" =>
         tst[r] = "EMPTY"

UsedOK ==
  /\ \A t \in Table : TableExists(t) => t \in used
  /\ \A r \in Request :
       tbl[r] # None /\ pc[r] \notin {"findTable", "done"} => tbl[r] \in used

\* Past its count a release knows of no order that create has seated.
CountedOK ==
  \A r \in Request, o \in Order :
    ordStatus[o] \in Active /\ ordTable[o] # None /\ Counted(r, ordTable[o]) =>
      came[o] # "seated"

Known == RolesOK /\ UsedOK /\ FreshOK

\* Every step keeps it.
LEMMA KnownStep ==
  ASSUME IFull, Known, [Next]_vars
  PROVE  Known'
<1> USE NoneAssumption, InputAssumption
    DEF Arrive, Goto, db, entity, TableExists, OrderExists, Refers, Absent,
        Locks, OrderStatus, TableStatus, Labels, Ops, Ways, Came, Terminal, AfterSave,
        TypeOK, ShapeOK, LockedTableExists, OrderTableExists, IFull, Active,
        Known, RolesOK, UsedOK, FreshOK
<1>1. ASSUME NEW r \in Request, NEW t \in Table \cup {None}, CreateRead(r, t)
      PROVE  Known'
  BY <1>1 DEF CreateRead
<1>2. ASSUME NEW r \in Request, NEW o \in Order, RemoveLoad(r, o)
      PROVE  Known'
  BY <1>2 DEF RemoveLoad
<1>3. ASSUME NEW r \in Request, NEW o \in Order, NEW s \in PatchInput \cup {None},
             NEW t \in Table \cup {None}, UpdateLoad(r, o, s, t)
      PROVE  Known'
  BY <1>3 DEF UpdateLoad
<1>4. ASSUME NEW r \in Request, NEW o \in Order, ItemLoad(r, o)
      PROVE  Known'
  BY <1>4 DEF ItemLoad
<1>5. ASSUME NEW r \in Request, NEW t \in Table, TableRemoveLoad(r, t)
      PROVE  Known'
  BY <1>5 DEF TableRemoveLoad
<1>6. ASSUME NEW r \in Request, NEW t \in Table, NEW s \in TableInput \cup {None},
             TableUpdateLoad(r, t, s)
      PROVE  Known'
  BY <1>6 DEF TableUpdateLoad
<1>7. ASSUME NEW r \in Request, NEW t \in Table, NEW s \in TableInput, TableInsert(r, t, s)
      PROVE  Known'
  BY <1>7 DEF TableInsert
<1>8. ASSUME NEW r \in Request, CreateInsert(r)
      PROVE  Known'
  BY <1>8 DEF CreateInsert
<1>9. ASSUME NEW r \in Request, CreateCommit(r)
      PROVE  Known'
  BY <1>9 DEF CreateCommit
<1>10. ASSUME NEW r \in Request, Deadlock(r)
      PROVE  Known'
  BY <1>10 DEF Deadlock
<1>11. ASSUME NEW r \in Request, UpdateFindTable(r)
      PROVE  Known'
  BY <1>11 DEF UpdateFindTable
<1>12. ASSUME NEW r \in Request, ReloadOrder(r)
      PROVE  Known'
  BY <1>12 DEF ReloadOrder
<1>13. ASSUME NEW r \in Request, UpdateOrder(r)
      PROVE  Known'
  BY <1>13 DEF UpdateOrder
<1>14. ASSUME NEW r \in Request, ReinsertOrder(r)
      PROVE  Known'
  BY <1>14 DEF ReinsertOrder
<1>15. ASSUME NEW r \in Request, RemoveDelete(r)
      PROVE  Known'
  BY <1>15 DEF RemoveDelete
<1>16. ASSUME NEW r \in Request, Count(r)
      PROVE  Known'
  BY <1>16 DEF Count
<1>17. ASSUME NEW r \in Request, FindRelease(r)
      PROVE  Known'
  BY <1>17 DEF FindRelease
<1>18. ASSUME NEW r \in Request, ReloadTable(r)
      PROVE  Known'
  BY <1>18 DEF ReloadTable
<1>19. ASSUME NEW r \in Request, UpdateTable(r)
      PROVE  Known'
  BY <1>19 DEF UpdateTable
<1>20. ASSUME NEW r \in Request, ReinsertTable(r)
      PROVE  Known'
  BY <1>20 DEF ReinsertTable
<1>21. ASSUME NEW r \in Request, TableDelete(r)
      PROVE  Known'
  BY <1>21 DEF TableDelete
<1>22. ASSUME NEW r \in Request, Stop(r)
      PROVE  Known'
  BY <1>22 DEF Stop
<1>23. ASSUME NEW o \in Order, Settle(o)
      PROVE  Known'
  BY <1>23 DEF Settle
<1>24. CASE UNCHANGED vars
  BY <1>24 DEF vars
<1> QED
  BY <1>1, <1>2, <1>3, <1>4, <1>5, <1>6, <1>7, <1>8, <1>9, <1>10, <1>11, <1>12, <1>13, <1>14, <1>15, <1>16, <1>17, <1>18, <1>19, <1>20, <1>21, <1>22, <1>23, <1>24
  DEF Next, Serve, Manage, Proceed

\* A seated order is seen, and no release that has counted knows of one.
LEMMA SeatedStep ==
  ASSUME IFull, IFull', Known, SeatedOrderIsSeen, CountedOK, [Next]_vars
  PROVE  (SeatedOrderIsSeen /\ CountedOK)'
<1> USE NoneAssumption, InputAssumption
    DEF Arrive, Goto, db, entity, TableExists, OrderExists, Refers, Absent,
        Locks, OrderStatus, TableStatus, Labels, Ops, Ways, Came, Terminal, AfterSave,
        TypeOK, ShapeOK, LockedTableExists, OrderTableExists, IFull, Active,
        Known, RolesOK, UsedOK, Counted, ActiveAt, SeatedOrderIsSeen, CountedOK
<1>1. ASSUME NEW r \in Request, NEW t \in Table \cup {None}, CreateRead(r, t)
      PROVE  (SeatedOrderIsSeen /\ CountedOK)'
  BY <1>1 DEF CreateRead
<1>2. ASSUME NEW r \in Request, NEW o \in Order, RemoveLoad(r, o)
      PROVE  (SeatedOrderIsSeen /\ CountedOK)'
  BY <1>2 DEF RemoveLoad
<1>3. ASSUME NEW r \in Request, NEW o \in Order, NEW s \in PatchInput \cup {None},
             NEW t \in Table \cup {None}, UpdateLoad(r, o, s, t)
      PROVE  (SeatedOrderIsSeen /\ CountedOK)'
  BY <1>3 DEF UpdateLoad
<1>4. ASSUME NEW r \in Request, NEW o \in Order, ItemLoad(r, o)
      PROVE  (SeatedOrderIsSeen /\ CountedOK)'
  BY <1>4 DEF ItemLoad
<1>5. ASSUME NEW r \in Request, NEW t \in Table, TableRemoveLoad(r, t)
      PROVE  (SeatedOrderIsSeen /\ CountedOK)'
  BY <1>5 DEF TableRemoveLoad
<1>6. ASSUME NEW r \in Request, NEW t \in Table, NEW s \in TableInput \cup {None},
             TableUpdateLoad(r, t, s)
      PROVE  (SeatedOrderIsSeen /\ CountedOK)'
  BY <1>6 DEF TableUpdateLoad
<1>7. ASSUME NEW r \in Request, NEW t \in Table, NEW s \in TableInput, TableInsert(r, t, s)
      PROVE  (SeatedOrderIsSeen /\ CountedOK)'
  BY <1>7 DEF TableInsert
<1>8. ASSUME NEW r \in Request, CreateInsert(r)
      PROVE  (SeatedOrderIsSeen /\ CountedOK)'
  BY <1>8 DEF CreateInsert
<1>9. ASSUME NEW r \in Request, CreateCommit(r)
      PROVE  (SeatedOrderIsSeen /\ CountedOK)'
  BY <1>9 DEF CreateCommit
<1>10. ASSUME NEW r \in Request, Deadlock(r)
      PROVE  (SeatedOrderIsSeen /\ CountedOK)'
  BY <1>10 DEF Deadlock
<1>11. ASSUME NEW r \in Request, UpdateFindTable(r)
      PROVE  (SeatedOrderIsSeen /\ CountedOK)'
  BY <1>11 DEF UpdateFindTable
<1>12. ASSUME NEW r \in Request, ReloadOrder(r)
      PROVE  (SeatedOrderIsSeen /\ CountedOK)'
  BY <1>12 DEF ReloadOrder
<1>13. ASSUME NEW r \in Request, UpdateOrder(r)
      PROVE  (SeatedOrderIsSeen /\ CountedOK)'
  BY <1>13 DEF UpdateOrder
<1>14. ASSUME NEW r \in Request, ReinsertOrder(r)
      PROVE  (SeatedOrderIsSeen /\ CountedOK)'
  BY <1>14 DEF ReinsertOrder
<1>15. ASSUME NEW r \in Request, RemoveDelete(r)
      PROVE  (SeatedOrderIsSeen /\ CountedOK)'
  BY <1>15 DEF RemoveDelete
<1>16. ASSUME NEW r \in Request, Count(r)
      PROVE  (SeatedOrderIsSeen /\ CountedOK)'
  BY <1>16 DEF Count
<1>17. ASSUME NEW r \in Request, FindRelease(r)
      PROVE  (SeatedOrderIsSeen /\ CountedOK)'
  BY <1>17 DEF FindRelease
<1>18. ASSUME NEW r \in Request, ReloadTable(r)
      PROVE  (SeatedOrderIsSeen /\ CountedOK)'
  BY <1>18 DEF ReloadTable
<1>19. ASSUME NEW r \in Request, UpdateTable(r)
      PROVE  (SeatedOrderIsSeen /\ CountedOK)'
  BY <1>19 DEF UpdateTable
<1>20. ASSUME NEW r \in Request, ReinsertTable(r)
      PROVE  (SeatedOrderIsSeen /\ CountedOK)'
  BY <1>20 DEF ReinsertTable
<1>21. ASSUME NEW r \in Request, TableDelete(r)
      PROVE  (SeatedOrderIsSeen /\ CountedOK)'
  BY <1>21 DEF TableDelete
<1>22. ASSUME NEW r \in Request, Stop(r)
      PROVE  (SeatedOrderIsSeen /\ CountedOK)'
  BY <1>22 DEF Stop
<1>23. ASSUME NEW o \in Order, Settle(o)
      PROVE  (SeatedOrderIsSeen /\ CountedOK)'
  BY <1>23 DEF Settle
<1>24. CASE UNCHANGED vars
  BY <1>24 DEF vars
<1> QED
  BY <1>1, <1>2, <1>3, <1>4, <1>5, <1>6, <1>7, <1>8, <1>9, <1>10, <1>11, <1>12, <1>13, <1>14, <1>15, <1>16, <1>17, <1>18, <1>19, <1>20, <1>21, <1>22, <1>23, <1>24
  DEF Next, Serve, Manage, Proceed

\* What LeftTableIsExplained allows.
Explained(t) ==
  \/ Left(t)
  \/ \E o \in Order : Settle(o) /\ ordTable[o] = t
  \/ \E r \in Request :
       \/ /\ UpdateOrder(r) \/ RemoveDelete(r)
          /\ ordTable[ord[r]] = t /\ (tbl[r] # t \/ op[r] = "item")
       \/ (Stop(r) \/ Deadlock(r)) /\ Releasing(r, t)
       \/ (UpdateTable(r) \/ ReinsertTable(r)) /\ op[r] = "tableUpdate" /\ tbl[r] = t
       \/ TableInsert(r, t, "OCCUPIED")

\* Nothing else leaves a table.
LEMMA LeftStep ==
  ASSUME IFull, IFull', Known, NEW u \in Table, Left(u)', [Next]_vars
  PROVE  Explained(u)
<1>e. \A r \in Request : (Stop(r) \/ Deadlock(r)) /\ Releasing(r, u) => Explained(u)
  BY DEF Explained
<1>t. \A r \in Request : (UpdateTable(r) \/ ReinsertTable(r)) /\ op[r] = "tableUpdate" /\ tbl[r] = u
        => Explained(u)
  BY DEF Explained
<1>m. \A r \in Request : RemoveDelete(r) /\ ordTable[ord[r]] = u /\ tbl[r] # u => Explained(u)
  BY DEF Explained
<1>s. \A o \in Order : Settle(o) /\ ordTable[o] = u => Explained(u)
  BY DEF Explained
<1>i. \A r \in Request : TableInsert(r, u, "OCCUPIED") => Explained(u)
  BY DEF Explained
<1>l. Left(u) => Explained(u)
  BY DEF Explained
<1> USE NoneAssumption, InputAssumption
    DEF Arrive, Goto, db, entity, TableExists, OrderExists, Refers, Absent,
        Locks, OrderStatus, TableStatus, Labels, Ops, Ways, Came, Terminal, AfterSave,
        TypeOK, ShapeOK, LockedTableExists, OrderTableExists, IFull, Active,
        Known, RolesOK, FreshOK, ActiveAt, Releasing, Left
<1>1. ASSUME NEW r \in Request, NEW t \in Table \cup {None}, CreateRead(r, t)
      PROVE  Explained(u)
  BY <1>1, <1>l DEF CreateRead
<1>2. ASSUME NEW r \in Request, NEW o \in Order, RemoveLoad(r, o)
      PROVE  Explained(u)
  BY <1>2, <1>l DEF RemoveLoad
<1>3. ASSUME NEW r \in Request, NEW o \in Order, NEW s \in PatchInput \cup {None},
             NEW t \in Table \cup {None}, UpdateLoad(r, o, s, t)
      PROVE  Explained(u)
  BY <1>3, <1>l DEF UpdateLoad
<1>4. ASSUME NEW r \in Request, NEW o \in Order, ItemLoad(r, o)
      PROVE  Explained(u)
  BY <1>4, <1>l DEF ItemLoad
<1>5. ASSUME NEW r \in Request, NEW t \in Table, TableRemoveLoad(r, t)
      PROVE  Explained(u)
  BY <1>5, <1>l DEF TableRemoveLoad
<1>6. ASSUME NEW r \in Request, NEW t \in Table, NEW s \in TableInput \cup {None},
             TableUpdateLoad(r, t, s)
      PROVE  Explained(u)
  BY <1>6, <1>l DEF TableUpdateLoad
<1>7. ASSUME NEW r \in Request, NEW t \in Table, NEW s \in TableInput, TableInsert(r, t, s)
      PROVE  Explained(u)
  <2>1. CASE t = u
    <3>1. s = "OCCUPIED"
      BY <1>7, <2>1 DEF TableInsert
    <3> QED
      BY <1>7, <1>i, <2>1, <3>1
  <2>2. CASE t # u
    <3>1. Left(u)
      BY <1>7, <2>2 DEF TableInsert
    <3> QED
      BY <1>l, <3>1
  <2> QED
    BY <2>1, <2>2
<1>8. ASSUME NEW r \in Request, CreateInsert(r)
      PROVE  Explained(u)
  BY <1>8, <1>l DEF CreateInsert
<1>9. ASSUME NEW r \in Request, CreateCommit(r)
      PROVE  Explained(u)
  BY <1>9, <1>l DEF CreateCommit
<1>10. ASSUME NEW r \in Request, Deadlock(r)
      PROVE  Explained(u)
  <2>1. UNCHANGED <<tblStatus, ordStatus, ordTable, op, tbl, plan>>
    BY <1>10 DEF Deadlock
  <2>2. \A q \in Request \ {r} : pc'[q] = pc[q]
    BY <1>10 DEF Deadlock
  <2>3. ~Releasing(r, u) => Left(u)
    BY <2>1, <2>2
  <2> QED
    BY <1>10, <1>e, <1>l, <2>3
<1>11. ASSUME NEW r \in Request, UpdateFindTable(r)
      PROVE  Explained(u)
  BY <1>11, <1>l DEF UpdateFindTable
<1>12. ASSUME NEW r \in Request, ReloadOrder(r)
      PROVE  Explained(u)
  BY <1>12, <1>l DEF ReloadOrder
<1>13. ASSUME NEW r \in Request, UpdateOrder(r)
      PROVE  Explained(u)
  BY <1>13 DEF UpdateOrder, Explained
<1>14. ASSUME NEW r \in Request, ReinsertOrder(r)
      PROVE  Explained(u)
  BY <1>14, <1>l DEF ReinsertOrder
<1>15. ASSUME NEW r \in Request, RemoveDelete(r)
      PROVE  Explained(u)
  <2> DEFINE o == ord[r]
  <2>1. /\ pc[r] = "deleteOrder" /\ o \in Order /\ op[r] = "remove"
        /\ ordStatus' = [ordStatus EXCEPT ![o] = "ABSENT"]
        /\ ordTable' = [ordTable EXCEPT ![o] = None]
        /\ pc' = [pc EXCEPT ![r] = IF tbl[r] = None THEN "done" ELSE "count"]
        /\ UNCHANGED <<tblStatus, op, tbl, plan>>
    BY <1>15 DEF RemoveDelete
  <2>2. CASE ordTable[o] = u /\ tbl[r] # u
    BY <1>15, <1>m, <2>2
  <2>3. CASE ordTable[o] = u /\ tbl[r] = u
    <3>1. pc'[r] = "count"
      BY <2>1, <2>3
    <3>2. Releasing(r, u)'
      BY <2>1, <2>3, <3>1
    <3> QED
      BY <3>2
  <2>4. CASE ordTable[o] # u
    <3>1. ActiveAt(u)' = ActiveAt(u)
      BY <2>1, <2>4
    <3>2. \A q \in Request : ~Releasing(q, u)
      BY <2>1
    <3> QED
      BY <1>l, <2>1, <3>1, <3>2
  <2> QED
    BY <2>2, <2>3, <2>4
<1>16. ASSUME NEW r \in Request, Count(r)
      PROVE  Explained(u)
  BY <1>16, <1>l DEF Count
<1>17. ASSUME NEW r \in Request, FindRelease(r)
      PROVE  Explained(u)
  BY <1>17, <1>l DEF FindRelease
<1>18. ASSUME NEW r \in Request, ReloadTable(r)
      PROVE  Explained(u)
  <2> DEFINE t == tbl[r]
             p == IF ~TableExists(t) THEN {"row"}
                  ELSE IF tblStatus[t] # tst[r] THEN {"status"} ELSE {}
  <2>1. /\ pc[r] = "saveTable" /\ plan' = [plan EXCEPT ![r] = p]
        /\ pc' = [pc EXCEPT ![r] = IF plan'[r] = {} THEN "done" ELSE "writeTable"]
        /\ UNCHANGED <<tblStatus, ordStatus, ordTable, op, tbl>>
    BY <1>18 DEF ReloadTable
  <2>2. \A q \in Request \ {r} : pc'[q] = pc[q] /\ plan'[q] = plan[q]
    BY <2>1
  <2>3. Releasing(r, u) => Releasing(r, u)'
    <3> SUFFICES ASSUME Releasing(r, u) PROVE Releasing(r, u)'
      OBVIOUS
    <3>1. t = u /\ tst[r] = "EMPTY" /\ tblStatus[u] = "OCCUPIED"
      BY <2>1
    <3>2. p = {"status"}
      BY <3>1
    <3>3. plan'[r] = {"status"} /\ pc'[r] = "writeTable"
      BY <2>1, <3>2
    <3> QED
      BY <2>1, <3>1, <3>3
  <2>4. Left(u)
    <3>1. \A q \in Request \ {r} : Releasing(q, u)' <=> Releasing(q, u)
      BY <2>1, <2>2
    <3>2. tblStatus[u] = "OCCUPIED" /\ ActiveAt(u) = {} /\ \A q \in Request : ~Releasing(q, u)'
      <4>1. tblStatus'[u] = "OCCUPIED" /\ ActiveAt(u)' = {}
            /\ \A q \in Request : ~Releasing(q, u)'
        BY DEF Left
      <4>2. ActiveAt(u)' = ActiveAt(u)
        BY <2>1
      <4> HIDE DEF Releasing, ActiveAt, Left
      <4> QED
        BY <2>1, <4>1, <4>2
    <3>3. \A q \in Request : ~Releasing(q, u)
      BY <2>3, <3>1, <3>2
    <3> QED
      BY <3>2, <3>3
  <2> QED
    BY <1>l, <2>4
<1>19. ASSUME NEW r \in Request, UpdateTable(r)
      PROVE  Explained(u)
  <2>1. /\ pc[r] = "writeTable" /\ tbl[r] \in Table /\ UNCHANGED <<ordStatus, ordTable, op, tbl, plan>>
        /\ \A q \in Request \ {r} : pc'[q] = pc[q]
        /\ op[r] \in {"update", "remove", "tableUpdate"}
    BY <1>19 DEF UpdateTable
  <2>2. CASE op[r] = "tableUpdate" /\ tbl[r] = u
    BY <1>19, <1>t, <2>2
  <2>3. CASE tbl[r] # u
    <3>1. tblStatus'[u] = tblStatus[u]
      BY <1>19, <2>1, <2>3 DEF UpdateTable
    <3>2. ~Releasing(r, u)
      BY <2>3
    <3> QED
      BY <1>l, <2>1, <3>1, <3>2
  <2>4. CASE tbl[r] = u /\ op[r] # "tableUpdate"
    <3>1. tst[r] = "EMPTY"
      BY <2>1, <2>4
    <3>2. tblStatus'[u] # "OCCUPIED"
      BY <1>19, <2>4, <3>1 DEF UpdateTable
    <3> QED
      BY <3>2
  <2> QED
    BY <2>2, <2>3, <2>4
<1>20. ASSUME NEW r \in Request, ReinsertTable(r)
      PROVE  Explained(u)
  <2>1. /\ pc[r] = "writeTable" /\ tbl[r] \in Table /\ UNCHANGED <<ordStatus, ordTable, op, tbl, plan>>
        /\ \A q \in Request \ {r} : pc'[q] = pc[q]
        /\ op[r] \in {"update", "remove", "tableUpdate"}
    BY <1>20 DEF ReinsertTable
  <2>2. CASE op[r] = "tableUpdate" /\ tbl[r] = u
    BY <1>20, <1>t, <2>2
  <2>3. CASE tbl[r] # u
    <3>1. tblStatus'[u] = tblStatus[u]
      BY <1>20, <2>1, <2>3 DEF ReinsertTable
    <3>2. ~Releasing(r, u)
      BY <2>3
    <3> QED
      BY <1>l, <2>1, <3>1, <3>2
  <2>4. CASE tbl[r] = u /\ op[r] # "tableUpdate"
    <3>1. tst[r] = "EMPTY" /\ "row" \in plan[r]
      BY <1>20, <2>1, <2>4 DEF ReinsertTable
    <3>2. tblStatus'[u] = tblStatus[u] \/ tblStatus'[u] = "EMPTY"
      BY <1>20, <2>4, <3>1 DEF ReinsertTable
    <3>3. ~Releasing(r, u)
      BY <2>1, <3>1
    <3> QED
      BY <1>l, <2>1, <3>2, <3>3
  <2> QED
    BY <2>2, <2>3, <2>4
<1>21. ASSUME NEW r \in Request, TableDelete(r)
      PROVE  Explained(u)
  BY <1>21, <1>l DEF TableDelete
<1>22. ASSUME NEW r \in Request, Stop(r)
      PROVE  Explained(u)
  <2>1. UNCHANGED <<tblStatus, ordStatus, ordTable, op, tbl, plan>>
    BY <1>22 DEF Stop
  <2>2. \A q \in Request \ {r} : pc'[q] = pc[q]
    BY <1>22 DEF Stop
  <2>3. ~Releasing(r, u) => Left(u)
    BY <2>1, <2>2
  <2> QED
    BY <1>22, <1>e, <1>l, <2>3
<1>23. ASSUME NEW o \in Order, Settle(o)
      PROVE  Explained(u)
  <2>1. ordStatus' = [ordStatus EXCEPT ![o] = "COMPLETED"]
        /\ UNCHANGED <<tblStatus, ordTable, pc, op, tbl, plan>>
    BY <1>23 DEF Settle
  <2>2. CASE ordTable[o] = u
    BY <1>23, <1>s, <2>2
  <2>3. CASE ordTable[o] # u
    <3>1. ActiveAt(u)' = ActiveAt(u)
      BY <2>1, <2>3
    <3>2. Left(u)
      BY <2>1, <3>1
    <3> QED
      BY <1>l, <3>2
  <2> QED
    BY <2>2, <2>3
<1>24. CASE UNCHANGED vars
  BY <1>24, <1>l DEF vars
<1> QED
  BY <1>1, <1>2, <1>3, <1>4, <1>5, <1>6, <1>7, <1>8, <1>9, <1>10, <1>11, <1>12, <1>13, <1>14, <1>15, <1>16, <1>17, <1>18, <1>19, <1>20, <1>21, <1>22, <1>23, <1>24
  DEF Next, Serve, Manage, Proceed

-----------------------------------------------------------------------------

LEMMA FullInvariance == Spec => []IFull
BY InitIFull, FullStep, PTL DEF Spec

\* Every variable keeps its type.
THEOREM TypesHold == Spec => []TypeOK
<1>1. IFull => TypeOK
  BY DEF IFull
<1> QED
  BY <1>1, FullInvariance, PTL

\* An order that create seated is seen at its table while it is active, for any
\* number of tables, orders and requests, and whatever they and failures do.
THEOREM SeatedOrdersAreSeen == Spec => []SeatedOrderIsSeen
<1>1. Init => Known /\ SeatedOrderIsSeen /\ CountedOK
  BY NoneAssumption DEF Init, Known, RolesOK, UsedOK, FreshOK, SeatedOrderIsSeen, CountedOK,
    Counted, TableExists, OrderExists, Absent, Active
<1>2. /\ IFull /\ IFull' /\ Known /\ SeatedOrderIsSeen /\ CountedOK /\ [Next]_vars
      => (Known /\ SeatedOrderIsSeen /\ CountedOK)'
  BY KnownStep, SeatedStep
<1> QED
  BY <1>1, <1>2, FullInvariance, PTL DEF Spec

\* A table is left OCCUPIED with nobody at it, and nobody about to release it, by
\* nothing but what the property names.
THEOREM LeftTablesAreExplained == Spec => LeftTableIsExplained
<1>1. Init => Known
  BY NoneAssumption DEF Init, Known, RolesOK, UsedOK, FreshOK, TableExists, OrderExists, Absent
<1>2. IFull /\ Known /\ [Next]_vars => Known'
  BY KnownStep
<1>3. IFull /\ IFull' /\ Known /\ [Next]_vars => [\A t \in Table : Left(t)' => Explained(t)]_vars
  BY LeftStep
<1>4. [\A t \in Table : Left(t)' => Explained(t)]_vars
      => [\A t \in Table : Left(t)' =>
            \/ Left(t)
            \/ \E o \in Order : Settle(o) /\ ordTable[o] = t
            \/ \E r \in Request :
                 \/ /\ UpdateOrder(r) \/ RemoveDelete(r)
                    /\ ordTable[ord[r]] = t /\ (tbl[r] # t \/ op[r] = "item")
                 \/ (Stop(r) \/ Deadlock(r)) /\ Releasing(r, t)
                 \/ (UpdateTable(r) \/ ReinsertTable(r)) /\ op[r] = "tableUpdate" /\ tbl[r] = t
                 \/ TableInsert(r, t, "OCCUPIED")]_vars
  BY DEF Explained
<1> QED
  BY <1>1, <1>2, <1>3, <1>4, FullInvariance, PTL DEF Spec, LeftTableIsExplained

-----------------------------------------------------------------------------

LEMMA InitServed == Init => Served
BY NoneAssumption
DEF Init, Served, ServeOK, FreshOK, TableKnown, HoldsOrder, NoStuckTable, Refers,
    OrderExists, Absent

LEMMA ServingIsASpecialCase == [ServeNext]_vars => [Next]_vars
BY DEF ServeNext, Next

\* An OCCUPIED table without an active order always has a request on its way
\* to release it or to commit a new order, for any overlap of creates, status
\* changes and deletes.
THEOREM NoTableIsStuck == ServeSpec => []NoStuckTable
<1>1. Init => IFull /\ Served
  BY InitIFull, InitServed
<1>2. IFull /\ Served /\ [ServeNext]_vars => (IFull /\ Served)'
  BY FullStep, ServeStep, ServingIsASpecialCase
<1>3. Served => NoStuckTable
  BY DEF Served
<1> QED
  BY <1>1, <1>2, <1>3, PTL DEF ServeSpec

=============================================================================
