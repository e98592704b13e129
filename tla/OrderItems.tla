----------------------------- MODULE OrderItems -----------------------------
(***************************************************************************)
(* The lines and the total of an order: OrdersService                      *)
(* (src/backend/src/orders) over the products of Catalog. Tables are       *)
(* Occupancy's subject and do not appear.                                  *)
(*                                                                         *)
(* A handler reads the order with its lines, changes the entity and saves  *)
(* it. The save reads the rows again (Reload), and one transaction then    *)
(* writes what differed (Write): columns of the order, lines the entity    *)
(* has and the database has not (INSERT), lines with another quantity, and *)
(* lines the database has and the entity has not, which it does not delete *)
(* but cuts off (order_id := NULL).                                        *)
(***************************************************************************)
EXTENDS Catalog, FiniteSets, Functions

CONSTANTS
  Order, Item, Request,
  Quantity,   \* the quantities clients order
  PatchInput, \* the statuses clients send
  NewLines    \* bound: lines of a new order

Gone     == "GONE"      \* home of a line that has no row
Loose    == "LOOSE"     \* home of a row without order
Status   == {"PENDING", "CONFIRMED", "PREPARING", "COMPLETED", "CANCELLED"}

ASSUME QuantityAssumption == Quantity \subseteq Nat \ {0}
ASSUME HomeAssumption == Gone \notin Order /\ Loose \notin Order /\ None \notin Product \cup Order \cup Item
\* Ids are INT columns.
ASSUME ItemAssumption == IsFiniteSet(Item)
ASSUME InputAssumption == PatchInput \subseteq Status /\ NewLines \in Nat

VARIABLES
  orders,            \* the rows of orders
  everOrder,         \* the order ids ever given
  status, total,     \* orders.status, orders.total_amount
  home, quantity,    \* order_items.order_id and quantity
  product, price,    \* of a line, fixed once it is made
  pc,                \* the call a request awaits
  req,               \* its handler, order and line, the order entity it holds,
                     \* and what its save found different
  told,              \* history: the status somebody last set
  wanted,            \* history: the lines the handlers added and did not remove
  missed,            \* history: what others changed since a request's read ...
  split,             \* ... and whether they did since its save's SELECT
  causes             \* history: what went wrong with an order

rows     == <<orders, everOrder, status, total, home, quantity, product, price>>
requests == <<pc, req>>
history  == <<told, wanted, missed, split, causes>>
itemVars == <<rows, requests, history>>
vars     == <<catalogVars, itemVars>>

Entity == [status : Status, total : Int, lines : [Item -> Quantity \cup {0}]]
Diff   == [found : BOOLEAN, columns : SUBSET {"status", "total"},
           insert : SUBSET Item, change : SUBSET Item,
           link : SUBSET Item, cut : SUBSET Item]
Work   == [op   : {"none", "create", "update", "move", "add", "change", "drop", "remove"},
           ord  : Order \cup {None}, line : Item \cup {None},
           held : Entity, diff : Diff]
Cause  == {"lines", "status", "split", "torn", "half"}

Labels == {"new", "insert", "product", "item", "writeItem", "insertItem",
           "deleteItem", "save", "write", "deleteOrder", "done"}

TypeOK ==
  /\ CatalogTypeOK
  /\ orders \in SUBSET Order /\ everOrder \in SUBSET Order
  /\ status \in [Order -> Status] /\ told \in [Order -> Status]
  /\ total \in [Order -> Int]
  /\ home \in [Item -> Order \cup {Loose, Gone}]
  /\ quantity \in [Item -> Quantity \cup {0}]
  /\ product \in [Item -> Product \cup {None}]
  /\ price \in [Item -> Price]
  /\ pc \in [Request -> Labels]
  /\ req \in [Request -> Work]
  /\ wanted \in [Order -> SUBSET Item]
  /\ missed \in [Request -> SUBSET {"lines", "status"}]
  /\ split \in SUBSET Request
  /\ causes \in [Order -> SUBSET Cause]

NoLines == [i \in Item |-> 0]
NoDiff  == [found |-> TRUE, columns |-> {}, insert |-> {}, change |-> {},
            link |-> {}, cut |-> {}]

Idle == [op |-> "none", ord |-> None, line |-> None, diff |-> NoDiff,
         held |-> [status |-> "PENDING", total |-> 0, lines |-> NoLines]]

Sum(lines, prices) == SumFunction([i \in Item |-> lines[i] * prices[i]])

\* Order o with one line i is there already, or no order yet.
Init ==
  /\ CatalogInit
  /\ \E o \in Order \cup {None}, i \in Item, p \in Product, q \in Quantity :
       /\ o # None => OnSale(p)
       /\ orders = Order \cap {o} /\ everOrder = orders
       /\ home = [j \in Item |-> IF j = i /\ o # None THEN o ELSE Gone]
       /\ quantity = [j \in Item |-> IF home[j] # Gone THEN q ELSE 0]
       /\ product = [j \in Item |-> IF home[j] # Gone THEN p ELSE None]
       /\ price = [j \in Item |-> cost[p]]
       /\ total = [x \in Order |-> IF x = o THEN q * cost[p] ELSE 0]
       /\ wanted = [x \in Order |-> IF x = o THEN {i} ELSE {}]
  /\ status = [o \in Order |-> "PENDING"] /\ told = status
  /\ pc = [r \in Request |-> "new"] /\ req = [r \in Request |-> Idle]
  /\ missed = [r \in Request |-> {}] /\ split = {}
  /\ causes = [o \in Order |-> {}]

-----------------------------------------------------------------------------

Goto(r, to) == pc' = [pc EXCEPT ![r] = to]

\* The request is answered and its entity is gone.
Finish(r) == Goto(r, "done") /\ req' = [req EXCEPT ![r] = Idle]

LinesOf(o) == {i \in Item : home[i] = o}
Stored(o)  == [i \in Item |-> IF home[i] = o THEN quantity[i] ELSE 0]

\* The products order lines refer to.
InUse == {product[i] : i \in {j \in Item : home[j] # Gone}}

\* Between the save of a line and the save of its order.
HalfSaved(r) == req[r].op \in {"change", "drop"} /\ pc[r] \in {"save", "write"}

\* What a change of o by r means to the others that have read o.
Touch(r, o, parts) ==
  /\ missed' = [q \in Request |->
       IF q # r /\ req[q].ord = o THEN missed[q] \cup parts ELSE missed[q]]
  /\ split' = split \cup {q \in Request \ {r} : req[q].ord = o /\ pc[q] = "write"}

Blame(o, why) == causes' = [causes EXCEPT ![o] = @ \cup why]

-----------------------------------------------------------------------------
(***************************************************************************)
(* create: one transaction that reads the products from one snapshot, and  *)
(* inserts the order and its lines.                                        *)
(***************************************************************************)

\* lines[i] is the product and the quantity of new line i.
CreateRead(r, o, lines) ==
  LET new == DOMAIN lines
      qty == [i \in Item |-> IF i \in new THEN lines[i].quantity ELSE 0]
      now == [i \in Item |-> IF i \in new THEN cost[lines[i].product] ELSE price[i]]
  IN  /\ pc[r] = "new" /\ o \notin everOrder
      /\ new # {} /\ \A i \in new : product[i] = None
      /\ everOrder' = everOrder \cup {o}
      /\ IF \A i \in new : OnSale(lines[i].product)
           THEN /\ product' = [i \in Item |-> IF i \in new THEN lines[i].product
                                              ELSE product[i]]
                /\ price' = now
                /\ req' = [req EXCEPT ![r].op = "create", ![r].ord = o,
                     ![r].held = [status |-> "PENDING", lines |-> qty,
                                  total |-> Sum(qty, now)]]
                /\ Goto(r, "insert")
           ELSE Finish(r) /\ UNCHANGED <<product, price>>
      /\ UNCHANGED <<catalogVars, orders, status, total, home, quantity, history>>

\* A product that was deleted since the snapshot fails the transaction.
CreateInsert(r) ==
  LET o    == req[r].ord
      held == req[r].held
      new  == {i \in Item : held.lines[i] > 0}
  IN  /\ pc[r] = "insert"
      /\ IF \A i \in new : OnSale(product[i])
           THEN /\ orders' = orders \cup {o}
                /\ total' = [total EXCEPT ![o] = held.total]
                /\ home' = [i \in Item |-> IF i \in new THEN o ELSE home[i]]
                /\ quantity' = [i \in Item |-> IF i \in new THEN held.lines[i]
                                               ELSE quantity[i]]
                /\ wanted' = [wanted EXCEPT ![o] = new]
           ELSE UNCHANGED <<orders, total, home, quantity, wanted>>
      /\ Finish(r)
      /\ UNCHANGED <<catalogVars, everOrder, status, product, price, told, missed, split,
                     causes>>

-----------------------------------------------------------------------------
(***************************************************************************)
(* findOne and what the handlers do with the entity                        *)
(***************************************************************************)

\* r reads order o for handler k about line i; s is the entity's status then.
Load(r, o, k, i, s, to) ==
  /\ pc[r] = "new" /\ o \in orders
  /\ req' = [req EXCEPT ![r].op = k, ![r].ord = o, ![r].line = i,
       ![r].held = [status |-> s, total |-> total[o], lines |-> Stored(o)]]
  /\ Goto(r, to)
  /\ Blame(o, IF \E q \in Request : HalfSaved(q) /\ req[q].ord = o THEN {"torn"} ELSE {})
  /\ UNCHANGED <<catalogVars, rows, told, wanted, missed, split>>

Update(r, o, s) == Load(r, o, "update", None, s, "save")

\* update with another table and no status: the entity keeps the one it was read with.
Move(r, o) == Load(r, o, "move", None, status[o], "save")

\* Variant: the entity is made from the id alone, with the default status.
AddItemAsNew(r, o) == Load(r, o, "add", None, "PENDING", "product")

AddItem(r, o)   == Load(r, o, "add", None, status[o], "product")
Remove(r, o)    == Load(r, o, "remove", None, status[o], "deleteOrder")

\* The line must be one of the order that was read.
UpdateItem(r, o, i) == home[i] = o /\ Load(r, o, "change", i, status[o], "item")
RemoveItem(r, o, i) == home[i] = o /\ Load(r, o, "drop", i, status[o], "deleteItem")

\* Variant: a product that is not there has no price, and is added.
FindProductUnchecked(r, i, p, q) ==
  /\ pc[r] = "product" /\ product[i] = None
  /\ product' = [product EXCEPT ![i] = p]
  /\ price' = [price EXCEPT ![i] = IF OnSale(p) THEN cost[p] ELSE None]
  /\ req' = [req EXCEPT ![r].line = i, ![r].held.lines[i] = q,
                        ![r].held.total = @ + q * cost[p]]
  /\ Goto(r, "save")
  /\ UNCHANGED <<catalogVars, orders, everOrder, status, total, home, quantity, history>>

\* addItem: the product's price is the line's price from now on.
FindProduct(r, i, p, q) ==
  /\ pc[r] = "product" /\ product[i] = None
  /\ IF OnSale(p)
       THEN /\ product' = [product EXCEPT ![i] = p]
            /\ price' = [price EXCEPT ![i] = cost[p]]
            /\ req' = [req EXCEPT ![r].line = i, ![r].held.lines[i] = q,
                                  ![r].held.total = @ + q * cost[p]]
            /\ Goto(r, "save")
       ELSE Finish(r) /\ UNCHANGED <<product, price>>
  /\ UNCHANGED <<catalogVars, orders, everOrder, status, total, home, quantity, history>>

\* Variant: the old subtotal is not taken off the total.
ReloadItemAddsOnly(r, q) ==
  LET i == req[r].line
  IN  /\ pc[r] = "item"
      /\ req' = [req EXCEPT ![r].held.lines[i] = q, ![r].held.total = @ + q * price[i]]
      /\ Goto(r, IF home[i] = Gone THEN "insertItem" ELSE "writeItem")
      /\ UNCHANGED <<catalogVars, rows, history>>

\* updateItem saves the line first: its SELECT ...
ReloadItem(r, q) ==
  LET i == req[r].line
  IN  /\ pc[r] = "item"
      /\ req' = [req EXCEPT ![r].held.lines[i] = q,
           ![r].held.total = @ + (q - req[r].held.lines[i]) * price[i]]
      /\ Goto(r, IF home[i] = Gone THEN "insertItem"
                 ELSE IF quantity[i] = q THEN "save" ELSE "writeItem")
      /\ UNCHANGED <<catalogVars, rows, history>>

\* ... and its UPDATE, which does nothing when the row is gone,
WriteItem(r) ==
  LET i == req[r].line
      o == req[r].ord
  IN  /\ pc[r] = "writeItem"
      /\ quantity' = [quantity EXCEPT ![i] = IF home[i] = Gone THEN @
                                             ELSE req[r].held.lines[i]]
      /\ Touch(r, o, {"lines"})
      /\ Goto(r, "save")
      /\ UNCHANGED <<catalogVars, orders, everOrder, status, total, home, product, price,
                     req, told, wanted, causes>>

\* or its INSERT, without an order, since the entity does not name it.
InsertItem(r) ==
  LET i == req[r].line
  IN  /\ pc[r] = "insertItem"
      /\ IF home[i] = Gone /\ OnSale(product[i])
           THEN /\ home' = [home EXCEPT ![i] = Loose]
                /\ quantity' = [quantity EXCEPT ![i] = req[r].held.lines[i]]
                /\ Goto(r, "save") /\ UNCHANGED req
           ELSE Finish(r) /\ UNCHANGED <<home, quantity>>
      /\ UNCHANGED <<catalogVars, orders, everOrder, status, total, product, price,
                     history>>

\* Variant: the deleted line stays in the order entity.
DeleteItemOnly(r) ==
  LET i == req[r].line
      o == req[r].ord
  IN  /\ pc[r] = "deleteItem"
      /\ home' = [home EXCEPT ![i] = Gone]
      /\ wanted' = [wanted EXCEPT ![o] = @ \ {i}]
      /\ Touch(r, o, {"lines"})
      /\ Goto(r, "save")
      /\ UNCHANGED <<catalogVars, orders, everOrder, status, total, quantity, product, price,
                     req, told, causes>>

\* removeItem deletes the line first, if it is still there.
DeleteItem(r) ==
  LET i == req[r].line
      o == req[r].ord
  IN  /\ pc[r] = "deleteItem"
      /\ home' = [home EXCEPT ![i] = Gone]
      /\ wanted' = [wanted EXCEPT ![o] = @ \ {i}]
      /\ req' = [req EXCEPT ![r].held.lines[i] = 0,
           ![r].held.total = @ - req[r].held.lines[i] * price[i]]
      /\ Touch(r, o, {"lines"})
      /\ Goto(r, "save")
      /\ UNCHANGED <<catalogVars, orders, everOrder, status, total, quantity, product, price,
                     told, causes>>

-----------------------------------------------------------------------------
(***************************************************************************)
(* save(order)                                                             *)
(***************************************************************************)

Reload(r) ==
  LET o     == req[r].ord
      held  == req[r].held
      mine  == {i \in Item : held.lines[i] > 0}
      found == o \in orders
      d     == [found   |-> found,
                columns |-> {c \in {"status", "total"} :
                               \/ c = "status" /\ held.status # status[o]
                               \/ c = "total" /\ held.total # total[o]},
                insert  |-> {i \in mine : home[i] = Gone},
                change  |-> {i \in mine : home[i] # Gone /\ quantity[i] # held.lines[i]},
                link    |-> {i \in mine : home[i] # Gone /\ (~found \/ home[i] # o)},
                cut     |-> IF found THEN LinesOf(o) \ mine ELSE {}]
  IN  /\ pc[r] = "save"
      /\ IF d = NoDiff THEN Finish(r)
         ELSE req' = [req EXCEPT ![r].diff = d] /\ Goto(r, "write")
      /\ UNCHANGED <<catalogVars, rows, history>>

\* Variant: a line is inserted whether or not its product is still there.
AcceptedAnyway(r) == TRUE

\* What the keys of order_items and orders accept.
Accepted(r) ==
  LET o == req[r].ord
      d == req[r].diff
  IN  /\ ~d.found => o \notin orders
      /\ \A i \in d.insert : home[i] = Gone /\ OnSale(product[i])
      /\ d.found /\ o \notin orders =>
           d.insert = {} /\ \A i \in d.link : home[i] = Gone

\* The rows after the transaction.
WriteRows(r) ==
  LET o     == req[r].ord
      d     == req[r].diff
      held  == req[r].held
      there == {i \in Item : home[i] # Gone}
  IN  /\ orders' = IF d.found THEN orders ELSE orders \cup {o}
      /\ status' = [status EXCEPT ![o] =
           IF ~d.found \/ "status" \in d.columns THEN held.status ELSE @]
      /\ total' = [total EXCEPT ![o] =
           IF ~d.found \/ "total" \in d.columns THEN held.total ELSE @]
      /\ home' = [i \in Item |->
           IF i \in d.insert \cup (d.link \cap there) THEN o
           ELSE IF i \in d.cut \cap there THEN Loose ELSE home[i]]
      /\ quantity' = [i \in Item |->
           IF i \in d.insert \cup (d.change \cap there) THEN held.lines[i]
           ELSE quantity[i]]

Write(r) ==
  LET o    == req[r].ord
      cols == req[r].diff.columns
  IN  /\ pc[r] = "write"
      /\ IF Accepted(r)
           THEN /\ WriteRows(r)
                /\ wanted' = [wanted EXCEPT ![o] =
                     IF req[r].op = "add" THEN @ \cup {req[r].line} ELSE @]
                /\ told' = [told EXCEPT ![o] =
                     IF req[r].op = "update" /\ "status" \in cols
                       THEN req[r].held.status ELSE @]
                /\ Touch(r, o, {"lines"} \cup (cols \ {"total"}))
                /\ Blame(o, missed[r] \cup (IF r \in split THEN {"split"} ELSE {}))
           ELSE /\ UNCHANGED <<orders, status, total, home, quantity, told, wanted,
                               missed, split>>
                /\ Blame(o, IF HalfSaved(r) THEN {"half"} ELSE {})
      /\ Finish(r)
      /\ UNCHANGED <<catalogVars, everOrder, product, price>>

-----------------------------------------------------------------------------
(***************************************************************************)
(* The rest                                                                *)
(***************************************************************************)

\* remove: the lines that were read are deleted, the order, and by cascade
\* the lines it has by now.
DeleteOrder(r) ==
  LET o == req[r].ord
  IN  /\ pc[r] = "deleteOrder"
      /\ orders' = orders \ {o}
      /\ home' = [i \in Item |->
           IF home[i] = o \/ req[r].held.lines[i] > 0 THEN Gone ELSE home[i]]
      /\ wanted' = [wanted EXCEPT ![o] = {}]
      /\ Touch(r, o, {"lines", "status"})
      /\ Finish(r)
      /\ UNCHANGED <<catalogVars, everOrder, status, total, quantity, product, price,
                     told, causes>>

\* A payment completes the order (Payments).
Settle(o) ==
  /\ o \in orders /\ status[o] # "COMPLETED"
  /\ status' = [status EXCEPT ![o] = "COMPLETED"]
  /\ told' = [told EXCEPT ![o] = "COMPLETED"]
  /\ missed' = [q \in Request |->
       IF req[q].ord = o THEN missed[q] \cup {"status"} ELSE missed[q]]
  /\ UNCHANGED <<catalogVars, orders, everOrder, total, home, quantity, product, price,
                 requests, wanted, split, causes>>

\* An exception of the database, a lost connection or a restart.
Stop(r) ==
  /\ pc[r] \notin {"new", "done"}
  /\ Blame(req[r].ord, IF HalfSaved(r) THEN {"half"} ELSE {})
  /\ Finish(r)
  /\ UNCHANGED <<catalogVars, rows, told, wanted, missed, split>>

Lines == UNION {[s -> [product : Product, quantity : Quantity]] :
                s \in {x \in SUBSET Item : Cardinality(x) <= NewLines}}

\* The routes of OrdersController that change something.
Arrivals(r) ==
  \E o \in Order :
    \/ \E lines \in Lines : CreateRead(r, o, lines)
    \/ \E s \in PatchInput : Update(r, o, s)
    \/ Move(r, o) \/ Remove(r, o) \/ AddItem(r, o)
    \/ \E i \in Item : UpdateItem(r, o, i) \/ RemoveItem(r, o, i)

Proceed(r) ==
  \/ CreateInsert(r)
  \/ \E i \in Item, p \in Product, q \in Quantity : FindProduct(r, i, p, q)
  \/ \E q \in Quantity : ReloadItem(r, q)
  \/ WriteItem(r) \/ InsertItem(r) \/ DeleteItem(r)
  \/ Reload(r) \/ Write(r) \/ DeleteOrder(r)

Next ==
  \/ \E r \in Request : Arrivals(r) \/ Proceed(r) \/ Stop(r)
  \/ \E o \in Order : Settle(o)
  \/ CatalogNext(InUse) /\ UNCHANGED itemVars

Spec == Init /\ [][Next]_vars

-----------------------------------------------------------------------------
(***************************************************************************)
(* Properties                                                              *)
(***************************************************************************)

\* The total is the sum of the lines, however stale the saved entities were,
\* unless one of three things happened to the order: a save wrote over what
\* changed since its own SELECT, a handler read between the two saves of
\* another, or one stopped between its two saves (orders.service.ts:198-252).
TotalMatchesLines ==
  \A o \in orders :
    \/ causes[o] \cap {"split", "torn", "half"} # {}
    \/ \E r \in Request : HalfSaved(r) /\ req[r].ord = o
    \/ total[o] = Sum(Stored(o), price)

\* An order has the lines that were added to it and not removed, and none is
\* cut off from it, unless an edit saved what it had read before another edit.
LinesAreKept ==
  \A o \in Order : "lines" \in causes[o] \/ wanted[o] = LinesOf(o)

\* The status is the one staff or a payment set last, unless an edit saved the
\* order as it had read it before (orders.service.ts:232).
StatusIsKept ==
  \A o \in orders : "status" \in causes[o] \/ status[o] = told[o]

\* Lines refer to products, products to categories, lines to orders: what the
\* foreign keys promise to findOne's joins, kept by every way back into the
\* database, the INSERTs of rows that were deleted meanwhile included.
ReferencesHold ==
  /\ \A p \in Product : OnSale(p) => shelf[p] \in category
  /\ \A i \in Item : home[i] # Gone => OnSale(product[i])
  /\ \A i \in Item : home[i] \in Order => home[i] \in orders
=============================================================================
