--------------------------- MODULE OrderItemsProofs ---------------------------
(***************************************************************************)
(* Proofs about OrderItems, for any number of products, orders, lines,     *)
(* requests and edits: references hold, an order keeps its status and its  *)
(* lines except where a stale save is on record, and its total is what its *)
(* lines add up to except where one of three races is. IInv carries the    *)
(* first three, MoneyInv on top of it the last.                            *)
(***************************************************************************)
EXTENDS OrderItems, TLAPS, FiniteSetTheorems, WellFoundedInduction

-----------------------------------------------------------------------------
(***************************************************************************)
(* The invariants of the catalog                                           *)
(***************************************************************************)

\* An edit is about a category or a product, as its step needs.
EditsOK ==
  \A e \in Edit :
    /\ at[e] \in {"saveCategory", "insertCategory"} => edit[e].id \in Category
    /\ at[e] \in {"findCategory", "saveProduct", "writeProduct", "insertProduct"} =>
         edit[e].id \in Product

Shelved == \A p \in Product : OnSale(p) => shelf[p] \in category

CatalogOK == CatalogTypeOK /\ EditsOK /\ Shelved

-----------------------------------------------------------------------------
(***************************************************************************)
(* The invariants of orders                                                *)
(***************************************************************************)

\* The types, but for amounts of money, which are MoneyInv's matter. Totals are
\* the amounts there are.
WorkOf(totals) ==
  [op   : {"none", "create", "update", "move", "add", "change", "drop", "remove"},
   ord  : Order \cup {None}, line : Item \cup {None},
   held : [status : Status, total : totals, lines : [Item -> Quantity \cup {0}]],
   diff : Diff]

RowTypes ==
  /\ orders \in SUBSET Order /\ everOrder \in SUBSET Order /\ orders \subseteq everOrder
  /\ status \in [Order -> Status] /\ told \in [Order -> Status]
  /\ home \in [Item -> Order \cup {Loose, Gone}]
  /\ quantity \in [Item -> Quantity \cup {0}]
  /\ product \in [Item -> Product \cup {None}]
  /\ wanted \in [Order -> SUBSET Item] /\ causes \in [Order -> SUBSET Cause]

RequestTypes ==
  /\ \E totals : req \in [Request -> WorkOf(totals)]
  /\ pc \in [Request -> Labels]
  /\ missed \in [Request -> SUBSET {"lines", "status"}]

Held(r) == {i \in Item : req[r].held.lines[i] > 0}

\* The handler a label belongs to; nothing is found different before the write.
Phases ==
  \A r \in Request :
    /\ pc[r] \in {"new", "done"} => req[r] = Idle
    /\ pc[r] \notin {"new", "done"} => req[r].ord \in Order
    /\ pc[r] = "insert" <=> req[r].op = "create"
    /\ pc[r] = "product" => req[r].op = "add"
    /\ pc[r] \in {"item", "writeItem", "insertItem"} => req[r].op = "change"
    /\ pc[r] = "deleteItem" => req[r].op = "drop"
    /\ pc[r] \in {"save", "write"} => req[r].op \in {"update", "move", "add", "change", "drop"}
    /\ pc[r] = "deleteOrder" => req[r].op = "remove"
    /\ pc[r] # "write" => req[r].diff = NoDiff

\* The order a request makes is nobody else's.
OrdersOK ==
  /\ \A r \in Request : req[r].ord # None => req[r].ord \in everOrder
  /\ \A r \in Request : req[r].op = "create" =>
       /\ req[r].ord \notin orders
       /\ \A q \in Request : q # r => req[q].ord # req[r].ord

\* The lines a request has to do with.
Knows(r, i) == i \in Held(r) \/ i \in req[r].diff.cut

\* Requests about different orders know different lines, and lines others know
\* do not move to another order.
LinesOK ==
  \A r \in Request, i \in Item :
    /\ i \in req[r].diff.insert \cup req[r].diff.change \cup req[r].diff.link => i \in Held(r)
    /\ Knows(r, i) => /\ home[i] \in {req[r].ord, Loose, Gone}
                      /\ product[i] # None
                      /\ \A q \in Request : Knows(q, i) => req[q].ord = req[r].ord

\* The lines a request makes, which nobody else knows yet.
Makes(r, i) ==
  \/ req[r].op = "create" /\ i \in Held(r)
  \/ req[r].op = "add" /\ pc[r] \in {"save", "write"} /\ i = req[r].line

NewOK ==
  \A r \in Request :
    /\ \A i \in Item : Makes(r, i) =>
         home[i] = Gone /\ \A q \in Request : q # r => ~Knows(q, i)
    /\ \/ req[r].op = "add" /\ pc[r] \in {"save", "write"}
       \/ req[r].op = "change"
       \/ req[r].op = "drop" /\ pc[r] = "deleteItem"
       => req[r].line \in Held(r)

\* Rows refer to rows, and lines have a quantity.
Referring ==
  \A i \in Item : home[i] # Gone =>
    /\ quantity[i] > 0 /\ product[i] \in Product /\ OnSale(product[i])
    /\ home[i] \in Order => home[i] \in orders

\* The lines it has read, and those it adds.
Known(r) == {i \in Held(r) : ~Makes(r, i)}
Added(r) == {i \in Held(r) : Makes(r, i)}

Reading(r) == req[r].op \notin {"none", "create"}

\* What a request has read and not missed is so.
FreshStatus ==
  \A r \in Request : Reading(r) /\ "status" \notin missed[r] =>
    /\ req[r].ord \in orders
    /\ req[r].op # "update" => /\ req[r].held.status = status[req[r].ord]
                               /\ "status" \notin req[r].diff.columns

FreshLines ==
  \A r \in Request : Reading(r) /\ "lines" \notin missed[r] =>
    /\ req[r].ord \in orders
    /\ Known(r) = LinesOf(req[r].ord)
    /\ pc[r] = "write" => /\ req[r].diff.insert = Added(r)
                          /\ req[r].diff.link = {} /\ req[r].diff.cut = {}

\* A status is what somebody set, also that of an order that is gone.
StatusOK == \A o \in Order : "status" \in causes[o] \/ status[o] = told[o]

IInv ==
  /\ CatalogOK /\ RowTypes /\ RequestTypes /\ Phases /\ OrdersOK /\ LinesOK /\ NewOK
  /\ Referring /\ FreshStatus /\ FreshLines /\ StatusOK /\ LinesAreKept

-----------------------------------------------------------------------------
(***************************************************************************)
(* Requests                                                                *)
(***************************************************************************)

LEMMA NamesDiffer ==
  /\ Gone # Loose /\ Gone \notin Order /\ Loose \notin Order /\ None \notin Order
  /\ None \notin Product /\ None \notin Item /\ None \notin Category
  /\ Quantity \subseteq Nat /\ \A n \in Quantity : n > 0
BY HomeAssumption, CatalogAssumption, QuantityAssumption DEF Gone, Loose

LEMMA IdleKnowsNothing ==
  /\ Idle \in WorkOf({0}) /\ Idle.op = "none" /\ Idle.ord = None /\ Idle.line = None
  /\ Idle.diff = NoDiff /\ NoDiff \in Diff /\ NoDiff.cut = {} /\ NoDiff.insert = {}
  /\ NoDiff.change = {} /\ NoDiff.link = {} /\ NoDiff.columns = {}
  /\ \A i \in Item : Idle.held.lines[i] = 0
BY DEF Idle, NoDiff, NoLines, WorkOf, Diff, Status

\* What a request holds, amounts left aside.
LEMMA Typed ==
  ASSUME RequestTypes, NEW r \in Request
  PROVE  /\ req[r].op \in {"none", "create", "update", "move", "add", "change", "drop", "remove"}
         /\ req[r].ord \in Order \cup {None} /\ req[r].line \in Item \cup {None}
         /\ req[r].held.status \in Status
         /\ req[r].held.lines \in [Item -> Quantity \cup {0}]
         /\ req[r].diff \in Diff
BY DEF RequestTypes, WorkOf

\* Requests but r are as they were.
Only(r) ==
  /\ pc' \in [Request -> Labels]
  /\ \E totals : req' \in [Request -> WorkOf(totals)]
  /\ \A q \in Request \ {r} : req'[q] = req[q] /\ pc'[q] = pc[q]

LEMMA Moves ==
  ASSUME RequestTypes, NEW r \in Request, NEW to \in Labels, Goto(r, to),
         NEW w, NEW totals, w \in WorkOf(totals), req' = [req EXCEPT ![r] = w]
  PROVE  Only(r) /\ pc'[r] = to /\ req'[r] = w
<1>1. pc' \in [Request -> Labels] /\ pc'[r] = to /\ \A q \in Request \ {r} : pc'[q] = pc[q]
  BY DEF RequestTypes, Goto
<1>2. PICK old : req \in [Request -> WorkOf(old)]
  BY DEF RequestTypes
<1>3. \A x \in WorkOf(old) \cup WorkOf(totals) : x \in WorkOf(old \cup totals)
  BY DEF WorkOf
<1>4. req' \in [Request -> WorkOf(old \cup totals)]
  BY <1>2, <1>3
<1> QED
  BY <1>1, <1>2, <1>4 DEF Only

LEMMA Finishes ==
  ASSUME RequestTypes, NEW r \in Request, Finish(r)
  PROVE  Only(r) /\ pc'[r] = "done" /\ req'[r] = Idle
BY Moves, IdleKnowsNothing DEF Finish, Labels

LEMMA Passes ==
  ASSUME RequestTypes, NEW r \in Request, NEW to \in Labels, Goto(r, to), UNCHANGED req
  PROVE  Only(r) /\ pc'[r] = to /\ req'[r] = req[r]
BY DEF RequestTypes, Goto, Only

\* What r does is nothing to what the others hold.
LEMMA Others ==
  ASSUME NEW r \in Request, Only(r), NEW q \in Request, q # r
  PROVE  /\ req'[q] = req[q] /\ pc'[q] = pc[q] /\ Held(q)' = Held(q)
         /\ Known(q)' = Known(q) /\ Added(q)' = Added(q)
         /\ Reading(q)' <=> Reading(q)
         /\ \A i \in Item : (Knows(q, i)' <=> Knows(q, i)) /\ (Makes(q, i)' <=> Makes(q, i))
BY DEF Only, Held, Reading, Knows, Makes, Known, Added

LEMMA IdleRequests ==
  ASSUME NEW r \in Request
  PROVE  req[r] = Idle => /\ Held(r) = {} /\ ~Reading(r)
                          /\ \A i \in Item : ~Knows(r, i) /\ ~Makes(r, i)
BY IdleKnowsNothing DEF Held, Reading, Knows, Makes

LEMMA IdleRequestsNext ==
  ASSUME NEW r \in Request
  PROVE  req'[r] = Idle => /\ Held(r)' = {} /\ ~Reading(r)'
                           /\ \A i \in Item : ~Knows(r, i)' /\ ~Makes(r, i)'
BY IdleKnowsNothing DEF Held, Reading, Knows, Makes

LEMMA HeldAreItems ==
  ASSUME NEW r \in Request
  PROVE  Held(r) \subseteq Item /\ Held(r)' \subseteq Item
BY DEF Held

LEMMA WhatOneMakesOneHolds ==
  ASSUME NewOK, NEW r \in Request, NEW i \in Item, Makes(r, i)
  PROVE  i \in Held(r) /\ Knows(r, i)
BY DEF NewOK, Makes, Knows

LEMMA CatalogStays == CatalogOK /\ UNCHANGED catalogVars => CatalogOK'
BY DEF CatalogOK, CatalogTypeOK, EditsOK, Shelved, OnSale, catalogVars, goods

\* A request ends and changes no row; what was held against an order stays.
LEMMA Quits ==
  ASSUME IInv, NEW r \in Request, Finish(r),
         UNCHANGED <<catalogVars, orders, status, home, quantity, product, told, wanted,
         missed>>,
         everOrder \subseteq everOrder', everOrder' \in SUBSET Order,
         causes' \in [Order -> SUBSET Cause],
         \A o \in Order : causes[o] \subseteq causes'[o]
  PROVE  IInv'
<1>t. /\ CatalogOK /\ RowTypes /\ RequestTypes /\ Phases /\ OrdersOK /\ LinesOK /\ NewOK
      /\ Referring /\ FreshStatus /\ FreshLines /\ StatusOK /\ LinesAreKept
  BY DEF IInv
<1> USE <1>t
<1>0. Only(r) /\ pc'[r] = "done" /\ req'[r] = Idle
  BY Finishes
<1>i. /\ Held(r)' = {} /\ ~Reading(r)' /\ \A i \in Item : ~Knows(r, i)' /\ ~Makes(r, i)'
      /\ req'[r].op = "none" /\ req'[r].ord = None /\ req'[r].diff = NoDiff
      /\ req'[r].line = None
      /\ NoDiff.cut = {} /\ NoDiff.insert = {} /\ NoDiff.change = {} /\ NoDiff.link = {}
  BY <1>0, IdleRequestsNext, IdleKnowsNothing
<1>l. \A z : LinesOf(z)' = LinesOf(z)
  BY DEF LinesOf
<1>s. \A z : OnSale(z)' <=> OnSale(z)
  BY DEF OnSale, catalogVars, goods
<1>1. CatalogOK'
  BY CatalogStays
<1>2. RowTypes'
  BY DEF RowTypes
<1>3. RequestTypes'
  BY <1>0 DEF Only, RequestTypes
<1>4. Phases'
  BY <1>0, <1>i, Others DEF Phases
<1>5. OrdersOK'
  BY <1>0, <1>i, Others, NamesDiffer DEF OrdersOK, Phases, RowTypes
<1>6. LinesOK'
  BY <1>0, <1>i, Others DEF LinesOK
<1>7. NewOK'
  BY <1>0, <1>i, Others DEF NewOK
<1>8. Referring'
  BY <1>s DEF Referring
<1>9. FreshStatus'
  BY <1>0, <1>i, Others DEF FreshStatus
<1>10. FreshLines'
  BY <1>0, <1>i, <1>l, Others DEF FreshLines
<1>11. StatusOK'
  BY DEF StatusOK
<1>12. LinesAreKept'
  BY <1>l DEF LinesAreKept
<1> QED
  BY <1>1, <1>2, <1>3, <1>4, <1>5, <1>6, <1>7, <1>8, <1>9, <1>10, <1>11, <1>12 DEF IInv

LEMMA LoadStep ==
  ASSUME IInv, NEW r \in Request, NEW o \in Order, NEW s \in Status,
  NEW i \in Item \cup {None},
         NEW k \in {"update", "move", "add", "change", "drop", "remove"},
         NEW to \in {"save", "product", "item", "deleteItem", "deleteOrder"},
         k \in {"update", "move"} => to = "save", k = "add" => to = "product",
         k = "change" => to = "item", k = "drop" => to = "deleteItem",
         k = "remove" => to = "deleteOrder",
         k # "update" => s = status[o], k \in {"change", "drop"} => i \in Item /\ home[i] = o,
         Load(r, o, k, i, s, to)
  PROVE  IInv'
<1>t. /\ CatalogOK /\ RowTypes /\ RequestTypes /\ Phases /\ OrdersOK /\ LinesOK /\ NewOK
      /\ Referring /\ FreshStatus /\ FreshLines /\ StatusOK /\ LinesAreKept
  BY DEF IInv
<1> USE <1>t
<1> DEFINE w == [req[r] EXCEPT !.op = k, !.ord = o, !.line = i,
                   !.held = [status |-> s, total |-> total[o], lines |-> Stored(o)]]
<1>e. /\ pc[r] = "new" /\ req[r] = Idle /\ o \in orders
      /\ UNCHANGED <<catalogVars, orders, everOrder, status, home, quantity, product, told,
                     wanted, missed>>
      /\ causes' \in [Order -> SUBSET Cause] /\ \A x \in Order : causes[x] \subseteq causes'[x]
  BY DEF Load, rows, Phases, Blame, RowTypes, Cause
<1>0. /\ Only(r) /\ pc'[r] = to /\ req'[r].op = k /\ req'[r].ord = o /\ req'[r].line = i
      /\ req'[r].held.status = s /\ req'[r].held.lines = Stored(o) /\ req'[r].diff = NoDiff
  <2>1. PICK old : req \in [Request -> WorkOf(old)]
    BY DEF RequestTypes
  <2>2. Stored(o) \in [Item -> Quantity \cup {0}]
    BY DEF Stored, RowTypes
  <2>3. /\ w \in WorkOf(old \cup {total[o]})
        /\ w.op = k /\ w.ord = o /\ w.line = i /\ w.held.status = s
        /\ w.held.lines = Stored(o) /\ w.diff = req[r].diff
    BY <2>1, <2>2 DEF WorkOf
  <2>4. req' = [req EXCEPT ![r] = w]
    BY <2>1 DEF Load, WorkOf
  <2>5. Goto(r, to) /\ to \in Labels
    BY DEF Load, Labels
  <2>6. req[r].diff = NoDiff
    BY <1>e, IdleKnowsNothing
  <2> HIDE DEF w
  <2> QED
    BY <2>3, <2>4, <2>5, <2>6, Moves
<1>h. /\ Held(r)' = LinesOf(o) /\ Reading(r)'
      /\ \A x \in Item : (Knows(r, x)' <=> home[x] = o) /\ ~Makes(r, x)'
  <2>1. Held(r)' = LinesOf(o)
    BY <1>0, NamesDiffer DEF Held, Stored, LinesOf, Referring, RowTypes
  <2>2. \A x \in Item : ~Makes(r, x)'
    BY <1>0 DEF Makes
  <2>3. \A x \in Item : Knows(r, x)' <=> home[x] = o
    BY <1>0, <2>1, IdleKnowsNothing DEF Knows, LinesOf
  <2> QED
    BY <1>0, <2>1, <2>2, <2>3 DEF Reading
<1>k. Known(r)' = LinesOf(o)
  BY <1>h DEF Known, LinesOf
<1>l. \A z : LinesOf(z)' = LinesOf(z)
  BY <1>e DEF LinesOf
<1>s. \A z : OnSale(z)' <=> OnSale(z)
  BY <1>e DEF OnSale, catalogVars, goods
<1>1. CatalogOK'
  BY <1>0, <1>e, <1>h, <1>k, <1>l, <1>s, CatalogStays
<1>2. RowTypes'
  BY <1>0, <1>e, <1>h, <1>k, <1>l, <1>s DEF RowTypes
<1>3. RequestTypes'
  BY <1>0, <1>e, <1>h, <1>k, <1>l, <1>s DEF Only, RequestTypes
<1>4. Phases'
  BY <1>0, <1>e, <1>h, <1>k, <1>l, <1>s, Others DEF Phases
<1>5. OrdersOK'
  BY <1>0, <1>e, <1>h, <1>k, <1>l, <1>s, Others, NamesDiffer DEF OrdersOK, Phases, RowTypes
<1>6. LinesOK'
  <2>1. ASSUME NEW q \in Request, NEW x \in Item, Knows(q, x)'
        PROVE  home[x] \in {req'[q].ord, Loose, Gone} /\ product[x] # None
    <3>1. CASE q = r
      BY <1>0, <1>h, <2>1, <3>1, NamesDiffer DEF Referring, RowTypes
    <3>2. CASE q # r
      BY <1>0, <2>1, <3>2, Others DEF LinesOK
    <3> QED
      BY <3>1, <3>2
  <2>2. ASSUME NEW p \in Request, NEW q \in Request, NEW x \in Item, Knows(p, x)',
  Knows(q, x)'
        PROVE  req'[p].ord = req'[q].ord
    <3>1. ASSUME NEW y \in Request \ {r}, Knows(y, x)', home[x] = o PROVE req'[y].ord = o
      BY <1>0, <3>1, Others, NamesDiffer DEF LinesOK
    <3>2. CASE p # r /\ q # r
      BY <1>0, <2>2, <3>2, Others DEF LinesOK
    <3>3. CASE p = r \/ q = r
      BY <1>0, <1>h, <2>2, <3>1, <3>3
    <3> QED
      BY <3>2, <3>3
  <2>3. ASSUME NEW q \in Request, NEW x \in Item,
               x \in req'[q].diff.insert \cup req'[q].diff.change \cup req'[q].diff.link
        PROVE  x \in Held(q)'
    BY <1>0, <2>3, Others, IdleKnowsNothing DEF LinesOK
  <2> QED
    BY <1>e, <2>1, <2>2, <2>3 DEF LinesOK
<1>7. NewOK'
  <2>1. ASSUME NEW q \in Request, q # r, NEW x \in Item, Makes(q, x)'
        PROVE  home[x] = Gone /\ \A y \in Request : y # q => ~Knows(y, x)'
    BY <1>0, <1>h, <2>1, Others, NamesDiffer DEF NewOK
  <2> QED
    BY <1>0, <1>e, <1>h, <2>1, Others DEF NewOK, LinesOf
<1>8. Referring'
  BY <1>0, <1>e, <1>h, <1>k, <1>l, <1>s DEF Referring
<1>9. FreshStatus'
  BY <1>0, <1>e, <1>h, Others, IdleKnowsNothing DEF FreshStatus
<1>10. FreshLines'
  BY <1>0, <1>e, <1>h, <1>k, <1>l, <1>s, Others DEF FreshLines
<1>11. StatusOK'
  BY <1>0, <1>e, <1>h, <1>k, <1>l, <1>s DEF StatusOK
<1>12. LinesAreKept'
  BY <1>0, <1>e, <1>h, <1>k, <1>l, <1>s DEF LinesAreKept
<1> QED
  BY <1>1, <1>2, <1>3, <1>4, <1>5, <1>6, <1>7, <1>8, <1>9, <1>10, <1>11, <1>12 DEF IInv

LEMMA CreateReadMakesStep ==
  ASSUME IInv, NEW r \in Request, NEW o \in Order, NEW lines \in Lines,
         CreateRead(r, o, lines), \A i \in DOMAIN lines : OnSale(lines[i].product)
  PROVE  IInv'
<1>t. /\ CatalogOK /\ RowTypes /\ RequestTypes /\ Phases /\ OrdersOK /\ LinesOK /\ NewOK
      /\ Referring /\ FreshStatus /\ FreshLines /\ StatusOK /\ LinesAreKept
  BY DEF IInv
<1> USE <1>t
<1> DEFINE new == DOMAIN lines
           qty == [i \in Item |-> IF i \in new THEN lines[i].quantity ELSE 0]
           now == [i \in Item |-> IF i \in new THEN cost[lines[i].product] ELSE price[i]]
           sum == Sum(qty, now)
           entity == [status |-> "PENDING", lines |-> qty, total |-> sum]
           w == [req[r] EXCEPT !.op = "create", !.ord = o, !.held = entity]
<1>a. /\ pc[r] = "new" /\ req[r] = Idle /\ o \notin everOrder
      /\ \A i \in new : product[i] = None
      /\ UNCHANGED <<catalogVars, orders, status, home, quantity, told, wanted, missed, causes>>
      /\ everOrder' = everOrder \cup {o}
  BY DEF CreateRead, Phases, history
<1>b. /\ new \subseteq Item
      /\ \A i \in new : lines[i].product \in Product /\ lines[i].quantity \in Quantity
  BY DEF Lines
<1>c. qty \in [Item -> Quantity \cup {0}] /\ \A i \in Item : qty[i] > 0 <=> i \in new
  BY <1>b, NamesDiffer
<1>e. /\ product' = [i \in Item |-> IF i \in new THEN lines[i].product ELSE product[i]]
      /\ req' = [req EXCEPT ![r].op = "create", ![r].ord = o, ![r].held = entity]
      /\ Goto(r, "insert")
  BY DEF CreateRead
<1> HIDE DEF sum, qty
<1>0. /\ Only(r) /\ pc'[r] = "insert" /\ req'[r].op = "create" /\ req'[r].ord = o
      /\ req'[r].held.lines = qty /\ req'[r].diff = NoDiff
  <2>1. PICK old : req \in [Request -> WorkOf(old)]
    BY DEF RequestTypes
  <2>3. /\ w \in WorkOf(old \cup {sum})
        /\ w.op = "create" /\ w.ord = o /\ w.held.lines = qty /\ w.diff = req[r].diff
    BY <2>1, <1>c DEF WorkOf, Status
  <2>4. req' = [req EXCEPT ![r] = w]
    BY <2>1, <1>e DEF WorkOf
  <2>5. req[r].diff = NoDiff /\ "insert" \in Labels
    BY <1>a, IdleKnowsNothing DEF Labels
  <2>6. Goto(r, "insert")
    BY <1>e
  <2> HIDE DEF w
  <2>7. Only(r) /\ pc'[r] = "insert" /\ req'[r] = w
    BY <2>3, <2>4, <2>5, <2>6, Moves
  <2> QED
    BY <2>3, <2>5, <2>7
<1>h. /\ Held(r)' = new /\ ~Reading(r)'
      /\ \A x \in Item : (Knows(r, x)' <=> x \in new) /\ (Makes(r, x)' <=> x \in new)
  <2>1. Held(r)' = new
    BY <1>0, <1>b, <1>c DEF Held
  <2>2. \A x \in Item : Makes(r, x)' <=> x \in new
    BY <1>0, <2>1 DEF Makes
  <2>3. \A x \in Item : Knows(r, x)' <=> x \in new
    BY <1>0, <2>1, IdleKnowsNothing DEF Knows
  <2> QED
    BY <1>0, <2>1, <2>2, <2>3 DEF Reading
<1>n. \A i \in new : home[i] = Gone /\ \A q \in Request : ~Knows(q, i)
  BY <1>a, <1>b, NamesDiffer DEF Referring, LinesOK
<1>p. /\ \A i \in Item : i \notin new => product'[i] = product[i]
      /\ \A i \in new : product'[i] \in Product
      /\ product' \in [Item -> Product \cup {None}]
  BY <1>b, <1>e DEF RowTypes
<1>o. o \notin orders /\ \A q \in Request : req[q].ord # o
  BY <1>a, NamesDiffer DEF RowTypes, OrdersOK
<1> HIDE DEF new
<1>l. \A z : LinesOf(z)' = LinesOf(z)
  BY <1>a DEF LinesOf
<1>s. \A z : OnSale(z)' <=> OnSale(z)
  BY <1>a DEF OnSale, catalogVars, goods
<1>1. CatalogOK'
  BY <1>0, <1>a, <1>h, <1>l, <1>s, CatalogStays
<1>2. RowTypes'
  BY <1>a, <1>p DEF RowTypes
<1>3. RequestTypes'
  BY <1>0, <1>a, <1>h, <1>l, <1>s DEF Only, RequestTypes
<1>4. Phases'
  BY <1>0, <1>a, <1>h, <1>l, <1>s, Others DEF Phases
<1>5. OrdersOK'
  BY <1>0, <1>a, <1>o, Others, NamesDiffer DEF OrdersOK
<1>6. LinesOK'
  <2>1. ASSUME NEW q \in Request, NEW x \in Item, Knows(q, x)'
        PROVE  /\ home[x] \in {req'[q].ord, Loose, Gone} /\ product'[x] # None
               /\ \A p \in Request : Knows(p, x)' => req'[p].ord = req'[q].ord
    <3>1. CASE x \in new
      <4>1. \A p \in Request : Knows(p, x)' => p = r
        BY <1>0, <1>n, <3>1, Others
      <4> QED
        BY <1>n, <1>p, <2>1, <3>1, <4>1, NamesDiffer
    <3>2. CASE x \notin new
      BY <1>0, <1>h, <1>p, <2>1, <3>2, Others DEF LinesOK
    <3> QED
      BY <3>1, <3>2
  <2>2. ASSUME NEW q \in Request, NEW x \in Item,
               x \in req'[q].diff.insert \cup req'[q].diff.change \cup req'[q].diff.link
        PROVE  x \in Held(q)'
    BY <1>0, <2>2, Others, IdleKnowsNothing DEF LinesOK
  <2> QED
    BY <1>a, <2>1, <2>2 DEF LinesOK
<1>7. NewOK'
  <2>1. ASSUME NEW q \in Request, NEW x \in Item, Makes(q, x)'
        PROVE  home[x] = Gone /\ \A p \in Request : p # q => ~Knows(p, x)'
    <3>1. CASE x \in new
      <4>1. q = r
        BY <1>0, <1>n, <2>1, <3>1, Others, WhatOneMakesOneHolds
      <4> QED
        BY <1>0, <1>n, <3>1, <4>1, Others
    <3>2. CASE x \notin new
      BY <1>0, <1>h, <2>1, <3>2, Others DEF NewOK
    <3> QED
      BY <3>1, <3>2
  <2> QED
    BY <1>0, <1>a, <2>1, Others DEF NewOK
<1>8. Referring'
  BY <1>a, <1>n, <1>p, <1>s DEF Referring
<1>9. FreshStatus'
  BY <1>0, <1>a, <1>h, <1>l, <1>s, Others DEF FreshStatus
<1>10. FreshLines'
  BY <1>0, <1>a, <1>h, <1>l, <1>s, Others DEF FreshLines
<1>11. StatusOK'
  BY <1>0, <1>a, <1>h, <1>l, <1>s DEF StatusOK
<1>12. LinesAreKept'
  BY <1>0, <1>a, <1>h, <1>l, <1>s DEF LinesAreKept
<1> QED
  BY <1>1, <1>2, <1>3, <1>4, <1>5, <1>6, <1>7, <1>8, <1>9, <1>10, <1>11, <1>12 DEF IInv

LEMMA CreateInsertMakesStep ==
  ASSUME IInv, NEW r \in Request,
         CreateInsert(r), \A i \in Held(r) : OnSale(product[i])
  PROVE  IInv'
<1>t. /\ CatalogOK /\ RowTypes /\ RequestTypes /\ Phases /\ OrdersOK /\ LinesOK /\ NewOK
      /\ Referring /\ FreshStatus /\ FreshLines /\ StatusOK /\ LinesAreKept
  BY DEF IInv
<1> USE <1>t
<1>c. pc[r] = "insert" /\ req[r].op = "create" /\ req[r].ord \in Order
  BY DEF CreateInsert, Phases
<1>d. PICK o \in Order, new \in SUBSET Item : o = req[r].ord /\ new = Held(r)
  BY <1>c DEF Held
<1>a. /\ pc[r] = "insert" /\ Finish(r) /\ req[r].op = "create" /\ o = req[r].ord
      /\ new = Held(r)
      /\ o \notin orders /\ \A q \in Request : q # r => req[q].ord # o
      /\ UNCHANGED <<catalogVars, everOrder, status, product, told, missed, causes>>
  BY <1>c, <1>d DEF CreateInsert, OrdersOK
<1>e. /\ orders' = orders \cup {o}
      /\ home' = [i \in Item |-> IF i \in new THEN o ELSE home[i]]
      /\ quantity' = [i \in Item |-> IF i \in new THEN req[r].held.lines[i] ELSE quantity[i]]
      /\ wanted' = [wanted EXCEPT ![o] = new]
  BY <1>d DEF CreateInsert, Held
<1>0. Only(r) /\ pc'[r] = "done" /\ req'[r] = Idle
  BY <1>a, Finishes
<1>h. /\ Held(r)' = {} /\ ~Reading(r)' /\ \A i \in Item : ~Knows(r, i)' /\ ~Makes(r, i)'
      /\ req'[r].op = "none" /\ req'[r].ord = None /\ req'[r].diff = NoDiff
      /\ req'[r].line = None
      /\ NoDiff.cut = {} /\ NoDiff.insert = {} /\ NoDiff.change = {} /\ NoDiff.link = {}
  BY <1>0, IdleRequestsNext, IdleKnowsNothing
<1>n. \A i \in new : /\ i \in Item /\ home[i] = Gone /\ req[r].held.lines[i] \in Quantity
                     /\ product[i] # None /\ req[r].held.lines[i] > 0
                     /\ \A q \in Request : q # r => ~Knows(q, i)
  BY <1>a, Typed, NamesDiffer DEF NewOK, Makes, Held, LinesOK, Knows
<1>u. /\ new \subseteq Item /\ o \in everOrder
      /\ \A i \in Item : req[r].held.lines[i] \in Quantity \cup {0}
  BY <1>a, Typed, NamesDiffer DEF OrdersOK, Held
<1>l. /\ LinesOf(o)' = new /\ LinesOf(o) = {}
      /\ \A x \in Order : x # o => LinesOf(x)' = LinesOf(x)
  <2>1. LinesOf(o) = {}
    BY <1>a, NamesDiffer DEF LinesOf, Referring, RowTypes
  <2>2. LinesOf(o)' = new
    BY <1>e, <1>u, <2>1 DEF LinesOf
  <2>3. ASSUME NEW x \in Order, x # o PROVE LinesOf(x)' = LinesOf(x)
    BY <1>e, <1>n, <2>3, NamesDiffer DEF LinesOf
  <2> QED
    BY <2>1, <2>2, <2>3
<1>s. \A z : OnSale(z)' <=> OnSale(z)
  BY <1>a DEF OnSale, catalogVars, goods
<1>1. CatalogOK'
  BY <1>0, <1>a, <1>h, <1>s, CatalogStays
<1>2. RowTypes'
  <2>1. orders' \in SUBSET Order /\ orders' \subseteq everOrder'
    BY <1>a, <1>e, <1>u DEF RowTypes
  <2>2. home' \in [Item -> Order \cup {Loose, Gone}] /\ quantity' \in [Item -> Quantity \cup {0}]
    BY <1>a, <1>e, <1>u DEF RowTypes
  <2>3. wanted' \in [Order -> SUBSET Item]
    BY <1>a, <1>e, <1>u DEF RowTypes
  <2> QED
    BY <1>a, <2>1, <2>2, <2>3 DEF RowTypes
<1>3. RequestTypes'
  BY <1>0, <1>a, <1>h, <1>s DEF Only, RequestTypes
<1>4. Phases'
  BY <1>0, <1>a, <1>h, <1>s, Others DEF Phases
<1>5. OrdersOK'
  BY <1>0, <1>h, <1>a, <1>e, Others, NamesDiffer DEF OrdersOK, Phases
<1>6. LinesOK'
  <2>1. ASSUME NEW q \in Request, NEW x \in Item, Knows(q, x)'
        PROVE  q # r /\ x \notin new /\ home'[x] = home[x] /\ Knows(q, x) /\ req'[q] = req[q]
    BY <1>0, <1>e, <1>h, <1>n, <2>1, Others
  <2> QED
    BY <1>0, <1>a, <1>h, <2>1, Others DEF LinesOK
<1>7. NewOK'
  <2>1. ASSUME NEW q \in Request, NEW x \in Item, Makes(q, x)'
        PROVE  home'[x] = Gone /\ \A p \in Request : p # q => ~Knows(p, x)'
    <3>1. q # r /\ Makes(q, x)
      BY <1>0, <1>h, <2>1, Others
    <3>2. home[x] = Gone /\ \A p \in Request : p # q => ~Knows(p, x)
      BY <3>1 DEF NewOK
    <3>3. x \notin new
      BY <1>a, <1>d, <3>1, <3>2, <1>0, Others DEF Knows
    <3> QED
      BY <1>0, <1>e, <1>h, <3>2, <3>3, Others
  <2> QED
    BY <1>0, <1>h, <2>1, Others DEF NewOK
<1>8. Referring'
  BY <1>a, <1>e, <1>n, <1>s, <1>t, NamesDiffer DEF Referring, RowTypes
<1>9. FreshStatus'
  BY <1>0, <1>a, <1>e, <1>h, Others DEF FreshStatus
<1>10. FreshLines'
  <2>1. ASSUME NEW q \in Request, Reading(q)', "lines" \notin missed'[q]
        PROVE  /\ q # r /\ Reading(q) /\ req'[q] = req[q] /\ req[q].ord \in orders
               /\ LinesOf(req[q].ord)' = LinesOf(req[q].ord)
    <3>1. q # r /\ Reading(q) /\ req'[q] = req[q]
      BY <1>0, <1>h, <2>1, Others
    <3>2. req[q].ord \in orders /\ req[q].ord # o
      BY <1>a, <2>1, <3>1 DEF FreshLines
    <3> QED
      BY <1>l, <3>1, <3>2 DEF RowTypes
  <2> QED
    BY <1>0, <1>a, <1>e, <2>1, Others DEF FreshLines
<1>11. StatusOK'
  BY <1>0, <1>a, <1>h, <1>s DEF StatusOK
<1>12. LinesAreKept'
  <2>1. \A x \in Order : wanted'[x] = IF x = o THEN new ELSE wanted[x]
    BY <1>a, <1>e DEF RowTypes
  <2> QED
    BY <1>a, <1>l, <2>1 DEF LinesAreKept
<1> QED
  BY <1>1, <1>2, <1>3, <1>4, <1>5, <1>6, <1>7, <1>8, <1>9, <1>10, <1>11, <1>12 DEF IInv

LEMMA FindProductAddsStep ==
  ASSUME IInv, NEW r \in Request, NEW i \in Item, NEW p \in Product, NEW n \in Quantity,
         FindProduct(r, i, p, n), OnSale(p)
  PROVE  IInv'
<1>t. /\ CatalogOK /\ RowTypes /\ RequestTypes /\ Phases /\ OrdersOK /\ LinesOK /\ NewOK
      /\ Referring /\ FreshStatus /\ FreshLines /\ StatusOK /\ LinesAreKept
  BY DEF IInv
<1> USE <1>t
<1> DEFINE sum == req[r].held.total + n * cost[p]
           w == [req[r] EXCEPT !.line = i, !.held.lines[i] = n, !.held.total = sum]
<1>a. /\ pc[r] = "product" /\ req[r].op = "add" /\ req[r].ord \in Order /\ req[r].diff = NoDiff
      /\ product[i] = None /\ home[i] = Gone /\ \A q \in Request : ~Knows(q, i)
      /\ UNCHANGED <<catalogVars, orders, everOrder, status, home, quantity, told, wanted,
                     missed, causes>>
  BY NamesDiffer DEF FindProduct, Phases, Referring, LinesOK, history
<1>e. /\ product' = [product EXCEPT ![i] = p]
      /\ req' = [req EXCEPT ![r].line = i, ![r].held.lines[i] = n,
                            ![r].held.total = @ + n * cost[p]]
      /\ Goto(r, "save")
  BY DEF FindProduct
<1>0. /\ Only(r) /\ pc'[r] = "save" /\ req'[r].op = "add" /\ req'[r].ord = req[r].ord
      /\ req'[r].line = i /\ req'[r].held.status = req[r].held.status
      /\ req'[r].held.lines = [req[r].held.lines EXCEPT ![i] = n]
      /\ req'[r].diff = NoDiff
  <2>1. PICK old : req \in [Request -> WorkOf(old)]
    BY DEF RequestTypes
  <2>2. /\ w \in WorkOf(old \cup {sum}) /\ w.op = "add" /\ w.ord = req[r].ord /\ w.line = i
        /\ w.held.status = req[r].held.status /\ w.diff = NoDiff
        /\ w.held.lines = [req[r].held.lines EXCEPT ![i] = n]
    <3> HIDE DEF sum
    <3>1. /\ req[r] \in WorkOf(old) /\ i \in Item /\ req[r].op = "add"
          /\ req[r].held.lines \in [Item -> Quantity \cup {0}]
      BY <2>1, <1>a DEF WorkOf
    <3>2. [req[r].held.lines EXCEPT ![i] = n] \in [Item -> Quantity \cup {0}]
      BY <3>1
    <3> QED
      BY <3>1, <3>2, <1>a DEF WorkOf
  <2>3. req' = [req EXCEPT ![r] = w]
    BY <2>1, <1>e DEF WorkOf
  <2>4. Goto(r, "save") /\ "save" \in Labels
    BY <1>e DEF Labels
  <2> HIDE DEF w
  <2>5. Only(r) /\ pc'[r] = "save" /\ req'[r] = w
    BY <2>2, <2>3, <2>4, Moves
  <2> QED
    BY <1>a, <2>2, <2>5
<1>h. /\ Held(r)' = Held(r) \cup {i} /\ Reading(r)' /\ Reading(r)
      /\ \A x \in Item : /\ Knows(r, x)' <=> Knows(r, x) \/ x = i
                         /\ Makes(r, x)' <=> x = i
                         /\ ~Makes(r, x)
  <2>1. Held(r)' = Held(r) \cup {i}
    BY <1>0, Typed, NamesDiffer DEF Held
  <2>2. \A x \in Item : (Makes(r, x)' <=> x = i) /\ ~Makes(r, x)
    BY <1>0, <1>a DEF Makes
  <2>3. \A x \in Item : Knows(r, x)' <=> Knows(r, x) \/ x = i
    BY <1>0, <1>a, <2>1 DEF Knows
  <2> QED
    BY <1>0, <1>a, <2>1, <2>2, <2>3 DEF Reading
<1>k. i \notin Held(r) /\ Known(r)' = Known(r)
  BY <1>a, <1>h DEF Known, Knows, Held
<1>p. /\ \A x \in Item : x # i => product'[x] = product[x]
      /\ product'[i] = p /\ product' \in [Item -> Product \cup {None}]
  BY <1>e DEF RowTypes
<1>l. \A z : LinesOf(z)' = LinesOf(z)
  BY <1>a DEF LinesOf
<1>s. \A z : OnSale(z)' <=> OnSale(z)
  BY <1>a DEF OnSale, catalogVars, goods
<1>1. CatalogOK'
  BY <1>0, <1>a, <1>h, <1>k, <1>l, <1>s, CatalogStays
<1>2. RowTypes'
  BY <1>a, <1>p DEF RowTypes
<1>3. RequestTypes'
  BY <1>0, <1>a, <1>h, <1>k, <1>l, <1>s DEF Only, RequestTypes
<1>4. Phases'
  BY <1>0, <1>a, <1>h, <1>k, <1>l, <1>s, Others DEF Phases
<1>5. OrdersOK'
  BY <1>0, <1>a, <1>h, <1>k, <1>l, <1>s, Others, NamesDiffer DEF OrdersOK, Phases, RowTypes
<1>6. LinesOK'
  <2>1. ASSUME NEW q \in Request, NEW x \in Item, Knows(q, x)'
        PROVE  /\ home[x] \in {req'[q].ord, Loose, Gone} /\ product'[x] # None
               /\ \A y \in Request : Knows(y, x)' => req'[y].ord = req'[q].ord
    <3>1. CASE x = i
      <4>1. \A y \in Request : Knows(y, x)' => y = r
        BY <1>0, <1>a, <3>1, Others
      <4> QED
        BY <1>a, <1>p, <2>1, <3>1, <4>1, NamesDiffer
    <3>2. CASE x # i
      BY <1>0, <1>h, <1>p, <2>1, <3>2, Others DEF LinesOK
    <3> QED
      BY <3>1, <3>2
  <2>2. ASSUME NEW q \in Request, NEW x \in Item,
               x \in req'[q].diff.insert \cup req'[q].diff.change \cup req'[q].diff.link
        PROVE  x \in Held(q)'
    BY <1>0, <2>2, Others, IdleKnowsNothing DEF LinesOK
  <2> QED
    BY <1>a, <2>1, <2>2 DEF LinesOK
<1>7. NewOK'
  <2>1. ASSUME NEW q \in Request, NEW x \in Item, Makes(q, x)'
        PROVE  home[x] = Gone /\ \A y \in Request : y # q => ~Knows(y, x)'
    <3>1. CASE x = i
      <4>1. q = r
        BY <1>0, <1>a, <2>1, <3>1, Others, WhatOneMakesOneHolds
      <4> QED
        BY <1>0, <1>a, <3>1, <4>1, Others
    <3>2. CASE x # i
      BY <1>0, <1>h, <2>1, <3>2, Others DEF NewOK
    <3> QED
      BY <3>1, <3>2
  <2> QED
    BY <1>0, <1>a, <1>h, <2>1, Others DEF NewOK
<1>8. Referring'
  BY <1>a, <1>p, <1>s DEF Referring
<1>9. FreshStatus'
  BY <1>0, <1>a, <1>h, Others, IdleKnowsNothing DEF FreshStatus
<1>10. FreshLines'
  BY <1>0, <1>a, <1>h, <1>k, <1>l, <1>s, Others DEF FreshLines
<1>11. StatusOK'
  BY <1>0, <1>a, <1>h, <1>k, <1>l, <1>s DEF StatusOK
<1>12. LinesAreKept'
  BY <1>0, <1>a, <1>h, <1>k, <1>l, <1>s DEF LinesAreKept
<1> QED
  BY <1>1, <1>2, <1>3, <1>4, <1>5, <1>6, <1>7, <1>8, <1>9, <1>10, <1>11, <1>12 DEF IInv

LEMMA ReloadItemStep ==
  ASSUME IInv, NEW r \in Request, NEW n \in Quantity,
         ReloadItem(r, n)
  PROVE  IInv'
<1>t. /\ CatalogOK /\ RowTypes /\ RequestTypes /\ Phases /\ OrdersOK /\ LinesOK /\ NewOK
      /\ Referring /\ FreshStatus /\ FreshLines /\ StatusOK /\ LinesAreKept
  BY DEF IInv
<1> USE <1>t
<1>p. PICK i \in Item : i = req[r].line /\ i \in Held(r)
  BY Typed, NamesDiffer DEF ReloadItem, Phases, NewOK, Held
<1>q. PICK to \in {"insertItem", "writeItem", "save"} : Goto(r, to)
  BY DEF ReloadItem
<1> DEFINE sum == req[r].held.total + (n - req[r].held.lines[i]) * price[i]
           w == [req[r] EXCEPT !.held.lines[i] = n, !.held.total = sum]
<1>a. /\ pc[r] = "item" /\ req[r].op = "change" /\ req[r].ord \in Order /\ req[r].diff = NoDiff
      /\ UNCHANGED <<catalogVars, orders, everOrder, status, home, quantity, product, told,
                     wanted, missed, causes>>
  BY DEF ReloadItem, Phases, history, rows
<1>e. /\ req' = [req EXCEPT ![r].held.lines[i] = n,
                            ![r].held.total = @ + (n - req[r].held.lines[i]) * price[i]]
      /\ Goto(r, to)
  BY <1>p, <1>q DEF ReloadItem
<1>0. /\ Only(r) /\ pc'[r] = to /\ req'[r].op = "change" /\ req'[r].ord = req[r].ord
      /\ req'[r].line = i /\ req'[r].held.status = req[r].held.status
      /\ req'[r].held.lines = [req[r].held.lines EXCEPT ![i] = n]
      /\ req'[r].diff = NoDiff
  <2>1. PICK old : req \in [Request -> WorkOf(old)]
    BY DEF RequestTypes
  <2>2. /\ w \in WorkOf(old \cup {sum}) /\ w.op = "change" /\ w.ord = req[r].ord /\ w.line = i
        /\ w.held.status = req[r].held.status /\ w.diff = NoDiff
        /\ w.held.lines = [req[r].held.lines EXCEPT ![i] = n]
    <3> HIDE DEF sum
    <3> QED
      BY <2>1, <1>a, <1>p DEF WorkOf
  <2>3. req' = [req EXCEPT ![r] = w]
    BY <2>1, <1>e DEF WorkOf
  <2>4. Goto(r, to) /\ to \in Labels
    BY <1>e DEF Labels
  <2> HIDE DEF w
  <2>5. Only(r) /\ pc'[r] = to /\ req'[r] = w
    BY <2>2, <2>3, <2>4, Moves
  <2> QED
    BY <1>a, <2>2, <2>5
<1>h. /\ Held(r)' = Held(r) /\ Reading(r)' /\ Reading(r)
      /\ \A x \in Item : /\ Knows(r, x)' <=> Knows(r, x)
                         /\ ~Makes(r, x)' /\ ~Makes(r, x)
  <2>1. Held(r)' = Held(r)
    BY <1>0, <1>p, Typed, NamesDiffer DEF Held
  <2>2. \A x \in Item : ~Makes(r, x)' /\ ~Makes(r, x)
    BY <1>0, <1>a DEF Makes
  <2>3. \A x \in Item : Knows(r, x)' <=> Knows(r, x)
    BY <1>0, <1>a, <2>1 DEF Knows
  <2> QED
    BY <1>0, <1>a, <2>1, <2>2, <2>3 DEF Reading
<1>k. Known(r)' = Known(r)
  BY <1>h, HeldAreItems DEF Known
<1>l. \A z : LinesOf(z)' = LinesOf(z)
  BY <1>a DEF LinesOf
<1>s. \A z : OnSale(z)' <=> OnSale(z)
  BY <1>a DEF OnSale, catalogVars, goods
<1>1. CatalogOK'
  BY <1>0, <1>a, <1>h, <1>k, <1>l, <1>s, CatalogStays
<1>2. RowTypes'
  BY <1>0, <1>a, <1>h, <1>k, <1>l, <1>s DEF RowTypes
<1>3. RequestTypes'
  BY <1>0, <1>a, <1>h, <1>k, <1>l, <1>s DEF Only, RequestTypes
<1>4. Phases'
  BY <1>0, <1>a, <1>h, <1>k, <1>l, <1>s, Others DEF Phases
<1>5. OrdersOK'
  BY <1>0, <1>a, <1>h, <1>k, <1>l, <1>s, Others, NamesDiffer DEF OrdersOK, Phases, RowTypes
<1>6. LinesOK'
  BY <1>0, <1>a, <1>h, Others, IdleKnowsNothing DEF LinesOK
<1>7. NewOK'
  BY <1>0, <1>a, <1>h, <1>p, Others DEF NewOK
<1>8. Referring'
  BY <1>0, <1>a, <1>h, <1>k, <1>l, <1>s DEF Referring
<1>9. FreshStatus'
  BY <1>0, <1>a, <1>h, Others, IdleKnowsNothing DEF FreshStatus
<1>10. FreshLines'
  BY <1>0, <1>a, <1>h, <1>k, <1>l, <1>s, Others DEF FreshLines
<1>11. StatusOK'
  BY <1>0, <1>a, <1>h, <1>k, <1>l, <1>s DEF StatusOK
<1>12. LinesAreKept'
  BY <1>0, <1>a, <1>h, <1>k, <1>l, <1>s DEF LinesAreKept
<1> QED
  BY <1>1, <1>2, <1>3, <1>4, <1>5, <1>6, <1>7, <1>8, <1>9, <1>10, <1>11, <1>12 DEF IInv

LEMMA WriteItemStep ==
  ASSUME IInv, NEW r \in Request,
         WriteItem(r)
  PROVE  IInv'
<1>t. /\ CatalogOK /\ RowTypes /\ RequestTypes /\ Phases /\ OrdersOK /\ LinesOK /\ NewOK
      /\ Referring /\ FreshStatus /\ FreshLines /\ StatusOK /\ LinesAreKept
  BY DEF IInv
<1> USE <1>t
<1>d. PICK i \in Item, o \in Order : i = req[r].line /\ i \in Held(r) /\ o = req[r].ord
  BY Typed, NamesDiffer DEF WriteItem, Phases, NewOK, Held
<1>a. /\ pc[r] = "writeItem" /\ req[r].op = "change" /\ req[r].diff = NoDiff
      /\ UNCHANGED <<catalogVars, orders, everOrder, status, home, product, told,
                     wanted, causes, req>>
      /\ quantity' = [quantity EXCEPT ![i] = IF home[i] = Gone THEN @
                                             ELSE req[r].held.lines[i]]
      /\ Goto(r, "save") /\ "save" \in Labels
  BY <1>d DEF WriteItem, Phases, Labels
<1>0. Only(r) /\ pc'[r] = "save" /\ req'[r] = req[r]
  BY <1>a, Passes
<1>h. /\ Held(r)' = Held(r) /\ Reading(r)' /\ Reading(r)
      /\ \A x \in Item : /\ Knows(r, x)' <=> Knows(r, x)
                         /\ ~Makes(r, x)' /\ ~Makes(r, x)
  BY <1>0, <1>a DEF Held, Reading, Knows, Makes
<1>k. Known(r)' = Known(r)
  BY <1>h, HeldAreItems DEF Known
<1>n. req[r].held.lines[i] \in Quantity /\ req[r].held.lines[i] > 0
  BY <1>d, Typed, NamesDiffer DEF Held

<1>m. /\ missed' \in [Request -> SUBSET {"lines", "status"}] /\ missed'[r] = missed[r]
      /\ \A q \in Request : missed[q] \subseteq missed'[q]
      /\ \A q \in Request : q # r /\ req[q].ord = o => "lines" \in missed'[q]
  BY <1>d DEF WriteItem, Touch, RequestTypes
<1>l. \A z : LinesOf(z)' = LinesOf(z)
  BY <1>a DEF LinesOf
<1>s. \A z : OnSale(z)' <=> OnSale(z)
  BY <1>a DEF OnSale, catalogVars, goods
<1>1. CatalogOK'
  BY <1>0, <1>a, <1>h, <1>l, <1>s, CatalogStays
<1>2. RowTypes'
  BY <1>a, <1>n DEF RowTypes
<1>3. RequestTypes'
  BY <1>0, <1>m DEF Only, RequestTypes
<1>4. Phases'
  BY <1>0, <1>a, <1>h, <1>l, <1>s, Others DEF Phases
<1>5. OrdersOK'
  BY <1>0, <1>a, <1>h, <1>l, <1>s, Others, NamesDiffer DEF OrdersOK, Phases, RowTypes
<1>6. LinesOK'
  BY <1>0, <1>a, <1>h, Others DEF LinesOK
<1>7. NewOK'
  BY <1>0, <1>a, <1>h, Others DEF NewOK
<1>8. Referring'
  BY <1>a, <1>n, <1>s DEF Referring, RowTypes
<1>9. FreshStatus'
  BY <1>0, <1>a, <1>h, <1>m, Others DEF FreshStatus
<1>10. FreshLines'
  BY <1>0, <1>a, <1>h, <1>k, <1>l, <1>m, Others DEF FreshLines
<1>11. StatusOK'
  BY <1>0, <1>a, <1>h, <1>l, <1>s DEF StatusOK
<1>12. LinesAreKept'
  BY <1>0, <1>a, <1>h, <1>l, <1>s DEF LinesAreKept
<1> QED
  BY <1>1, <1>2, <1>3, <1>4, <1>5, <1>6, <1>7, <1>8, <1>9, <1>10, <1>11, <1>12 DEF IInv

LEMMA InsertItemMakesStep ==
  ASSUME IInv, NEW r \in Request,
         InsertItem(r), home[req[r].line] = Gone, OnSale(product[req[r].line])
  PROVE  IInv'
<1>t. /\ CatalogOK /\ RowTypes /\ RequestTypes /\ Phases /\ OrdersOK /\ LinesOK /\ NewOK
      /\ Referring /\ FreshStatus /\ FreshLines /\ StatusOK /\ LinesAreKept
  BY DEF IInv
<1> USE <1>t
<1>d. PICK i \in Item, o \in Order : i = req[r].line /\ i \in Held(r) /\ o = req[r].ord
  BY Typed, NamesDiffer DEF InsertItem, Phases, NewOK, Held
<1>a. /\ pc[r] = "insertItem" /\ req[r].op = "change" /\ req[r].diff = NoDiff
      /\ UNCHANGED <<catalogVars, orders, everOrder, status, product, told,
                     wanted, causes, missed, req>>
      /\ home' = [home EXCEPT ![i] = Loose] /\ home[i] = Gone /\ OnSale(product[i])
      /\ quantity' = [quantity EXCEPT ![i] = req[r].held.lines[i]]
      /\ Goto(r, "save") /\ "save" \in Labels
  BY <1>d DEF InsertItem, Phases, Labels, history
<1>0. Only(r) /\ pc'[r] = "save" /\ req'[r] = req[r]
  BY <1>a, Passes
<1>h. /\ Held(r)' = Held(r) /\ Reading(r)' /\ Reading(r)
      /\ \A x \in Item : /\ Knows(r, x)' <=> Knows(r, x)
                         /\ ~Makes(r, x)' /\ ~Makes(r, x)
  BY <1>0, <1>a DEF Held, Reading, Knows, Makes
<1>k. Known(r)' = Known(r)
  BY <1>h, HeldAreItems DEF Known
<1>n. /\ req[r].held.lines[i] \in Quantity /\ req[r].held.lines[i] > 0
      /\ Knows(r, i) /\ product[i] \in Product
  BY <1>d, Typed, NamesDiffer DEF Held, Knows, LinesOK, RowTypes
<1>u. /\ home'[i] = Loose /\ \A x \in Item : x # i => home'[x] = home[x]
      /\ quantity'[i] = req[r].held.lines[i]
      /\ \A x \in Item : x # i => quantity'[x] = quantity[x]
  BY <1>a DEF RowTypes
<1>l. \A x \in Order : LinesOf(x)' = LinesOf(x)
  BY <1>a, <1>u, NamesDiffer DEF LinesOf
<1>s. \A z : OnSale(z)' <=> OnSale(z)
  BY <1>a DEF OnSale, catalogVars, goods
<1>1. CatalogOK'
  BY <1>0, <1>a, <1>h, <1>l, <1>s, CatalogStays
<1>2. RowTypes'
  BY <1>a, <1>n DEF RowTypes
<1>3. RequestTypes'
  BY <1>0, <1>a, <1>h, <1>l, <1>s DEF Only, RequestTypes
<1>4. Phases'
  BY <1>0, <1>a, <1>h, <1>l, <1>s, Others DEF Phases
<1>5. OrdersOK'
  BY <1>0, <1>a, <1>h, <1>l, <1>s, Others, NamesDiffer DEF OrdersOK, Phases, RowTypes
<1>6. LinesOK'
  BY <1>0, <1>a, <1>h, <1>u, Others DEF LinesOK
<1>7. NewOK'
  <2>1. ASSUME NEW q \in Request, NEW x \in Item, Makes(q, x)'
        PROVE  home'[x] = Gone /\ \A p \in Request : p # q => ~Knows(p, x)'
    <3>1. q # r /\ Makes(q, x)
      BY <1>0, <1>h, <2>1, Others
    <3>2. home[x] = Gone /\ \A p \in Request : p # q => ~Knows(p, x)
      BY <3>1 DEF NewOK
    <3>3. x # i
      BY <1>n, <3>1, <3>2
    <3> QED
      BY <1>0, <1>h, <1>u, <3>2, <3>3, Others
  <2> QED
    BY <1>0, <1>a, <1>h, <2>1, Others DEF NewOK
<1>8. Referring'
  BY <1>a, <1>n, <1>s, <1>u, NamesDiffer DEF Referring, RowTypes
<1>9. FreshStatus'
  BY <1>0, <1>a, <1>h, <1>l, <1>s, Others DEF FreshStatus
<1>10. FreshLines'
  BY <1>0, <1>a, <1>h, <1>k, <1>l, Others DEF FreshLines, RowTypes
<1>11. StatusOK'
  BY <1>0, <1>a, <1>h, <1>l, <1>s DEF StatusOK
<1>12. LinesAreKept'
  BY <1>0, <1>a, <1>h, <1>l, <1>s DEF LinesAreKept
<1> QED
  BY <1>1, <1>2, <1>3, <1>4, <1>5, <1>6, <1>7, <1>8, <1>9, <1>10, <1>11, <1>12 DEF IInv

LEMMA DeleteItemStep ==
  ASSUME IInv, NEW r \in Request,
         DeleteItem(r)
  PROVE  IInv'
<1>t. /\ CatalogOK /\ RowTypes /\ RequestTypes /\ Phases /\ OrdersOK /\ LinesOK /\ NewOK
      /\ Referring /\ FreshStatus /\ FreshLines /\ StatusOK /\ LinesAreKept
  BY DEF IInv
<1> USE <1>t
<1>d. PICK i \in Item, o \in Order : i = req[r].line /\ i \in Held(r) /\ o = req[r].ord
  BY Typed, NamesDiffer DEF DeleteItem, Phases, NewOK, Held
<1> DEFINE sum == req[r].held.total - req[r].held.lines[i] * price[i]
           w == [req[r] EXCEPT !.held.lines[i] = 0, !.held.total = sum]
<1>a. /\ pc[r] = "deleteItem" /\ req[r].op = "drop" /\ req[r].diff = NoDiff
      /\ UNCHANGED <<catalogVars, orders, everOrder, status, quantity, product, told, causes>>
      /\ home' = [home EXCEPT ![i] = Gone]
      /\ wanted' = [wanted EXCEPT ![o] = @ \ {i}]
  BY <1>d DEF DeleteItem, Phases
<1>e. /\ req' = [req EXCEPT ![r].held.lines[i] = 0,
                            ![r].held.total = @ - req[r].held.lines[i] * price[i]]
      /\ Goto(r, "save")
  BY <1>d DEF DeleteItem
<1>0. /\ Only(r) /\ pc'[r] = "save" /\ req'[r].op = "drop" /\ req'[r].ord = req[r].ord
      /\ req'[r].line = req[r].line /\ req'[r].held.status = req[r].held.status
      /\ req'[r].held.lines = [req[r].held.lines EXCEPT ![i] = 0]
      /\ req'[r].diff = NoDiff
  <2>1. PICK old : req \in [Request -> WorkOf(old)]
    BY DEF RequestTypes
  <2>2. /\ w \in WorkOf(old \cup {sum}) /\ w.op = "drop" /\ w.ord = req[r].ord
        /\ w.held.status = req[r].held.status /\ w.diff = NoDiff /\ w.line = req[r].line
        /\ w.held.lines = [req[r].held.lines EXCEPT ![i] = 0]
    <3> HIDE DEF sum
    <3> QED
      BY <2>1, <1>a, <1>d DEF WorkOf
  <2>3. req' = [req EXCEPT ![r] = w]
    BY <2>1, <1>e DEF WorkOf
  <2>4. Goto(r, "save") /\ "save" \in Labels
    BY <1>e DEF Labels
  <2> HIDE DEF w
  <2>5. Only(r) /\ pc'[r] = "save" /\ req'[r] = w
    BY <2>2, <2>3, <2>4, Moves
  <2> QED
    BY <1>a, <2>2, <2>5
<1>h. /\ Held(r)' = Held(r) \ {i} /\ Reading(r)' /\ Reading(r)
      /\ \A x \in Item : /\ Knows(r, x)' <=> Knows(r, x) /\ x # i
                         /\ ~Makes(r, x)' /\ ~Makes(r, x)
  <2>1. Held(r)' = Held(r) \ {i}
    BY <1>0, <1>d, Typed, NamesDiffer DEF Held
  <2>2. \A x \in Item : ~Makes(r, x)' /\ ~Makes(r, x)
    BY <1>0, <1>a DEF Makes
  <2>3. \A x \in Item : Knows(r, x)' <=> Knows(r, x) /\ x # i
    BY <1>0, <1>a, <2>1, IdleKnowsNothing DEF Knows
  <2> QED
    BY <1>0, <1>a, <2>1, <2>2, <2>3 DEF Reading
<1>k. Known(r)' = Known(r) \ {i}
  BY <1>h, HeldAreItems DEF Known
<1>n. home[i] \in {o, Loose, Gone} /\ \A q \in Request : Knows(q, i) => req[q].ord = o
  BY <1>d DEF LinesOK, Knows
<1>u. home'[i] = Gone /\ \A x \in Item : x # i => home'[x] = home[x]
  BY <1>a DEF RowTypes
<1>l. LinesOf(o)' = LinesOf(o) \ {i} /\ \A x \in Order : x # o => LinesOf(x)' = LinesOf(x)
  BY <1>n, <1>u, NamesDiffer DEF LinesOf
<1>s. \A z : OnSale(z)' <=> OnSale(z)
  BY <1>a DEF OnSale, catalogVars, goods
<1>m. /\ missed' \in [Request -> SUBSET {"lines", "status"}] /\ missed'[r] = missed[r]
      /\ \A q \in Request : missed[q] \subseteq missed'[q]
      /\ \A q \in Request : q # r /\ req[q].ord = o => "lines" \in missed'[q]
  BY <1>d DEF DeleteItem, Touch, RequestTypes
<1>1. CatalogOK'
  BY <1>0, <1>a, <1>h, <1>s, CatalogStays
<1>2. RowTypes'
  BY <1>a DEF RowTypes
<1>3. RequestTypes'
  BY <1>0, <1>m DEF Only, RequestTypes
<1>4. Phases'
  BY <1>0, <1>a, <1>h, <1>s, Others DEF Phases
<1>5. OrdersOK'
  BY <1>0, <1>a, <1>h, <1>s, Others, NamesDiffer DEF OrdersOK, Phases, RowTypes
<1>6. LinesOK'
  <2>1. ASSUME NEW q \in Request, NEW x \in Item, Knows(q, x)'
        PROVE  /\ home'[x] \in {req'[q].ord, Loose, Gone} /\ product[x] # None
               /\ \A p \in Request : Knows(p, x)' => req'[p].ord = req'[q].ord
    BY <1>0, <1>h, <1>u, <2>1, Others DEF LinesOK
  <2>2. ASSUME NEW q \in Request, NEW x \in Item,
               x \in req'[q].diff.insert \cup req'[q].diff.change \cup req'[q].diff.link
        PROVE  x \in Held(q)'
    BY <1>0, <2>2, Others, IdleKnowsNothing DEF LinesOK
  <2> QED
    BY <1>a, <2>1, <2>2 DEF LinesOK
<1>7. NewOK'
  <2>1. ASSUME NEW q \in Request, NEW x \in Item, Makes(q, x)'
        PROVE  home'[x] = Gone /\ \A p \in Request : p # q => ~Knows(p, x)'
    BY <1>0, <1>h, <1>u, <2>1, Others DEF NewOK
  <2> QED
    BY <1>0, <1>h, <2>1, Others DEF NewOK
<1>8. Referring'
  BY <1>a, <1>s, <1>u DEF Referring
<1>9. FreshStatus'
  BY <1>0, <1>a, <1>h, <1>m, Others, IdleKnowsNothing DEF FreshStatus
<1>10. FreshLines'
  <2>1. ASSUME NEW q \in Request, q # r, Reading(q)', "lines" \notin missed'[q]
        PROVE  Reading(q) /\ "lines" \notin missed[q] /\ LinesOf(req[q].ord)' = LinesOf(req[q].ord)
    BY <1>0, <1>l, <1>m, <2>1, Others DEF FreshLines, RowTypes
  <2>2. ASSUME "lines" \notin missed'[r]
        PROVE  o \in orders /\ Known(r)' = LinesOf(o)'
    BY <1>d, <1>h, <1>k, <1>l, <1>m, <2>2 DEF FreshLines
  <2>3. ASSUME NEW q \in Request, NEW x \in Order, x = req'[q].ord, Reading(q)',
               "lines" \notin missed'[q]
        PROVE  /\ x \in orders' /\ Known(q)' = LinesOf(x)'
               /\ pc'[q] = "write" => /\ req'[q].diff.insert = Added(q)'
                                      /\ req'[q].diff.link = {} /\ req'[q].diff.cut = {}
    <3>1. CASE q = r
      BY <1>0, <1>a, <1>d, <2>2, <2>3, <3>1
    <3>2. CASE q # r
      <4>1. /\ Reading(q) /\ "lines" \notin missed[q] /\ req'[q] = req[q] /\ pc'[q] = pc[q]
            /\ Known(q)' = Known(q) /\ Added(q)' = Added(q) /\ x # o
        BY <1>0, <1>m, <2>3, <3>2, Others
      <4>2. LinesOf(x)' = LinesOf(x)
        BY <1>l, <4>1
      <4> QED
        BY <1>a, <2>3, <4>1, <4>2 DEF FreshLines
    <3> QED
      BY <3>1, <3>2
  <2>4. ASSUME NEW q \in Request, Reading(q)', "lines" \notin missed'[q]
        PROVE  req'[q].ord \in Order
    <3>1. CASE q = r
      BY <1>0, <1>d, <3>1
    <3>2. CASE q # r
      BY <1>0, <1>m, <2>4, <3>2, Others DEF FreshLines, RowTypes
    <3> QED
      BY <3>1, <3>2
  <2> QED
    BY <2>3, <2>4 DEF FreshLines
<1>11. StatusOK'
  BY <1>0, <1>a, <1>h, <1>s DEF StatusOK
<1>12. LinesAreKept'
  <2>1. \A x \in Order : wanted'[x] = IF x = o THEN wanted[x] \ {i} ELSE wanted[x]
    BY <1>a DEF RowTypes
  <2> QED
    BY <1>a, <1>l, <2>1 DEF LinesAreKept
<1> QED
  BY <1>1, <1>2, <1>3, <1>4, <1>5, <1>6, <1>7, <1>8, <1>9, <1>10, <1>11, <1>12 DEF IInv

LEMMA ReloadFindsStep ==
  ASSUME IInv, NEW r \in Request,
         Reload(r), ~Finish(r)
  PROVE  IInv'
<1>t. /\ CatalogOK /\ RowTypes /\ RequestTypes /\ Phases /\ OrdersOK /\ LinesOK /\ NewOK
      /\ Referring /\ FreshStatus /\ FreshLines /\ StatusOK /\ LinesAreKept
  BY DEF IInv
<1> USE <1>t
<1>d. PICK o \in Order : o = req[r].ord
  BY DEF Reload, Phases
<1> DEFINE found == o \in orders
           d == [found   |-> found,
                 columns |-> {c \in {"status", "total"} :
                                \/ c = "status" /\ req[r].held.status # status[o]
                                \/ c = "total" /\ req[r].held.total # total[o]},
                 insert  |-> {i \in Held(r) : home[i] = Gone},
                 change  |-> {i \in Held(r) : home[i] # Gone
                                              /\ quantity[i] # req[r].held.lines[i]},
                 link    |-> {i \in Held(r) : home[i] # Gone /\ (~found \/ home[i] # o)},
                 cut     |-> IF found THEN LinesOf(o) \ Held(r) ELSE {}]
           w == [req[r] EXCEPT !.diff = d]
<1>a. /\ pc[r] = "save" /\ req[r].op \in {"update", "move", "add", "change", "drop"}
      /\ req[r].diff = NoDiff
      /\ UNCHANGED <<catalogVars, orders, everOrder, status, home, quantity, product, told,
                     wanted, missed, causes>>
  BY DEF Reload, Phases, rows, history
<1>e. req' = [req EXCEPT ![r].diff = d] /\ Goto(r, "write")
  BY <1>d DEF Reload, Held
<1>f. /\ d \in Diff /\ d.insert = {i \in Held(r) : home[i] = Gone}
      /\ d.change \subseteq Held(r) /\ d.link \subseteq Held(r)
      /\ d.link = {i \in Held(r) : home[i] # Gone /\ (~found \/ home[i] # o)}
      /\ d.cut = (IF found THEN LinesOf(o) \ Held(r) ELSE {})
      /\ "status" \in d.columns <=> req[r].held.status # status[o]
  <2>1. Held(r) \subseteq Item /\ LinesOf(o) \subseteq Item
    BY DEF Held, LinesOf
  <2> QED
    BY <2>1 DEF Diff
<1> HIDE DEF d
<1>0. /\ Only(r) /\ pc'[r] = "write" /\ req'[r].op = req[r].op /\ req'[r].ord = req[r].ord
      /\ req'[r].line = req[r].line /\ req'[r].held.status = req[r].held.status
      /\ req'[r].held.lines = req[r].held.lines
      /\ req'[r].diff = d
  <2>1. PICK old : req \in [Request -> WorkOf(old)]
    BY DEF RequestTypes
  <2>2. /\ w \in WorkOf(old) /\ w.op = req[r].op /\ w.ord = req[r].ord /\ w.diff = d
        /\ w.held.status = req[r].held.status /\ w.line = req[r].line
        /\ w.held.lines = req[r].held.lines
    BY <2>1, <1>a, <1>f DEF WorkOf
  <2>3. req' = [req EXCEPT ![r] = w]
    BY <2>1, <1>e DEF WorkOf
  <2>4. Goto(r, "write") /\ "write" \in Labels
    BY <1>e DEF Labels
  <2> HIDE DEF w
  <2>5. Only(r) /\ pc'[r] = "write" /\ req'[r] = w
    BY <2>2, <2>3, <2>4, Moves
  <2> QED
    BY <1>a, <2>2, <2>5
<1>h. /\ Held(r)' = Held(r) /\ Reading(r)' /\ Reading(r)
      /\ \A x \in Item : /\ Knows(r, x)' <=> x \in Held(r) \/ x \in d.cut
                         /\ Makes(r, x)' <=> Makes(r, x)
  BY <1>0, <1>a DEF Held, Reading, Knows, Makes
<1>k. Known(r)' = Known(r) /\ Added(r)' = Added(r)
  BY <1>h, HeldAreItems DEF Known, Added
<1>n. \A x \in d.cut : /\ x \in Item /\ home[x] = o /\ home[x] # Gone /\ product[x] # None
                       /\ \A q \in Request : Knows(q, x) => req[q].ord = o
  BY <1>f, NamesDiffer DEF LinesOf, LinesOK, Referring
<1>g. \A x \in Held(r) : Knows(r, x)
  BY DEF Knows
<1>l. \A z : LinesOf(z)' = LinesOf(z)
  BY <1>a DEF LinesOf
<1>s. \A z : OnSale(z)' <=> OnSale(z)
  BY <1>a DEF OnSale, catalogVars, goods
<1>1. CatalogOK'
  BY <1>0, <1>a, <1>h, <1>k, <1>l, <1>s, CatalogStays
<1>2. RowTypes'
  BY <1>0, <1>a, <1>h, <1>k, <1>l, <1>s DEF RowTypes
<1>3. RequestTypes'
  BY <1>0, <1>a, <1>h, <1>k, <1>l, <1>s DEF Only, RequestTypes
<1>4. Phases'
  BY <1>0, <1>a, <1>d, Others DEF Phases
<1>5. OrdersOK'
  BY <1>0, <1>a, <1>h, <1>k, <1>l, <1>s, Others, NamesDiffer DEF OrdersOK, Phases, RowTypes
<1>6. LinesOK'
  <2>1. ASSUME NEW q \in Request, NEW x \in Item, Knows(q, x)'
        PROVE  /\ home[x] \in {req'[q].ord, Loose, Gone} /\ product[x] # None
               /\ \A p \in Request : Knows(p, x)' => req'[p].ord = req'[q].ord
    <3>1. CASE x \in d.cut
      BY <1>0, <1>d, <1>n, <2>1, <3>1, Others
    <3>2. CASE x \notin d.cut
      BY <1>0, <1>g, <1>h, <2>1, <3>2, Others DEF LinesOK
    <3> QED
      BY <3>1, <3>2
  <2>2. ASSUME NEW q \in Request, NEW x \in Item,
               x \in req'[q].diff.insert \cup req'[q].diff.change \cup req'[q].diff.link
        PROVE  x \in Held(q)'
    BY <1>0, <1>f, <1>h, <2>2, Others DEF LinesOK
  <2> QED
    BY <1>a, <2>1, <2>2 DEF LinesOK
<1>7. NewOK'
  <2>1. ASSUME NEW q \in Request, NEW x \in Item, Makes(q, x)'
        PROVE  home[x] = Gone /\ \A p \in Request : p # q => ~Knows(p, x)'
    <3>1. Makes(q, x)
      BY <1>0, <1>h, <2>1, Others
    <3>2. home[x] = Gone /\ \A p \in Request : p # q => ~Knows(p, x)
      BY <3>1 DEF NewOK
    <3>3. x \notin d.cut
      BY <1>n, <3>2
    <3> QED
      BY <1>0, <1>g, <1>h, <3>2, <3>3, Others
  <2> QED
    BY <1>0, <1>a, <1>h, <2>1, Others DEF NewOK
<1>8. Referring'
  BY <1>0, <1>a, <1>h, <1>k, <1>l, <1>s DEF Referring
<1>9. FreshStatus'
  BY <1>0, <1>a, <1>d, <1>f, <1>h, Others DEF FreshStatus
<1>10. FreshLines'
  <2>1. ASSUME "lines" \notin missed[r]
        PROVE  d.insert = Added(r) /\ d.link = {} /\ d.cut = {}
    <3>1. found /\ Known(r) = LinesOf(o)
      BY <1>d, <1>h, <2>1 DEF FreshLines
    <3>2. \A x \in Held(r) : Makes(r, x) => home[x] = Gone
      BY HeldAreItems DEF NewOK
    <3>3. \A x \in Held(r) : ~Makes(r, x) => home[x] = o /\ o # Gone
      BY <3>1, NamesDiffer DEF Known, LinesOf
    <3>4. Known(r) \subseteq Held(r)
      BY DEF Known
    <3> QED
      BY <1>f, <3>1, <3>2, <3>3, <3>4 DEF Added
  <2> QED
    BY <1>0, <1>a, <1>d, <1>h, <1>k, <1>l, <2>1, Others DEF FreshLines
<1>11. StatusOK'
  BY <1>0, <1>a, <1>h, <1>k, <1>l, <1>s DEF StatusOK
<1>12. LinesAreKept'
  BY <1>0, <1>a, <1>h, <1>k, <1>l, <1>s DEF LinesAreKept
<1> QED
  BY <1>1, <1>2, <1>3, <1>4, <1>5, <1>6, <1>7, <1>8, <1>9, <1>10, <1>11, <1>12 DEF IInv

LEMMA WriteAcceptedStep ==
  ASSUME IInv, NEW r \in Request,
         Write(r), Accepted(r)
  PROVE  IInv'
<1>t. /\ CatalogOK /\ RowTypes /\ RequestTypes /\ Phases /\ OrdersOK /\ LinesOK /\ NewOK
      /\ Referring /\ FreshStatus /\ FreshLines /\ StatusOK /\ LinesAreKept
  BY DEF IInv
<1> USE <1>t
<1>d. PICK o \in Order, d \in Diff : o = req[r].ord /\ d = req[r].diff
  BY Typed DEF Write, Phases
<1> DEFINE there == {x \in Item : home[x] # Gone}
           moved == d.insert \cup (d.link \cap there)
<1>a. /\ pc[r] = "write" /\ req[r].op \in {"update", "move", "add", "change", "drop"} /\ Finish(r)
      /\ UNCHANGED <<catalogVars, everOrder, product>>
  BY DEF Write, Phases
<1>e. /\ orders' = IF d.found THEN orders ELSE orders \cup {o}
      /\ status' = [status EXCEPT ![o] =
           IF ~d.found \/ "status" \in d.columns THEN req[r].held.status ELSE @]
      /\ home' = [x \in Item |-> IF x \in moved THEN o
                                 ELSE IF x \in d.cut \cap there THEN Loose ELSE home[x]]
      /\ quantity' = [x \in Item |-> IF x \in d.insert \cup (d.change \cap there)
                                       THEN req[r].held.lines[x] ELSE quantity[x]]
  BY <1>d DEF Write, WriteRows
<1>f. /\ wanted' = [wanted EXCEPT ![o] =
           IF req[r].op = "add" THEN @ \cup {req[r].line} ELSE @]
      /\ told' = [told EXCEPT ![o] = IF req[r].op = "update" /\ "status" \in d.columns
                                       THEN req[r].held.status ELSE @]
      /\ Touch(r, o, {"lines"} \cup (d.columns \ {"total"}))
      /\ Blame(o, missed[r] \cup (IF r \in split THEN {"split"} ELSE {}))
  BY <1>d DEF Write
<1>g. /\ ~d.found => o \notin orders
      /\ \A x \in d.insert : home[x] = Gone /\ OnSale(product[x])
      /\ d.found /\ o \notin orders => moved = {}
  BY <1>d DEF Accepted
<1> HIDE DEF moved, there
<1>0. Only(r) /\ pc'[r] = "done" /\ req'[r] = Idle
  BY <1>a, Finishes
<1>h. /\ Held(r)' = {} /\ ~Reading(r)' /\ \A x \in Item : ~Knows(r, x)' /\ ~Makes(r, x)'
      /\ req'[r].op = "none" /\ req'[r].ord = None /\ req'[r].diff = NoDiff
      /\ req'[r].line = None
      /\ NoDiff.cut = {} /\ NoDiff.insert = {} /\ NoDiff.change = {} /\ NoDiff.link = {}
  BY <1>0, IdleRequestsNext, IdleKnowsNothing
<1>i. \A x \in d.insert \cup d.change \cup d.link :
        x \in Item /\ x \in Held(r) /\ req[r].held.lines[x] \in Quantity
        /\ req[r].held.lines[x] > 0
  <2>1. \A x \in d.insert \cup d.change \cup d.link : x \in Held(r)
    BY <1>d DEF LinesOK, Diff
  <2> QED
    BY <2>1, Typed, NamesDiffer DEF Held
<1>j. \A x \in moved \cup d.cut : x \in Item /\ Knows(r, x)
  BY <1>d, <1>i DEF moved, Knows, Diff
<1>n. \A x \in moved \cup d.cut : /\ home[x] \in {o, Loose, Gone} /\ product[x] \in Product
                                  /\ \A q \in Request : Knows(q, x) => req[q].ord = o
  BY <1>d, <1>j DEF LinesOK, RowTypes
<1>u. /\ \A x \in Item : home'[x] = IF x \in moved THEN o
                                    ELSE IF x \in d.cut \cap there THEN Loose ELSE home[x]
      /\ \A x \in Item : home'[x] # Gone => home[x] # Gone \/ x \in d.insert
  BY <1>e DEF moved, there
<1>l. \A x \in Order : x # o => LinesOf(x)' = LinesOf(x)
  BY <1>n, <1>u, NamesDiffer DEF LinesOf
<1>s. \A z : OnSale(z)' <=> OnSale(z)
  BY <1>a DEF OnSale, catalogVars, goods
<1>m. /\ missed' \in [Request -> SUBSET {"lines", "status"}]
      /\ \A q \in Request : missed[q] \subseteq missed'[q]
      /\ \A q \in Request : q # r /\ req[q].ord = o =>
           "lines" \in missed'[q] /\ ("status" \in d.columns => "status" \in missed'[q])
  <2>1. {"lines"} \cup (d.columns \ {"total"}) \subseteq {"lines", "status"}
    BY DEF Diff
  <2> QED
    BY <1>f, <2>1 DEF Touch, RequestTypes
<1>c. /\ causes' \in [Order -> SUBSET Cause]
      /\ \A x \in Order : causes[x] \subseteq causes'[x]
      /\ missed[r] \subseteq causes'[o]
  BY <1>f DEF Blame, RowTypes, RequestTypes, Cause
<1>o. o \in everOrder /\ \A q \in Request : req[q].op = "create" => req[q].ord # o
  BY <1>a, <1>d, NamesDiffer DEF OrdersOK
<1>1. CatalogOK'
  BY <1>0, <1>a, <1>h, <1>s, CatalogStays
<1>2. RowTypes'
  <2>1. orders' \in SUBSET Order /\ orders' \subseteq everOrder'
    BY <1>a, <1>e, <1>o DEF RowTypes
  <2>2. home' \in [Item -> Order \cup {Loose, Gone}]
    BY <1>e DEF RowTypes
  <2>3. quantity' \in [Item -> Quantity \cup {0}]
    BY <1>e, <1>i DEF RowTypes
  <2>4. wanted' \in [Order -> SUBSET Item]
    <3>1. req[r].op = "add" => req[r].line \in Item
      BY <1>a, HeldAreItems DEF NewOK
    <3> QED
      BY <1>f, <3>1 DEF RowTypes
  <2>5. status' \in [Order -> Status] /\ told' \in [Order -> Status]
    BY <1>e, <1>f, Typed DEF RowTypes
  <2> QED
    BY <1>a, <1>c, <2>1, <2>2, <2>3, <2>4, <2>5 DEF RowTypes
<1>3. RequestTypes'
  BY <1>0, <1>m DEF Only, RequestTypes
<1>4. Phases'
  BY <1>0, <1>a, <1>h, <1>s, Others DEF Phases
<1>5. OrdersOK'
  BY <1>0, <1>a, <1>e, <1>h, <1>o, Others, NamesDiffer DEF OrdersOK, Phases
<1>6. LinesOK'
  <2>1. ASSUME NEW q \in Request, NEW x \in Item, Knows(q, x)'
        PROVE  /\ home'[x] \in {req'[q].ord, Loose, Gone} /\ product[x] # None
               /\ \A p \in Request : Knows(p, x)' => req'[p].ord = req'[q].ord
    <3>1. q # r /\ Knows(q, x) /\ req'[q] = req[q]
      BY <1>0, <1>h, <2>1, Others
    <3>2. home'[x] \in {o, Loose, Gone} \/ home'[x] = home[x]
      BY <1>u
    <3>3. home'[x] # home[x] => x \in moved \cup d.cut
      BY <1>u
    <3>4. home'[x] \in {req[q].ord, Loose, Gone}
      BY <1>n, <1>u, <3>1, <3>2, <3>3 DEF LinesOK
    <3> QED
      BY <1>0, <1>h, <3>1, <3>4, Others DEF LinesOK
  <2> QED
    BY <1>0, <1>a, <1>h, <2>1, Others DEF LinesOK
<1>7. NewOK'
  <2>1. ASSUME NEW q \in Request, NEW x \in Item, Makes(q, x)'
        PROVE  home'[x] = Gone /\ \A p \in Request : p # q => ~Knows(p, x)'
    <3>1. q # r /\ Makes(q, x)
      BY <1>0, <1>h, <2>1, Others
    <3>2. home[x] = Gone /\ \A p \in Request : p # q => ~Knows(p, x)
      BY <3>1 DEF NewOK
    <3>3. x \notin moved \cup d.cut
      BY <1>j, <3>1, <3>2
    <3> QED
      BY <1>0, <1>h, <1>u, <3>2, <3>3, Others
  <2> QED
    BY <1>0, <1>h, <2>1, Others DEF NewOK
<1>8. Referring'
  <2>1. ASSUME NEW x \in Item, home'[x] # Gone
        PROVE  quantity'[x] > 0 /\ product[x] \in Product /\ OnSale(product[x])
    BY <1>e, <1>g, <1>i, <1>n, <1>u, <2>1 DEF Referring, moved
  <2>2. ASSUME NEW x \in Item, home'[x] \in Order
        PROVE  home'[x] \in orders'
    <3>1. CASE x \in moved
      BY <1>e, <1>g, <1>u, <3>1
    <3>2. CASE x \notin moved
      BY <1>e, <1>u, <2>2, <3>2, NamesDiffer DEF Referring
    <3> QED
      BY <3>1, <3>2
  <2> QED
    BY <1>a, <1>s, <2>1, <2>2 DEF Referring
<1>9. FreshStatus'
  <2>1. ASSUME NEW q \in Request, Reading(q)', "status" \notin missed'[q]
        PROVE  /\ q # r /\ Reading(q) /\ "status" \notin missed[q] /\ req'[q] = req[q]
               /\ req[q].ord \in orders' /\ status'[req[q].ord] = status[req[q].ord]
    <3>1. q # r /\ Reading(q) /\ req'[q] = req[q] /\ "status" \notin missed[q]
      BY <1>0, <1>h, <1>m, <2>1, Others
    <3>2. req[q].ord \in orders
      BY <3>1 DEF FreshStatus
    <3>3. req[q].ord = o => "status" \notin d.columns /\ d.found
      BY <1>g, <1>m, <2>1, <3>1, <3>2
    <3> QED
      BY <1>e, <3>1, <3>2, <3>3 DEF RowTypes
  <2> QED
    BY <2>1 DEF FreshStatus
<1>10. FreshLines'
  <2>1. ASSUME NEW q \in Request, Reading(q)', "lines" \notin missed'[q]
        PROVE  /\ q # r /\ Reading(q) /\ "lines" \notin missed[q] /\ req'[q] = req[q]
               /\ req[q].ord \in orders' /\ LinesOf(req[q].ord)' = LinesOf(req[q].ord)
    <3>1. q # r /\ Reading(q) /\ req'[q] = req[q] /\ "lines" \notin missed[q]
      BY <1>0, <1>h, <1>m, <2>1, Others
    <3>2. req[q].ord \in orders /\ req[q].ord # o
      BY <1>m, <2>1, <3>1 DEF FreshLines
    <3> QED
      BY <1>e, <1>l, <3>1, <3>2 DEF RowTypes
  <2> QED
    BY <1>0, <2>1, Others DEF FreshLines
<1>11. StatusOK'
  <2>1. CASE "status" \in missed[r]
    BY <1>c, <1>e, <1>f, <2>1 DEF StatusOK, RowTypes
  <2>2. CASE "status" \notin missed[r]
    <3>1. Reading(r) /\ o \in orders
      BY <1>a, <1>d, <2>2 DEF FreshStatus, Reading
    <3>2. d.found /\ (req[r].op # "update" => "status" \notin d.columns)
      BY <1>d, <1>g, <2>2, <3>1 DEF FreshStatus
    <3>3. \/ status'[o] = req[r].held.status /\ told'[o] = req[r].held.status
          \/ status'[o] = status[o] /\ told'[o] = told[o]
      BY <1>e, <1>f, <3>2 DEF RowTypes
    <3>4. \A x \in Order : x # o => status'[x] = status[x] /\ told'[x] = told[x]
      BY <1>e, <1>f DEF RowTypes
    <3> QED
      BY <1>c, <3>3, <3>4 DEF StatusOK
  <2> QED
    BY <2>1, <2>2
<1>12. LinesAreKept'
  <2>1. \A x \in Order : x # o => wanted'[x] = wanted[x]
    BY <1>f DEF RowTypes
  <2>2. CASE "lines" \in missed[r]
    BY <1>c, <1>l, <2>1, <2>2 DEF LinesAreKept
  <2>3. CASE "lines" \notin missed[r]
    <3>1. d.insert = Added(r) /\ d.link = {} /\ d.cut = {}
      BY <1>a, <1>d, <2>3 DEF FreshLines, Reading
    <3>2. LinesOf(o)' = LinesOf(o) \cup Added(r)
      BY <1>j, <1>u, <3>1 DEF LinesOf, moved
    <3>3. Added(r) = IF req[r].op = "add" THEN {req[r].line} ELSE {}
      BY <1>a DEF Added, Makes, NewOK
    <3>4. wanted'[o] = wanted[o] \cup Added(r)
      BY <1>f, <3>3 DEF RowTypes
    <3> QED
      BY <1>c, <1>l, <2>1, <3>2, <3>4 DEF LinesAreKept
  <2> QED
    BY <2>2, <2>3
<1> QED
  BY <1>1, <1>2, <1>3, <1>4, <1>5, <1>6, <1>7, <1>8, <1>9, <1>10, <1>11, <1>12 DEF IInv

LEMMA DeleteOrderStep ==
  ASSUME IInv, NEW r \in Request,
         DeleteOrder(r)
  PROVE  IInv'
<1>t. /\ CatalogOK /\ RowTypes /\ RequestTypes /\ Phases /\ OrdersOK /\ LinesOK /\ NewOK
      /\ Referring /\ FreshStatus /\ FreshLines /\ StatusOK /\ LinesAreKept
  BY DEF IInv
<1> USE <1>t
<1>d. PICK o \in Order : o = req[r].ord
  BY DEF DeleteOrder, Phases
<1>a. /\ pc[r] = "deleteOrder" /\ req[r].op = "remove" /\ Finish(r)
      /\ UNCHANGED <<catalogVars, everOrder, status, quantity, product, told, causes>>
      /\ orders' = orders \ {o}
      /\ home' = [x \in Item |-> IF home[x] = o \/ x \in Held(r) THEN Gone ELSE home[x]]
      /\ wanted' = [wanted EXCEPT ![o] = {}]
  BY <1>d DEF DeleteOrder, Phases, Held
<1>0. Only(r) /\ pc'[r] = "done" /\ req'[r] = Idle
  BY <1>a, Finishes
<1>h. /\ Held(r)' = {} /\ ~Reading(r)' /\ \A x \in Item : ~Knows(r, x)' /\ ~Makes(r, x)'
      /\ req'[r].op = "none" /\ req'[r].ord = None /\ req'[r].diff = NoDiff
      /\ req'[r].line = None
      /\ NoDiff.cut = {} /\ NoDiff.insert = {} /\ NoDiff.change = {} /\ NoDiff.link = {}
  BY <1>0, IdleRequestsNext, IdleKnowsNothing
<1>n. \A x \in Held(r) : x \in Item /\ home[x] \in {o, Loose, Gone}
  BY <1>d, HeldAreItems DEF LinesOK, Knows
<1>u. \A x \in Item : home'[x] = IF home[x] = o \/ x \in Held(r) THEN Gone ELSE home[x]
  BY <1>a
<1>l. LinesOf(o)' = {} /\ \A x \in Order : x # o => LinesOf(x)' = LinesOf(x)
  BY <1>n, <1>u, NamesDiffer DEF LinesOf
<1>s. \A z : OnSale(z)' <=> OnSale(z)
  BY <1>a DEF OnSale, catalogVars, goods
<1>m. /\ missed' \in [Request -> SUBSET {"lines", "status"}]
      /\ \A q \in Request : missed[q] \subseteq missed'[q]
      /\ \A q \in Request : q # r /\ req[q].ord = o =>
           "lines" \in missed'[q] /\ "status" \in missed'[q]
  BY <1>d DEF DeleteOrder, Touch, RequestTypes
<1>1. CatalogOK'
  BY <1>0, <1>a, <1>h, <1>s, CatalogStays
<1>2. RowTypes'
  BY <1>a DEF RowTypes
<1>3. RequestTypes'
  BY <1>0, <1>m DEF Only, RequestTypes
<1>4. Phases'
  BY <1>0, <1>a, <1>h, <1>s, Others DEF Phases
<1>5. OrdersOK'
  BY <1>0, <1>a, <1>h, Others, NamesDiffer DEF OrdersOK, Phases
<1>6. LinesOK'
  BY <1>0, <1>a, <1>h, <1>u, Others DEF LinesOK
<1>7. NewOK'
  BY <1>0, <1>h, <1>u, Others DEF NewOK
<1>8. Referring'
  BY <1>a, <1>s, <1>u DEF Referring
<1>9. FreshStatus'
  BY <1>0, <1>a, <1>h, <1>m, Others DEF FreshStatus
<1>10. FreshLines'
  <2>1. ASSUME NEW q \in Request, Reading(q)', "lines" \notin missed'[q]
        PROVE  /\ q # r /\ Reading(q) /\ "lines" \notin missed[q] /\ req'[q] = req[q]
               /\ req[q].ord \in orders' /\ LinesOf(req[q].ord)' = LinesOf(req[q].ord)
    <3>1. q # r /\ Reading(q) /\ req'[q] = req[q] /\ "lines" \notin missed[q]
      BY <1>0, <1>h, <1>m, <2>1, Others
    <3>2. req[q].ord \in orders /\ req[q].ord # o
      BY <1>m, <2>1, <3>1 DEF FreshLines
    <3> QED
      BY <1>a, <1>l, <3>1, <3>2 DEF RowTypes
  <2> QED
    BY <1>0, <2>1, Others DEF FreshLines
<1>11. StatusOK'
  BY <1>0, <1>a, <1>h, <1>s DEF StatusOK
<1>12. LinesAreKept'
  <2>1. \A x \in Order : wanted'[x] = IF x = o THEN {} ELSE wanted[x]
    BY <1>a DEF RowTypes
  <2> QED
    BY <1>a, <1>l, <2>1 DEF LinesAreKept
<1> QED
  BY <1>1, <1>2, <1>3, <1>4, <1>5, <1>6, <1>7, <1>8, <1>9, <1>10, <1>11, <1>12 DEF IInv

\* Nothing changes what requests hold.
LEMMA NothingHeldChanges ==
  ASSUME UNCHANGED requests, NEW q \in Request
  PROVE  /\ req' = req /\ pc' = pc /\ Held(q)' = Held(q)
         /\ Known(q)' = Known(q) /\ Added(q)' = Added(q)
         /\ Reading(q)' <=> Reading(q)
         /\ \A i \in Item : (Knows(q, i)' <=> Knows(q, i)) /\ (Makes(q, i)' <=> Makes(q, i))
BY DEF requests, Held, Reading, Knows, Makes, Known, Added

LEMMA SettleStep ==
  ASSUME IInv, NEW o \in Order, Settle(o)
  PROVE  IInv'
<1>t. /\ CatalogOK /\ RowTypes /\ RequestTypes /\ Phases /\ OrdersOK /\ LinesOK /\ NewOK
      /\ Referring /\ FreshStatus /\ FreshLines /\ StatusOK /\ LinesAreKept
  BY DEF IInv
<1> USE <1>t
<1>e. /\ status' = [status EXCEPT ![o] = "COMPLETED"] /\ told' = [told EXCEPT ![o] = "COMPLETED"]
      /\ UNCHANGED <<catalogVars, orders, everOrder, home, quantity, product, wanted, causes>>
      /\ UNCHANGED requests
  BY DEF Settle
<1>0. req' = req /\ pc' = pc
  BY <1>e DEF requests
<1>m. /\ missed' \in [Request -> SUBSET {"lines", "status"}]
      /\ \A q \in Request : missed[q] \subseteq missed'[q]
      /\ \A q \in Request : req[q].ord = o => "status" \in missed'[q]
  BY DEF Settle, RequestTypes
<1>l. \A x : LinesOf(x)' = LinesOf(x)
  BY <1>e DEF LinesOf
<1>s. \A z : OnSale(z)' <=> OnSale(z)
  BY <1>e DEF OnSale, catalogVars, goods
<1>1. CatalogOK'
  BY <1>e, CatalogStays
<1>2. RowTypes'
  BY <1>e DEF RowTypes, Status
<1>3. RequestTypes'
  BY <1>0, <1>m DEF RequestTypes
<1>4. Phases'
  BY <1>0 DEF Phases
<1>5. OrdersOK'
  BY <1>0, <1>e DEF OrdersOK
<1>6. LinesOK'
  BY <1>0, <1>e, NothingHeldChanges DEF LinesOK
<1>7. NewOK'
  BY <1>0, <1>e, NothingHeldChanges DEF NewOK
<1>8. Referring'
  BY <1>e, <1>s DEF Referring
<1>9. FreshStatus'
  BY <1>0, <1>e, <1>m, NothingHeldChanges DEF FreshStatus, RowTypes
<1>10. FreshLines'
  BY <1>0, <1>e, <1>l, <1>m, NothingHeldChanges DEF FreshLines
<1>11. StatusOK'
  BY <1>e DEF StatusOK, RowTypes
<1>12. LinesAreKept'
  BY <1>e, <1>l DEF LinesAreKept
<1> QED
  BY <1>1, <1>2, <1>3, <1>4, <1>5, <1>6, <1>7, <1>8, <1>9, <1>10, <1>11, <1>12 DEF IInv

-----------------------------------------------------------------------------
(***************************************************************************)
(* The catalog                                                             *)
(***************************************************************************)

LEMMA BlankIsADraft == Blank \in Draft
BY CatalogAssumption DEF Blank, Draft

\* An edit takes another draft.
LEMMA EditStep ==
  ASSUME CatalogOK, UNCHANGED goods, EditsOK',
         NEW e \in Edit, NEW to \in {"saveProduct", "insertProduct", "writeProduct",
         "done"},
         NEW d \in Draft, EditGoes(e, to), edit' = [edit EXCEPT ![e] = d]
  PROVE  CatalogOK' /\ \A p : OnSale(p) => OnSale(p)'
BY DEF EditGoes, goods, CatalogOK, CatalogTypeOK, Shelved, OnSale

\* What is used by order lines stays on sale.
LEMMA CatalogRoute ==
  ASSUME CatalogOK, NEW inUse, CatalogNext(inUse)
  PROVE  CatalogOK' /\ \A p \in inUse \cap Product : OnSale(p) => OnSale(p)'
<1>t. CatalogTypeOK /\ EditsOK /\ Shelved
  BY DEF CatalogOK
<1> USE <1>t, BlankIsADraft, NamesDiffer
<1>1. ASSUME NEW c \in Category, CreateCategory(c)
      PROVE  CatalogOK' /\ \A p \in inUse \cap Product : OnSale(p) => OnSale(p)'
  BY <1>1 DEF CreateCategory, CatalogOK, CatalogTypeOK, EditsOK, Shelved, OnSale
<1>2. ASSUME NEW c \in Category, DeleteCategory(c, inUse)
      PROVE  CatalogOK' /\ \A p \in inUse \cap Product : OnSale(p) => OnSale(p)'
  BY <1>2 DEF DeleteCategory, CatalogOK, CatalogTypeOK, EditsOK, Shelved, OnSale
<1>3. ASSUME NEW e \in Edit, NEW c \in Category, LoadCategory(e, c)
      PROVE  CatalogOK' /\ \A p \in inUse \cap Product : OnSale(p) => OnSale(p)'
  BY <1>3 DEF LoadCategory, EditGoes, goods, CatalogOK, CatalogTypeOK, EditsOK, Shelved,
     OnSale,
     Draft
<1>4. ASSUME NEW e \in Edit, ReloadCategory(e)
      PROVE  CatalogOK' /\ \A p \in inUse \cap Product : OnSale(p) => OnSale(p)'
  BY <1>4 DEF ReloadCategory, EditGoes, EditEnds, goods, CatalogOK, CatalogTypeOK, EditsOK,
     Shelved, OnSale
<1>5. ASSUME NEW e \in Edit, InsertCategory(e)
      PROVE  CatalogOK' /\ \A p \in inUse \cap Product : OnSale(p) => OnSale(p)'
  BY <1>5 DEF InsertCategory, EditGoes, EditEnds, CatalogOK, CatalogTypeOK, EditsOK,
     Shelved,
     OnSale
<1>6. ASSUME NEW e \in Edit, NEW p \in Product, NEW n \in Price, NEW c \in Category,
             CreateProduct(e, p, c, n)
      PROVE  CatalogOK' /\ \A x \in inUse \cap Product : OnSale(x) => OnSale(x)'
  BY <1>6 DEF CreateProduct, EditGoes, CatalogOK, CatalogTypeOK, EditsOK, Shelved,
     OnSale, Draft
<1>7. ASSUME NEW e \in Edit, NEW p \in Product, NEW n \in Price, LoadProduct(e, p, n)
      PROVE  CatalogOK' /\ \A x \in inUse \cap Product : OnSale(x) => OnSale(x)'
  BY <1>7 DEF LoadProduct, EditGoes, goods, CatalogOK, CatalogTypeOK, EditsOK, Shelved,
     OnSale,
     Draft
<1>8. ASSUME NEW e \in Edit, NEW c \in Category, FindCategory(e, c)
      PROVE  CatalogOK' /\ \A p \in inUse \cap Product : OnSale(p) => OnSale(p)'
  <2>1. CASE c \in category
    <3>1. /\ EditGoes(e, "saveProduct") /\ UNCHANGED goods
          /\ edit' = [edit EXCEPT ![e] = [edit[e] EXCEPT !.category = c]]
      BY <1>8, <2>1 DEF FindCategory, CatalogTypeOK
    <3>2. [edit[e] EXCEPT !.category = c] \in Draft
      BY DEF CatalogTypeOK, Draft
    <3>3. EditsOK'
      BY <1>8, <3>1 DEF FindCategory, EditGoes, EditsOK, CatalogTypeOK, Draft
    <3> QED
      BY <3>1, <3>2, <3>3, EditStep
  <2>2. CASE c \notin category
    <3>1. EditGoes(e, "done") /\ UNCHANGED goods /\ edit' = [edit EXCEPT ![e] = Blank]
      BY <1>8, <2>2 DEF FindCategory, EditEnds
    <3>2. EditsOK'
      BY <3>1 DEF EditGoes, EditsOK, CatalogTypeOK
    <3> QED
      BY <3>1, <3>2, EditStep
  <2> QED
    BY <2>1, <2>2
<1>9. ASSUME NEW e \in Edit, ReloadProduct(e)
      PROVE  CatalogOK' /\ \A p \in inUse \cap Product : OnSale(p) => OnSale(p)'
  <2>1. CASE EditEnds(e)
    <3>1. EditGoes(e, "done") /\ UNCHANGED goods /\ edit' = [edit EXCEPT ![e] = Blank]
      BY <1>9, <2>1 DEF ReloadProduct, EditEnds
    <3>2. EditsOK'
      BY <3>1 DEF EditGoes, EditsOK, CatalogTypeOK
    <3> QED
      BY <3>1, <3>2, EditStep
  <2>2. CASE ~EditEnds(e)
    <3>1. PICK diff \in SUBSET {"category", "price"},
               to \in {"insertProduct", "writeProduct"} :
            /\ EditGoes(e, to) /\ UNCHANGED goods
            /\ \/ edit' = [edit EXCEPT ![e] = [edit[e] EXCEPT !.plan = diff]]
               \/ edit' = edit
      BY <1>9, <2>2 DEF ReloadProduct, CatalogTypeOK
    <3>2. [edit[e] EXCEPT !.plan = diff] \in Draft
      BY DEF CatalogTypeOK, Draft
    <3>3. edit[e].id \in Product
      BY <1>9 DEF ReloadProduct, EditsOK
    <3>4. EditsOK'
      BY <3>1, <3>3 DEF EditGoes, EditsOK, CatalogTypeOK, Draft
    <3> QED
      BY <3>1, <3>2, <3>4, EditStep DEF EditGoes, goods, CatalogOK, CatalogTypeOK,
         Shelved, OnSale
  <2> QED
    BY <2>1, <2>2
<1>10. ASSUME NEW e \in Edit, UpdateProduct(e)
       PROVE  CatalogOK' /\ \A p \in inUse \cap Product : OnSale(p) => OnSale(p)'
  BY <1>10 DEF UpdateProduct, EditGoes, EditEnds, CatalogOK, CatalogTypeOK, EditsOK,
     Shelved,
     OnSale, Draft
<1>11. ASSUME NEW e \in Edit, InsertProduct(e)
       PROVE  CatalogOK' /\ \A p \in inUse \cap Product : OnSale(p) => OnSale(p)'
  BY <1>11 DEF InsertProduct, EditGoes, EditEnds, CatalogOK, CatalogTypeOK, EditsOK,
     Shelved,
     OnSale, Draft
<1>12. ASSUME NEW p \in Product, DeleteProduct(p, inUse)
       PROVE  CatalogOK' /\ \A x \in inUse \cap Product : OnSale(x) => OnSale(x)'
  BY <1>12 DEF DeleteProduct, CatalogOK, CatalogTypeOK, EditsOK, Shelved, OnSale
<1> QED
  BY <1>1, <1>2, <1>3, <1>4, <1>5, <1>6, <1>7, <1>8, <1>9, <1>10, <1>11, <1>12
  DEF CatalogNext, CategoryRoutes, ProductRoutes


LEMMA CatalogStep ==
  ASSUME IInv, CatalogNext(InUse), UNCHANGED itemVars
  PROVE  IInv'
<1>t. /\ CatalogOK /\ RowTypes /\ RequestTypes /\ Phases /\ OrdersOK /\ LinesOK /\ NewOK
      /\ Referring /\ FreshStatus /\ FreshLines /\ StatusOK /\ LinesAreKept
  BY DEF IInv
<1> USE <1>t
<1>e. /\ UNCHANGED <<orders, everOrder, status, home, quantity, product>>
      /\ UNCHANGED <<told, wanted, missed, causes>> /\ UNCHANGED requests
  BY DEF itemVars, rows, history
<1>0. req' = req /\ pc' = pc
  BY <1>e DEF requests
<1>l. \A x : LinesOf(x)' = LinesOf(x)
  BY <1>e DEF LinesOf
<1>c. CatalogOK' /\ \A p \in InUse \cap Product : OnSale(p) => OnSale(p)'
  BY CatalogRoute
<1>2. RowTypes'
  BY <1>e DEF RowTypes
<1>3. RequestTypes'
  BY <1>0, <1>e DEF RequestTypes
<1>4. Phases'
  BY <1>0 DEF Phases
<1>5. OrdersOK'
  BY <1>0, <1>e DEF OrdersOK
<1>6. LinesOK'
  BY <1>0, <1>e, NothingHeldChanges DEF LinesOK
<1>7. NewOK'
  BY <1>0, <1>e, NothingHeldChanges DEF NewOK
<1>8. Referring'
  <2>1. ASSUME NEW i \in Item, home[i] # Gone PROVE OnSale(product[i])'
    <3>1. PICK p \in Product : p = product[i] /\ OnSale(p)
      BY <2>1 DEF Referring
    <3>2. OnSale(p)'
      BY <1>c, <2>1, <3>1 DEF InUse
    <3> QED
      BY <1>e, <3>1, <3>2
  <2> QED
    BY <1>e, <2>1 DEF Referring
<1>9. FreshStatus'
  BY <1>0, <1>e, NothingHeldChanges DEF FreshStatus
<1>10. FreshLines'
  BY <1>0, <1>e, <1>l, NothingHeldChanges DEF FreshLines
<1>11. StatusOK'
  BY <1>e DEF StatusOK
<1>12. LinesAreKept'
  BY <1>e, <1>l DEF LinesAreKept
<1> QED
  BY <1>c, <1>2, <1>3, <1>4, <1>5, <1>6, <1>7, <1>8, <1>9, <1>10, <1>11, <1>12 DEF IInv

-----------------------------------------------------------------------------
(***************************************************************************)
(* All together                                                            *)
(***************************************************************************)

LEMMA Begins == Init => IInv
<1> SUFFICES ASSUME Init PROVE IInv
  OBVIOUS
<1> USE NamesDiffer
<1>a. CatalogOK
  BY BlankIsADraft DEF Init, CatalogInit, CatalogOK, CatalogTypeOK, EditsOK, Shelved, OnSale
<1>p. PICK o \in Order \cup {None}, i \in Item, p \in Product, q \in Quantity :
        /\ o # None => OnSale(p)
        /\ orders = Order \cap {o} /\ everOrder = orders
        /\ home = [j \in Item |-> IF j = i /\ o # None THEN o ELSE Gone]
        /\ quantity = [j \in Item |-> IF home[j] # Gone THEN q ELSE 0]
        /\ product = [j \in Item |-> IF home[j] # Gone THEN p ELSE None]
        /\ price = [j \in Item |-> cost[p]]
        /\ total = [x \in Order |-> IF x = o THEN q * cost[p] ELSE 0]
        /\ wanted = [x \in Order |-> IF x = o THEN {i} ELSE {}]
  BY Zenon DEF Init
<1>i. /\ status = [x \in Order |-> "PENDING"] /\ told = status
      /\ pc = [r \in Request |-> "new"] /\ req = [r \in Request |-> Idle]
      /\ missed = [r \in Request |-> {}] /\ causes = [x \in Order |-> {}]
  BY DEF Init
<1>h. \A r \in Request : /\ req[r] = Idle /\ pc[r] = "new" /\ Held(r) = {} /\ ~Reading(r)
                         /\ \A x \in Item : ~Knows(r, x) /\ ~Makes(r, x)
  BY <1>i, IdleRequests
<1>1. RowTypes
  BY <1>p, <1>i DEF RowTypes, Status
<1>2. RequestTypes
  <2>1. req \in [Request -> WorkOf({0})]
    BY <1>i, IdleKnowsNothing
  <2> QED
    BY <1>i, <2>1 DEF RequestTypes, Labels
<1>3. Phases /\ OrdersOK
  BY <1>h, IdleKnowsNothing DEF Phases, OrdersOK
<1>4. LinesOK /\ NewOK
  BY <1>h, IdleKnowsNothing DEF LinesOK, NewOK
<1>5. Referring
  BY <1>p DEF Referring
<1>6. FreshStatus /\ FreshLines
  BY <1>h DEF FreshStatus, FreshLines
<1>7. StatusOK
  BY <1>i DEF StatusOK
<1>8. LinesAreKept
  BY <1>p DEF LinesAreKept, LinesOf
<1> QED
  BY <1>a, <1>1, <1>2, <1>3, <1>4, <1>5, <1>6, <1>7, <1>8 DEF IInv

\* A request arrives.
LEMMA ArrivalStep ==
  ASSUME IInv, NEW r \in Request, Arrivals(r)
  PROVE  IInv'
<1>1. PICK o \in Order :
        \/ \E lines \in Lines : CreateRead(r, o, lines)
        \/ \E s \in PatchInput : Update(r, o, s)
        \/ Move(r, o) \/ Remove(r, o) \/ AddItem(r, o)
        \/ \E i \in Item : UpdateItem(r, o, i) \/ RemoveItem(r, o, i)
  BY DEF Arrivals
<1>2. status[o] \in Status /\ PatchInput \subseteq Status
  BY InputAssumption DEF IInv, RowTypes
<1>3. ASSUME NEW lines \in Lines, CreateRead(r, o, lines) PROVE IInv'
  <2>1. CASE \A i \in DOMAIN lines : OnSale(lines[i].product)
    BY <1>3, <2>1, CreateReadMakesStep
  <2>2. CASE ~(\A i \in DOMAIN lines : OnSale(lines[i].product))
    <3>1. /\ Finish(r) /\ everOrder' = everOrder \cup {o}
          /\ UNCHANGED <<catalogVars, orders, status, home, quantity, product, told, wanted,
                         missed, causes>>
      BY <1>3, <2>2 DEF CreateRead, history
    <3> QED
      BY <3>1, Quits DEF IInv, RowTypes
  <2> QED
    BY <2>1, <2>2
<1>4. ASSUME NEW s \in PatchInput, Update(r, o, s) PROVE IInv'
  BY <1>2, <1>4, LoadStep DEF Update
<1>5. CASE AddItem(r, o)
  BY <1>2, <1>5, LoadStep DEF AddItem
<1>6. CASE Remove(r, o)
  BY <1>2, <1>6, LoadStep DEF Remove
<1>7. ASSUME NEW i \in Item, UpdateItem(r, o, i) PROVE IInv'
  BY <1>2, <1>7, LoadStep DEF UpdateItem
<1>8. ASSUME NEW i \in Item, RemoveItem(r, o, i) PROVE IInv'
  BY <1>2, <1>8, LoadStep DEF RemoveItem
<1>9. CASE Move(r, o)
  BY <1>2, <1>9, LoadStep DEF Move
<1> QED
  BY <1>1, <1>3, <1>4, <1>5, <1>6, <1>7, <1>8, <1>9

\* A request goes on, is refused, or is stopped.
LEMMA ProceedStep ==
  ASSUME IInv, NEW r \in Request, Proceed(r)
  PROVE  IInv'
<1>t. RowTypes
  BY DEF IInv
<1>1. CASE CreateInsert(r)
  <2>1. CASE \A i \in Held(r) : OnSale(product[i])
    BY <1>1, <2>1, CreateInsertMakesStep
  <2>2. CASE ~(\A i \in Held(r) : OnSale(product[i]))
    <3>1. /\ Finish(r)
          /\ UNCHANGED <<catalogVars, orders, everOrder, status, home, quantity, product, told,
                         wanted, missed, causes>>
      BY <1>1, <2>2 DEF CreateInsert, Held
    <3> QED
      BY <1>t, <3>1, Quits DEF RowTypes
  <2> QED
    BY <2>1, <2>2
<1>2. ASSUME NEW i \in Item, NEW p \in Product, NEW q \in Quantity, FindProduct(r, i, p, q)
      PROVE  IInv'
  <2>1. CASE OnSale(p)
    BY <1>2, <2>1, FindProductAddsStep
  <2>2. CASE ~OnSale(p)
    <3>1. /\ Finish(r)
          /\ UNCHANGED <<catalogVars, orders, everOrder, status, home, quantity, product, told,
                         wanted, missed, causes>>
      BY <1>2, <2>2 DEF FindProduct, history
    <3> QED
      BY <1>t, <3>1, Quits DEF RowTypes
  <2> QED
    BY <2>1, <2>2
<1>3. CASE InsertItem(r)
  <2>1. CASE home[req[r].line] = Gone /\ OnSale(product[req[r].line])
    BY <1>3, <2>1, InsertItemMakesStep
  <2>2. CASE ~(home[req[r].line] = Gone /\ OnSale(product[req[r].line]))
    <3>1. /\ Finish(r)
          /\ UNCHANGED <<catalogVars, orders, everOrder, status, home, quantity, product, told,
                         wanted, missed, causes>>
      BY <1>3, <2>2 DEF InsertItem, history
    <3> QED
      BY <1>t, <3>1, Quits DEF RowTypes
  <2> QED
    BY <2>1, <2>2
<1>4. CASE Reload(r)
  <2>1. CASE Finish(r)
    <3>1. UNCHANGED <<catalogVars, orders, everOrder, status, home, quantity, product, told,
                      wanted, missed, causes>>
      BY <1>4 DEF Reload, rows, history
    <3> QED
      BY <1>t, <2>1, <3>1, Quits DEF RowTypes
  <2>2. CASE ~Finish(r)
    BY <1>4, <2>2, ReloadFindsStep
  <2> QED
    BY <2>1, <2>2
<1>5. CASE Write(r)
  <2>1. CASE Accepted(r)
    BY <1>5, <2>1, WriteAcceptedStep
  <2>2. CASE ~Accepted(r)
    <3>1. /\ Finish(r) /\ Blame(req[r].ord, IF HalfSaved(r) THEN {"half"} ELSE {})
          /\ UNCHANGED <<catalogVars, orders, everOrder, status, home, quantity, product, told,
                         wanted, missed>>
      BY <1>5, <2>2 DEF Write
    <3>2. /\ causes' \in [Order -> SUBSET Cause]
          /\ \A o \in Order : causes[o] \subseteq causes'[o]
      BY <1>t, <3>1 DEF Blame, RowTypes, Cause
    <3> QED
      BY <1>t, <3>1, <3>2, Quits DEF RowTypes
  <2> QED
    BY <2>1, <2>2
<1> QED
  BY <1>1, <1>2, <1>3, <1>4, <1>5, ReloadItemStep, WriteItemStep, DeleteItemStep,
     DeleteOrderStep DEF Proceed

LEMMA StopStep ==
  ASSUME IInv, NEW r \in Request, Stop(r)
  PROVE  IInv'
<1>1. /\ Finish(r) /\ Blame(req[r].ord, IF HalfSaved(r) THEN {"half"} ELSE {})
      /\ UNCHANGED <<catalogVars, orders, everOrder, status, home, quantity, product, told,
                     wanted, missed>>
  BY DEF Stop, rows
<1>2. /\ causes' \in [Order -> SUBSET Cause]
      /\ \A o \in Order : causes[o] \subseteq causes'[o]
  BY <1>1 DEF Blame, IInv, RowTypes, Cause
<1> QED
  BY <1>1, <1>2, Quits DEF IInv, RowTypes

LEMMA Kept == IInv /\ UNCHANGED vars => IInv'
<1> SUFFICES ASSUME IInv, UNCHANGED vars PROVE IInv'
  OBVIOUS
<1>t. /\ CatalogOK /\ RowTypes /\ RequestTypes /\ Phases /\ OrdersOK /\ LinesOK /\ NewOK
      /\ Referring /\ FreshStatus /\ FreshLines /\ StatusOK /\ LinesAreKept
  BY DEF IInv
<1> USE <1>t
<1>e. /\ UNCHANGED catalogVars
      /\ UNCHANGED <<orders, everOrder, status, home, quantity, product>>
      /\ UNCHANGED <<told, wanted, missed, causes>> /\ UNCHANGED requests
  BY DEF vars, itemVars, rows, history
<1>0. req' = req /\ pc' = pc
  BY <1>e DEF requests
<1>l. \A x : LinesOf(x)' = LinesOf(x)
  BY <1>e DEF LinesOf
<1>s. \A z : OnSale(z)' <=> OnSale(z)
  BY <1>e DEF OnSale, catalogVars, goods
<1>1. CatalogOK' /\ RowTypes' /\ RequestTypes' /\ Phases' /\ OrdersOK'
  BY <1>0, <1>e, CatalogStays DEF RowTypes, RequestTypes, Phases, OrdersOK
<1>2. LinesOK' /\ NewOK'
  BY <1>0, <1>e, NothingHeldChanges DEF LinesOK, NewOK
<1>3. Referring' /\ StatusOK' /\ LinesAreKept'
  BY <1>e, <1>l, <1>s DEF Referring, StatusOK, LinesAreKept
<1>4. FreshStatus'
  BY <1>0, <1>e, NothingHeldChanges DEF FreshStatus
<1>5. FreshLines'
  BY <1>0, <1>e, <1>l, NothingHeldChanges DEF FreshLines
<1> QED
  BY <1>1, <1>2, <1>3, <1>4, <1>5 DEF IInv

LEMMA Inductive == Spec => []IInv
<1>1. IInv /\ [Next]_vars => IInv'
  BY ArrivalStep, ProceedStep, StopStep, SettleStep, CatalogStep, Kept DEF Next
<1> QED
  BY <1>1, Begins, PTL DEF Spec

\* Order lines refer to products that are there and to orders that are there,
\* products to categories, whatever saves bring back.
THEOREM ReferencesAreKept == Spec => []ReferencesHold
<1>1. IInv => ReferencesHold
  BY NamesDiffer DEF IInv, CatalogOK, Shelved, Referring, ReferencesHold
<1> QED
  BY <1>1, Inductive, PTL

\* The status of an order is the one set last, unless a save of what was read
\* before that is on record.
THEOREM StatusesAreKept == Spec => []StatusIsKept
<1>1. IInv => StatusIsKept
  BY DEF IInv, StatusOK, RowTypes, StatusIsKept
<1> QED
  BY <1>1, Inductive, PTL

\* An order has the lines that were added to it and not removed, unless such a
\* save is on record.
THEOREM OrdersKeepTheirLines == Spec => []LinesAreKept
<1>1. IInv => LinesAreKept
  BY DEF IInv
<1> QED
  BY <1>1, Inductive, PTL

-----------------------------------------------------------------------------
(***************************************************************************)
(* Sums. SumFunction is a fold, a function on SUBSET S defined by          *)
(* recursion; that it exists and what it yields is proved by looking at a  *)
(* smallest counterexample, which needs no induction rule.                 *)
(***************************************************************************)

Picked(s) == CHOOSE x \in s : TRUE

\* g sums up f over each of the sets in D.
Adds(g, f, D) ==
  g = [s \in D |-> IF s = {} THEN 0 ELSE f[Picked(s)] + g[s \ {Picked(s)}]]

Level(S, n) == {s \in SUBSET S : Cardinality(s) <= n}

LEMMA LeastNatural ==
  ASSUME NEW T \in SUBSET Nat, T # {}
  PROVE  \E x \in T : \A y \in T : x <= y
<1> DEFINE R == {ss \in Nat \X Nat : ss[1] < ss[2]}
<1>1. IsWellFoundedOn(R, Nat)
  BY NatLessThanWellFounded DEF OpToRel
<1>2. \A x, y \in Nat : x < y <=> <<x, y>> \in R
  OBVIOUS
<1> HIDE DEF R
<1>3. \E x \in T : \A y \in T : ~ (<<y, x>> \in R)
  BY <1>1, WFMin
<1>4. T \subseteq Nat /\ \A x, y \in T : ~(y < x) => x <= y
  OBVIOUS
<1> QED
  BY <1>2, <1>3, <1>4

LEMMA PickedIsThere ==
  ASSUME NEW s, s # {}
  PROVE  Picked(s) \in s
  BY DEF Picked

LEMMA PartsAreFinite ==
  ASSUME NEW S, IsFiniteSet(S), NEW s \in SUBSET S
  PROVE  /\ IsFiniteSet(s) /\ Cardinality(s) \in Nat
         /\ (Cardinality(s) = 0 <=> s = {}) /\ Cardinality(s) <= Cardinality(S)
         /\ \A x \in s : Cardinality(s \ {x}) = Cardinality(s) - 1 /\ s \ {x} \in SUBSET S
  BY FS_Subset, FS_CardinalityType, FS_EmptySet, FS_RemoveElement

LEMMA SumsExist ==
  ASSUME NEW S, IsFiniteSet(S), NEW f
  PROVE  \E g : Adds(g, f, SUBSET S)
<1> DEFINE Bad == {n \in Nat : ~ \E g : Adds(g, f, Level(S, n))}
<1>1. ASSUME Bad # {} PROVE FALSE
  <2>1. PICK n \in Bad : \A m \in Bad : n <= m
    BY <1>1, LeastNatural
  <2>2. n \in Nat /\ ~ \E g : Adds(g, f, Level(S, n))
    BY <2>1
  <2> HIDE DEF Bad
  <2>3. CASE n = 0
    <3> DEFINE g == [s \in Level(S, 0) |-> 0]
    <3>1. \A s \in Level(S, 0) : s = {}
      BY PartsAreFinite DEF Level
    <3>2. Adds(g, f, Level(S, 0))
      BY <3>1 DEF Adds
    <3> QED
      BY <2>2, <2>3, <3>2
  <2>4. CASE n # 0
    <3>1. n - 1 \in Nat /\ n - 1 \notin Bad
      BY <2>1, <2>2, <2>4
    <3>2. PICK g : Adds(g, f, Level(S, n - 1))
      BY <3>1 DEF Bad
    <3> DEFINE h == [s \in Level(S, n) |-> IF s = {} THEN 0
                                           ELSE f[Picked(s)] + g[s \ {Picked(s)}]]
    <3>3. \A s \in Level(S, n - 1) : s \in Level(S, n) /\ h[s] = g[s]
      <4>1. \A s \in Level(S, n - 1) : s \in Level(S, n)
        BY <2>2, PartsAreFinite DEF Level
      <4> QED
        BY <3>2, <4>1 DEF Adds
    <3>4. \A s \in Level(S, n) : s # {} => s \ {Picked(s)} \in Level(S, n - 1)
      BY <2>2, PartsAreFinite, PickedIsThere DEF Level
    <3>5. \A s \in Level(S, n) :
            h[s] = IF s = {} THEN 0 ELSE f[Picked(s)] + h[s \ {Picked(s)}]
      BY <3>3, <3>4
    <3>6. Adds(h, f, Level(S, n))
      BY <3>5 DEF Adds
    <3> QED
      BY <2>2, <3>6
  <2> QED
    BY <2>3, <2>4
<1>2. Cardinality(S) \in Nat /\ Level(S, Cardinality(S)) = SUBSET S
  BY PartsAreFinite DEF Level
<1>3. \E g : Adds(g, f, Level(S, Cardinality(S)))
  BY <1>1, <1>2
<1> QED
  BY <1>2, <1>3

\* What the fold computes, for every function of a finite set.
SumOf(f, S) == CHOOSE g : Adds(g, f, SUBSET S)

LEMMA SumIsAFold ==
  ASSUME NEW S, NEW f
  PROVE  SumFunctionOnSet(f, S) = SumOf(f, S)[S]
  BY DEF SumFunctionOnSet, FoldFunctionOnSet, MapThenFoldSet, SumOf, Adds, Picked

LEMMA SumUnfolds ==
  ASSUME NEW S, IsFiniteSet(S), NEW f, NEW s \in SUBSET S
  PROVE  SumOf(f, S)[s] = IF s = {} THEN 0
                          ELSE f[Picked(s)] + SumOf(f, S)[s \ {Picked(s)}]
<1>1. Adds(SumOf(f, S), f, SUBSET S)
  BY SumsExist DEF SumOf
<1> HIDE DEF SumOf
<1> QED
  BY <1>1 DEF Adds

\* A counterexample to an induction over the parts of S: a part with the fewest elements.
LEMMA SmallestPart ==
  ASSUME NEW S, IsFiniteSet(S), NEW Bad \in SUBSET SUBSET S, Bad # {}
  PROVE  \E s \in Bad : \A x \in s : s \ {x} \notin Bad
<1> DEFINE T == {Cardinality(s) : s \in Bad}
<1>1. T \in SUBSET Nat /\ T # {}
  BY PartsAreFinite
<1>2. PICK n \in T : \A m \in T : n <= m
  BY <1>1, LeastNatural
<1>3. PICK s \in Bad : n = Cardinality(s)
  BY <1>2
<1>4. \A u \in Bad : n <= Cardinality(u)
  BY <1>2
<1>5. ASSUME NEW x \in s PROVE s \ {x} \notin Bad
  <2>1. s \in SUBSET S /\ Cardinality(s) \in Nat
    BY PartsAreFinite
  <2>2. Cardinality(s \ {x}) = Cardinality(s) - 1
    BY <2>1, PartsAreFinite
  <2> QED
    BY <1>3, <1>4, <2>1, <2>2
<1> QED
  BY <1>5

LEMMA SumType ==
  ASSUME NEW S, IsFiniteSet(S), NEW f \in [S -> Int], NEW s \in SUBSET S
  PROVE  SumOf(f, S)[s] \in Int
<1> DEFINE Bad == {u \in SUBSET S : SumOf(f, S)[u] \notin Int}
<1>1. ASSUME Bad # {} PROVE FALSE
  <2>1. PICK u \in Bad : \A x \in u : u \ {x} \notin Bad
    BY <1>1, SmallestPart
  <2>2. CASE u = {}
    <3>1. u \in SUBSET S /\ SumOf(f, S)[u] \notin Int
      BY <2>1
    <3>2. SumOf(f, S)[u] = 0
      BY <2>2, <3>1, SumUnfolds
    <3> QED
      BY <3>1, <3>2
  <2>3. CASE u # {}
    <3>1. Picked(u) \in u /\ Picked(u) \in S /\ u \ {Picked(u)} \in SUBSET S
      BY <2>1, <2>3, PickedIsThere
    <3>2. SumOf(f, S)[u \ {Picked(u)}] \in Int /\ f[Picked(u)] \in Int
      BY <2>1, <3>1
    <3>3. SumOf(f, S)[u] = f[Picked(u)] + SumOf(f, S)[u \ {Picked(u)}]
      BY <2>1, <2>3, SumUnfolds
    <3> QED
      BY <2>1, <3>2, <3>3
  <2> QED
    BY <2>2, <2>3
<1> QED
  BY <1>1

\* Any summand can be taken out first.
LEMMA SumSplits ==
  ASSUME NEW S, IsFiniteSet(S), NEW f \in [S -> Int], NEW s \in SUBSET S, NEW x \in s
  PROVE  SumOf(f, S)[s] = f[x] + SumOf(f, S)[s \ {x}]
<1> DEFINE Part(u) == SumOf(f, S)[u]
           Bad == {u \in SUBSET S : \E y \in u : Part(u) # f[y] + Part(u \ {y})}
<1>0. \A u \in SUBSET S : Part(u) \in Int
  BY SumType
<1>1. \A u \in SUBSET S : u # {} => Part(u) = f[Picked(u)] + Part(u \ {Picked(u)})
  BY SumUnfolds
<1> HIDE DEF Part
<1>2. ASSUME Bad # {} PROVE FALSE
  <2>1. PICK u \in Bad : \A y \in u : u \ {y} \notin Bad
    BY <1>2, SmallestPart
  <2>2. PICK y \in u : Part(u) # f[y] + Part(u \ {y})
    BY <2>1
  <2> DEFINE c == Picked(u)
  <2>3. u \in SUBSET S /\ c \in u /\ y \in S /\ c \in S
    BY <2>1, <2>2, PickedIsThere
  <2>4. Part(u) = f[c] + Part(u \ {c})
    BY <1>1, <2>2, <2>3
  <2> HIDE DEF c
  <2>5. c # y
    BY <2>2, <2>4
  <2>6. Part(u \ {c}) = f[y] + Part((u \ {c}) \ {y})
    BY <2>1, <2>2, <2>3, <2>5
  <2>7. Part(u \ {y}) = f[c] + Part((u \ {y}) \ {c})
    BY <2>1, <2>2, <2>3, <2>5
  <2>8. (u \ {c}) \ {y} = (u \ {y}) \ {c} /\ (u \ {c}) \ {y} \in SUBSET S
    BY <2>3
  <2>9. PICK z \in Int : z = Part((u \ {c}) \ {y})
    BY <1>0, <2>8
  <2>10. Part(u) = f[c] + (f[y] + z)
    BY <2>4, <2>6, <2>9
  <2>11. Part(u \ {y}) = f[c] + z
    BY <2>7, <2>8, <2>9
  <2>12. f[c] \in Int /\ f[y] \in Int
    BY <2>3
  <2>13. f[c] + (f[y] + z) = f[y] + (f[c] + z)
    BY <2>12
  <2> QED
    BY <2>2, <2>10, <2>11, <2>13
<1>3. Part(s) = f[x] + Part(s \ {x})
  BY <1>2
<1> QED
  BY <1>3 DEF Part

\* Functions that agree on s have the same sum there.
LEMMA SumAgrees ==
  ASSUME NEW S, IsFiniteSet(S), NEW f, NEW g, NEW s \in SUBSET S,
         \A x \in s : f[x] = g[x]
  PROVE  SumOf(f, S)[s] = SumOf(g, S)[s]
<1> DEFINE Bad == {u \in SUBSET S : u \subseteq s /\ SumOf(f, S)[u] # SumOf(g, S)[u]}
<1>1. ASSUME Bad # {} PROVE FALSE
  <2>1. PICK u \in Bad : \A x \in u : u \ {x} \notin Bad
    BY <1>1, SmallestPart
  <2>2. CASE u = {}
    BY <2>1, <2>2, SumUnfolds
  <2>3. CASE u # {}
    <3>1. Picked(u) \in u /\ Picked(u) \in s /\ u \ {Picked(u)} \in SUBSET S
          /\ u \ {Picked(u)} \subseteq s
      BY <2>1, <2>3, PickedIsThere
    <3>2. /\ SumOf(f, S)[u \ {Picked(u)}] = SumOf(g, S)[u \ {Picked(u)}]
          /\ f[Picked(u)] = g[Picked(u)]
      BY <2>1, <3>1
    <3>3. /\ SumOf(f, S)[u] = f[Picked(u)] + SumOf(f, S)[u \ {Picked(u)}]
          /\ SumOf(g, S)[u] = g[Picked(u)] + SumOf(g, S)[u \ {Picked(u)}]
      BY <2>1, <2>3, SumUnfolds
    <3> QED
      BY <2>1, <3>2, <3>3
  <2> QED
    BY <2>2, <2>3
<1> QED
  BY <1>1

\* The sum over a finite set is an integer, ...
LEMMA SumIsInt ==
  ASSUME NEW S, IsFiniteSet(S), NEW f \in [S -> Int]
  PROVE  SumFunctionOnSet(f, S) \in Int
  BY SumIsAFold, SumType

\* ... it is 0 when nothing is added up, ...
LEMMA SumOfZeros ==
  ASSUME NEW S, IsFiniteSet(S), NEW f \in [S -> Int], \A x \in S : f[x] = 0
  PROVE  SumFunctionOnSet(f, S) = 0
<1> DEFINE Bad == {u \in SUBSET S : SumOf(f, S)[u] # 0}
<1>1. ASSUME Bad # {} PROVE FALSE
  <2>1. PICK u \in Bad : \A x \in u : u \ {x} \notin Bad
    BY <1>1, SmallestPart
  <2>2. CASE u = {}
    BY <2>1, <2>2, SumUnfolds
  <2>3. CASE u # {}
    <3>1. Picked(u) \in u /\ Picked(u) \in S /\ u \ {Picked(u)} \in SUBSET S
      BY <2>1, <2>3, PickedIsThere
    <3>2. SumOf(f, S)[u \ {Picked(u)}] = 0 /\ f[Picked(u)] = 0
      BY <2>1, <3>1
    <3>3. SumOf(f, S)[u] = f[Picked(u)] + SumOf(f, S)[u \ {Picked(u)}]
      BY <2>1, <2>3, SumUnfolds
    <3> QED
      BY <2>1, <3>2, <3>3
  <2> QED
    BY <2>2, <2>3
<1> QED
  BY <1>1, SumIsAFold

\* ... it depends on the summands only, and when one of them changes it
\* changes by as much.
LEMMA SumChanges ==
  ASSUME NEW S, IsFiniteSet(S), NEW f \in [S -> Int], NEW g \in [S -> Int],
         NEW x \in S, \A y \in S : y # x => f[y] = g[y]
  PROVE  SumFunctionOnSet(g, S) = SumFunctionOnSet(f, S) + (g[x] - f[x])
<1>1. SumOf(f, S)[S] = f[x] + SumOf(f, S)[S \ {x}]
  BY SumSplits
<1>2. SumOf(g, S)[S] = g[x] + SumOf(g, S)[S \ {x}]
  BY SumSplits
<1>3. SumOf(f, S)[S \ {x}] = SumOf(g, S)[S \ {x}]
  BY SumAgrees
<1>4. f[x] \in Int /\ g[x] \in Int /\ SumOf(f, S)[S \ {x}] \in Int
  BY SumType
<1> QED
  BY <1>1, <1>2, <1>3, <1>4, SumIsAFold

-----------------------------------------------------------------------------
(***************************************************************************)
(* Money                                                                   *)
(***************************************************************************)

\* One of the three things happened to o that can leave it with a wrong total.
Spoiled(o) == causes[o] \cap {"split", "torn", "half"} # {}

\* What TotalMatchesLines says of o.
Accounted(o) ==
  \/ Spoiled(o)
  \/ \E r \in Request : HalfSaved(r) /\ req[r].ord = o
  \/ total[o] = Sum(Stored(o), price)

AmountTypes ==
  /\ total \in [Order -> Int] /\ price \in [Item -> Price]
  /\ \A r \in Request : req[r].held.total \in Int
  /\ split \in SUBSET Request

\* The entity of a request has the total of its own lines.
AddsUp(r) ==
  \/ req[r].op = "none" \/ Spoiled(req[r].ord)
  \/ req[r].held.total = Sum(req[r].held.lines, price)

\* What the save of r found different is still all that differs. A line it will
\* insert may have come back, without an order: then its INSERT fails.
Compared(r) ==
  LET o == req[r].ord
      d == req[r].diff
  IN  /\ d.found <=> o \in orders
      /\ d.found => /\ "total" \notin d.columns => req[r].held.total = total[o]
                    /\ LinesOf(o) \subseteq Held(r) \cup d.cut
      /\ d.cut \cap Held(r) = {}
      /\ \A i \in Held(r) \ d.insert :
           /\ home[i] # Gone
           /\ i \in d.change \/ quantity[i] = req[r].held.lines[i]
           /\ i \in d.link \/ (d.found /\ home[i] = o)

MoneyInv ==
  /\ AmountTypes
  /\ \A r \in Request : AddsUp(r) /\ (pc[r] = "write" /\ r \notin split => Compared(r))
  /\ TotalMatchesLines

LEMMA Numbers == Quantity \cup {0} \subseteq Int /\ Price \subseteq Int
BY NamesDiffer, CatalogAssumption

LEMMA Amounts ==
  ASSUME NEW lines \in [Item -> Quantity \cup {0}], NEW prices \in [Item -> Price]
  PROVE  /\ [i \in Item |-> lines[i] * prices[i]] \in [Item -> Int]
         /\ Sum(lines, prices) \in Int
         /\ Sum(lines, prices) = SumFunctionOnSet([i \in Item |-> lines[i] * prices[i]], Item)
<1> DEFINE f == [i \in Item |-> lines[i] * prices[i]]
<1>1. f \in [Item -> Int]
  <2>1. \A i \in Item : lines[i] \in Int /\ prices[i] \in Int
    BY Numbers
  <2> QED
    BY <2>1
<1>2. Sum(lines, prices) = SumFunctionOnSet(f, Item)
  BY DEF Sum, SumFunction
<1> HIDE DEF f
<1>3. SumFunctionOnSet(f, Item) \in Int
  BY <1>1, ItemAssumption, SumIsInt
<1> QED
  BY <1>1, <1>2, <1>3 DEF f

\* Prices of lines that are not there do not count.
LEMMA SamePrices ==
  ASSUME NEW lines \in [Item -> Quantity \cup {0}],
         NEW p \in [Item -> Price], NEW q \in [Item -> Price],
         \A i \in Item : lines[i] > 0 => p[i] = q[i]
  PROVE  Sum(lines, p) = Sum(lines, q)
<1>1. \A i \in Item : lines[i] * p[i] = lines[i] * q[i]
  <2>1. ASSUME NEW i \in Item PROVE lines[i] * p[i] = lines[i] * q[i]
    <3>1. lines[i] \in Int /\ p[i] \in Int /\ q[i] \in Int
      BY Numbers
    <3>2. lines[i] = 0 \/ lines[i] > 0
      BY NamesDiffer
    <3> QED
      BY <3>1, <3>2
  <2> QED
    BY <2>1
<1> QED
  BY <1>1 DEF Sum

\* One line more, less, or with another quantity or price.
LEMMA OneLineChanges ==
  ASSUME NEW lines \in [Item -> Quantity \cup {0}], NEW p \in [Item -> Price],
         NEW i \in Item, NEW n \in Quantity \cup {0}
  PROVE  Sum([lines EXCEPT ![i] = n], p) = Sum(lines, p) + (n - lines[i]) * p[i]
<1> DEFINE new == [lines EXCEPT ![i] = n]
           f == [j \in Item |-> lines[j] * p[j]]
           g == [j \in Item |-> new[j] * p[j]]
<1>1. new \in [Item -> Quantity \cup {0}] /\ new[i] = n
  OBVIOUS
<1>2. f \in [Item -> Int] /\ Sum(lines, p) = SumFunctionOnSet(f, Item)
  BY Amounts
<1>3. g \in [Item -> Int] /\ Sum(new, p) = SumFunctionOnSet(g, Item)
  BY <1>1, Amounts
<1>4. \A j \in Item : j # i => f[j] = g[j]
  OBVIOUS
<1>5. f[i] = lines[i] * p[i] /\ g[i] = n * p[i]
  BY <1>1
<1> HIDE DEF f, g, new
<1>6. SumFunctionOnSet(g, Item) = SumFunctionOnSet(f, Item) + (g[i] - f[i])
  BY <1>2, <1>3, <1>4, ItemAssumption, SumChanges
<1>7. lines[i] \in Int /\ n \in Int /\ p[i] \in Int
  BY Numbers
<1>8. n * p[i] - lines[i] * p[i] = (n - lines[i]) * p[i]
  BY <1>7
<1> QED
  BY <1>2, <1>3, <1>5, <1>6, <1>8 DEF new

\* What a line in the database, or in an entity, costs is fixed.
LEMMA LinesHaveProducts ==
  ASSUME IInv
  PROVE  /\ \A o \in Order : /\ Stored(o) \in [Item -> Quantity \cup {0}]
                             /\ \A i \in Item : Stored(o)[i] > 0 => product[i] # None
         /\ \A r \in Request : /\ req[r].held.lines \in [Item -> Quantity \cup {0}]
                               /\ \A i \in Held(r) : product[i] # None
<1>1. RowTypes /\ RequestTypes /\ Referring /\ LinesOK
  BY DEF IInv
<1>2. ASSUME NEW o \in Order
      PROVE  /\ Stored(o) \in [Item -> Quantity \cup {0}]
             /\ \A i \in Item : Stored(o)[i] > 0 => product[i] # None
  BY <1>1, NamesDiffer DEF Stored, RowTypes, Referring
<1>3. ASSUME NEW r \in Request
      PROVE  /\ req[r].held.lines \in [Item -> Quantity \cup {0}]
             /\ \A i \in Held(r) : product[i] # None
  BY <1>1, Typed DEF LinesOK, Knows, Held
<1> QED
  BY <1>2, <1>3

\* The entity of a request that does nothing, while prices are given to new lines.
LEMMA OthersAddUp ==
  ASSUME IInv, MoneyInv, NEW r \in Request, Only(r), NEW q \in Request, q # r,
         price' \in [Item -> Price],
         \A i \in Item : product[i] # None => price'[i] = price[i],
         \A o \in Order : causes[o] \subseteq causes'[o]
  PROVE  AddsUp(q)'
<1>1. req'[q] = req[q] /\ Held(q)' = Held(q)
  BY Others
<1>2. CASE req[q].op = "none"
  BY <1>1, <1>2 DEF AddsUp
<1>3. CASE req[q].op # "none" /\ Spoiled(req[q].ord)
  <2>1. req[q].ord \in Order
    BY <1>3, IdleKnowsNothing DEF IInv, Phases
  <2> QED
    BY <1>1, <1>3, <2>1 DEF AddsUp, Spoiled
<1>4. CASE req[q].held.total = Sum(req[q].held.lines, price)
  <2>1. req[q].held.lines \in [Item -> Quantity \cup {0}]
        /\ \A i \in Item : req[q].held.lines[i] > 0 => product[i] # None
    BY LinesHaveProducts DEF Held
  <2>2. Sum(req[q].held.lines, price') = Sum(req[q].held.lines, price)
    BY <2>1, SamePrices DEF MoneyInv, AmountTypes
  <2> QED
    BY <1>1, <1>4, <2>2 DEF AddsUp
<1> QED
  BY <1>2, <1>3, <1>4 DEF MoneyInv, AddsUp

\* A step of r that changes no row but prices of lines that are being made.
LEMMA RowsStay ==
  ASSUME IInv, MoneyInv, NEW r \in Request, Only(r),
         UNCHANGED <<orders, total, home, quantity>>,
         price' \in [Item -> Price],
         \A i \in Item : product[i] # None => price'[i] = price[i],
         \A o \in Order : causes[o] \subseteq causes'[o],
         split' \in SUBSET Request, split \subseteq split',
         req'[r].held.total \in Int, AddsUp(r)',
         pc'[r] = "write" /\ r \notin split' => Compared(r)',
         \A o \in Order : HalfSaved(r) /\ req[r].ord = o =>
           \/ HalfSaved(r)' /\ req'[r].ord = o
           \/ Spoiled(o)'
           \/ total[o] = Sum(Stored(o), price)
  PROVE  MoneyInv'
<1>t. AmountTypes /\ TotalMatchesLines /\ RowTypes
  BY DEF MoneyInv, IInv
<1>1. AmountTypes'
  BY <1>t, Others DEF AmountTypes, Only
<1>2. ASSUME NEW q \in Request, q # r PROVE AddsUp(q)'
  BY <1>2, OthersAddUp
<1>3. ASSUME NEW q \in Request, q # r, pc'[q] = "write", q \notin split'
      PROVE  Compared(q)'
  <2>1. pc[q] = "write" /\ q \notin split /\ req'[q] = req[q] /\ Held(q)' = Held(q)
    BY <1>3, Others
  <2>2. LinesOf(req[q].ord)' = LinesOf(req[q].ord)
    BY <2>1 DEF LinesOf
  <2> QED
    BY <2>1, <2>2 DEF MoneyInv, Compared
<1>4. TotalMatchesLines'
  <2> SUFFICES ASSUME NEW o \in orders
               PROVE  \/ Spoiled(o)'
                      \/ \E q \in Request : HalfSaved(q)' /\ req'[q].ord = o
                      \/ total[o] = Sum(Stored(o), price')
    BY DEF TotalMatchesLines, Spoiled, Stored
  <2>0. o \in Order
    BY <1>t DEF RowTypes
  <2>1. Sum(Stored(o), price') = Sum(Stored(o), price)
    BY <1>t, <2>0, LinesHaveProducts, SamePrices DEF AmountTypes
  <2>2. CASE Spoiled(o)
    BY <2>0, <2>2 DEF Spoiled
  <2>3. CASE total[o] = Sum(Stored(o), price)
    BY <2>1, <2>3
  <2>4. ASSUME NEW q \in Request, HalfSaved(q), req[q].ord = o
        PROVE  \/ Spoiled(o)'
               \/ HalfSaved(q)' /\ req'[q].ord = o
               \/ total[o] = Sum(Stored(o), price')
    <3>1. CASE q # r
      BY <2>4, <3>1, Others DEF HalfSaved
    <3>2. CASE q = r
      BY <2>0, <2>1, <2>4, <3>2
    <3> QED
      BY <3>1, <3>2
  <2> QED
    BY <1>t, <2>2, <2>3, <2>4 DEF TotalMatchesLines, Spoiled
<1> QED
  BY <1>1, <1>2, <1>3, <1>4 DEF MoneyInv

\* A step of r that changes rows of its order o. Saves of o that are under way
\* are split by it, or all it does is to bring lines back without an order.
LEMMA RowsChange ==
  ASSUME IInv, MoneyInv, NEW r \in Request, Only(r), NEW o \in Order, o = req[r].ord,
         UNCHANGED price, total' \in [Order -> Int],
         \A x \in Order : x # o => total'[x] = total[x] /\ (x \in orders' <=> x \in orders),
         orders' \in SUBSET Order,
         \A i \in Item : home'[i] # home[i] \/ quantity'[i] # quantity[i] =>
           /\ Knows(r, i) \/ home[i] = o
           /\ home'[i] \in {home[i], o, Loose, Gone},
         \A x \in Order : causes[x] \subseteq causes'[x],
         split' \in SUBSET Request, split \subseteq split',
         \/ \A q \in Request : q # r /\ req[q].ord = o /\ pc[q] = "write" => q \in split'
         \/ /\ UNCHANGED <<orders, total>>
            /\ \A i \in Item : home'[i] # home[i] \/ quantity'[i] # quantity[i] =>
                 home[i] = Gone /\ home'[i] = Loose,
         req'[r].held.total \in Int, AddsUp(r)', pc'[r] # "write",
         o \in orders' => Accounted(o)'
  PROVE  MoneyInv'
<1>t. AmountTypes /\ TotalMatchesLines /\ RowTypes /\ LinesOK
  BY DEF MoneyInv, IInv
<1>1. AmountTypes'
  BY <1>t, Others DEF AmountTypes, Only
<1>2. ASSUME NEW q \in Request, q # r PROVE AddsUp(q)'
  BY <1>2, <1>t, OthersAddUp DEF AmountTypes
<1>c. \A i \in Item : home'[i] # home[i] \/ quantity'[i] # quantity[i] =>
        /\ home[i] \in {o, Loose, Gone} /\ home'[i] \in {o, Loose, Gone}
        /\ \A q \in Request : Knows(q, i) => req[q].ord = o
  <2>1. ASSUME NEW i \in Item, home'[i] # home[i] \/ quantity'[i] # quantity[i]
        PROVE  /\ home[i] \in {o, Loose, Gone} /\ home'[i] \in {o, Loose, Gone}
               /\ \A q \in Request : Knows(q, i) => req[q].ord = o
    <3>1. CASE Knows(r, i)
      BY <1>t, <2>1, <3>1 DEF LinesOK
    <3>2. CASE home[i] = o
      BY <1>t, <2>1, <3>2, NamesDiffer DEF LinesOK
    <3> QED
      BY <2>1, <3>1, <3>2
  <2> QED
    BY <2>1
<1>l. \A x \in Order : x # o => LinesOf(x)' = LinesOf(x) /\ Stored(x)' = Stored(x)
  <2>1. \A x \in Order, i \in Item : x # o => (home'[i] = x <=> home[i] = x)
    BY <1>c, NamesDiffer
  <2>2. \A x \in Order, i \in Item : x # o /\ home[i] = x => quantity'[i] = quantity[i]
    BY <1>c, NamesDiffer
  <2> QED
    BY <2>1, <2>2 DEF LinesOf, Stored
<1>3. ASSUME NEW q \in Request, q # r, pc'[q] = "write", q \notin split'
      PROVE  Compared(q)'
  <2>1. pc[q] = "write" /\ q \notin split /\ req'[q] = req[q] /\ Held(q)' = Held(q)
    BY <1>3, Others
  <2>2. Compared(q) /\ req[q].ord \in Order
    BY <1>3, <2>1 DEF MoneyInv, IInv, Phases
  <2>3. CASE req[q].ord # o
    <3>1. \A i \in Held(q) : i \in Item /\ home'[i] = home[i] /\ quantity'[i] = quantity[i]
      BY <1>c, <2>3, HeldAreItems DEF Knows
    <3>2. LinesOf(req[q].ord)' = LinesOf(req[q].ord)
      <4>1. LinesOf(req[q].ord)' = {i \in Item : home'[i] = req[q].ord}
        BY <2>1 DEF LinesOf
      <4>2. \A x \in Order : x # o => {i \in Item : home'[i] = x} = LinesOf(x)
        BY <1>l DEF LinesOf
      <4> QED
        BY <2>2, <2>3, <4>1, <4>2
    <3> QED
      BY <2>1, <2>2, <2>3, <3>1, <3>2 DEF Compared
  <2>4. CASE req[q].ord = o
    <3>1. /\ UNCHANGED <<orders, total>>
          /\ \A i \in Item : home'[i] # home[i] \/ quantity'[i] # quantity[i] =>
               home[i] = Gone /\ home'[i] = Loose
      BY <1>3, <2>1, <2>4
    <3>2. \A i \in Held(q) \ req[q].diff.insert :
            i \in Item /\ home'[i] = home[i] /\ quantity'[i] = quantity[i]
      BY <2>2, <3>1, HeldAreItems DEF Compared
    <3>3. LinesOf(req[q].ord)' = LinesOf(req[q].ord)
      BY <2>1, <2>2, <3>1, NamesDiffer DEF LinesOf
    <3> QED
      BY <2>1, <2>2, <3>1, <3>2, <3>3 DEF Compared
  <2> QED
    BY <2>3, <2>4
<1>4. TotalMatchesLines'
  <2> SUFFICES ASSUME NEW x \in orders'
               PROVE  \/ Spoiled(x)'
                      \/ \E q \in Request : HalfSaved(q)' /\ req'[q].ord = x
                      \/ total'[x] = Sum(Stored(x)', price)
    BY DEF TotalMatchesLines, Spoiled
  <2>1. CASE x = o
    BY <2>1 DEF Accounted
  <2>2. CASE x # o
    <3>1. x \in Order /\ x \in orders /\ total'[x] = total[x] /\ Stored(x)' = Stored(x)
      BY <1>l, <2>2
    <3>2. CASE Spoiled(x)
      BY <3>1, <3>2 DEF Spoiled
    <3>3. CASE total[x] = Sum(Stored(x), price)
      BY <3>1, <3>3
    <3>4. ASSUME NEW q \in Request, HalfSaved(q), req[q].ord = x
          PROVE  HalfSaved(q)' /\ req'[q].ord = x
      BY <2>2, <3>4, Others DEF HalfSaved
    <3> QED
      BY <1>t, <3>1, <3>2, <3>3, <3>4 DEF TotalMatchesLines, Spoiled
  <2> QED
    BY <2>1, <2>2
<1> QED
  BY <1>1, <1>2, <1>3, <1>4, Others DEF MoneyInv

\* What a request holds once a line of it has another quantity.
LEMMA Recounts ==
  ASSUME RequestTypes, NEW r \in Request, NEW to \in Labels, Goto(r, to),
         NEW i \in Item, NEW n \in Quantity \cup {0}, NEW sum,
         req' = [req EXCEPT ![r].held.lines[i] = n, ![r].held.total = sum]
  PROVE  /\ Only(r) /\ pc'[r] = to /\ req'[r].op = req[r].op /\ req'[r].ord = req[r].ord
         /\ req'[r].held.lines = [req[r].held.lines EXCEPT ![i] = n]
         /\ req'[r].held.total = sum
<1> DEFINE w == [req[r] EXCEPT !.held.lines[i] = n, !.held.total = sum]
<1>1. PICK old : req \in [Request -> WorkOf(old)]
  BY DEF RequestTypes
<1>2. /\ w \in WorkOf(old \cup {sum}) /\ w.op = req[r].op /\ w.ord = req[r].ord
      /\ w.held.lines = [req[r].held.lines EXCEPT ![i] = n] /\ w.held.total = sum
  <2>1. req[r] \in WorkOf(old)
    BY <1>1
  <2>2. [req[r].held.lines EXCEPT ![i] = n] \in [Item -> Quantity \cup {0}]
    BY <2>1 DEF WorkOf
  <2> QED
    BY <2>1, <2>2 DEF WorkOf
<1>3. req' = [req EXCEPT ![r] = w]
  BY <1>1 DEF WorkOf
<1> HIDE DEF w
<1>4. Only(r) /\ pc'[r] = to /\ req'[r] = w
  BY <1>2, <1>3, Moves
<1> QED
  BY <1>2, <1>4

\* What a request holds once it has read an order.
LEMMA Loads ==
  ASSUME RowTypes, RequestTypes, NEW r \in Request, NEW o \in Order, NEW s \in Status,
         NEW i \in Item \cup {None},
         NEW k \in {"update", "move", "add", "change", "drop", "remove"},
         NEW to \in Labels, Load(r, o, k, i, s, to)
  PROVE  /\ Only(r) /\ pc'[r] = to /\ req'[r].op = k /\ req'[r].ord = o
         /\ req'[r].held.lines = Stored(o) /\ req'[r].held.total = total[o]
<1> DEFINE w == [req[r] EXCEPT !.op = k, !.ord = o, !.line = i,
                   !.held = [status |-> s, total |-> total[o], lines |-> Stored(o)]]
<1>1. PICK old : req \in [Request -> WorkOf(old)]
  BY DEF RequestTypes
<1>2. Stored(o) \in [Item -> Quantity \cup {0}]
  BY DEF Stored, RowTypes
<1>3. /\ w \in WorkOf(old \cup {total[o]}) /\ w.op = k /\ w.ord = o
      /\ w.held.lines = Stored(o) /\ w.held.total = total[o]
  BY <1>1, <1>2 DEF WorkOf
<1>4. req' = [req EXCEPT ![r] = w]
  BY <1>1 DEF Load, WorkOf
<1>5. Goto(r, to)
  BY DEF Load
<1> HIDE DEF w
<1> QED
  BY <1>3, <1>4, <1>5, Moves

\* A request that ends without a change of rows.
LEMMA QuitsAddUp ==
  ASSUME IInv, MoneyInv, NEW r \in Request, Finish(r),
         UNCHANGED <<orders, total, home, quantity, price, split>>,
         \A o \in Order : causes[o] \subseteq causes'[o],
         \A o \in Order : HalfSaved(r) /\ req[r].ord = o =>
           Spoiled(o)' \/ total[o] = Sum(Stored(o), price)
  PROVE  MoneyInv'
<1>1. Only(r) /\ pc'[r] = "done" /\ req'[r] = Idle
  BY Finishes DEF IInv
<1>2. AmountTypes
  BY DEF MoneyInv
<1>3. req'[r].held.total \in Int /\ AddsUp(r)'
  BY <1>1 DEF AddsUp, Idle
<1> QED
  BY <1>1, <1>2, <1>3, RowsStay DEF AmountTypes

\* What stops between its two saves is on record.
LEMMA BlamedIsSpoiled ==
  ASSUME IInv, NEW r \in Request, Blame(req[r].ord, IF HalfSaved(r) THEN {"half"} ELSE {})
  PROVE  /\ \A o \in Order : causes[o] \subseteq causes'[o]
         /\ \A o \in Order : HalfSaved(r) /\ req[r].ord = o => Spoiled(o)'
BY DEF Blame, IInv, RowTypes, Spoiled

LEMMA LoadAddsUp ==
  ASSUME IInv, MoneyInv, NEW r \in Request, NEW o \in Order, NEW s \in Status,
         NEW i \in Item \cup {None},
         NEW k \in {"update", "move", "add", "change", "drop", "remove"},
         NEW to \in {"save", "product", "item", "deleteItem", "deleteOrder"},
         Load(r, o, k, i, s, to)
  PROVE  MoneyInv'
<1>t. AmountTypes /\ TotalMatchesLines /\ RowTypes /\ RequestTypes
  BY DEF MoneyInv, IInv
<1>0. /\ Only(r) /\ pc'[r] = to /\ req'[r].op = k /\ req'[r].ord = o
      /\ req'[r].held.lines = Stored(o) /\ req'[r].held.total = total[o]
  BY <1>t, Loads DEF Labels
<1>a. /\ pc[r] = "new" /\ o \in orders /\ UNCHANGED <<orders, total, home, quantity, price, split>>
      /\ Blame(o, IF \E q \in Request : HalfSaved(q) /\ req[q].ord = o THEN {"torn"} ELSE {})
  BY DEF Load, rows
<1>c. /\ \A x \in Order : causes[x] \subseteq causes'[x]
      /\ (\E q \in Request : HalfSaved(q) /\ req[q].ord = o) => Spoiled(o)'
  BY <1>a, <1>t DEF Blame, RowTypes, Spoiled
<1>1. AddsUp(r)'
  <2>1. CASE Spoiled(o)
    BY <1>0, <1>c, <2>1 DEF AddsUp, Spoiled
  <2>2. CASE \E q \in Request : HalfSaved(q) /\ req[q].ord = o
    BY <1>0, <1>c, <2>2 DEF AddsUp, Spoiled
  <2>3. CASE total[o] = Sum(Stored(o), price)
    BY <1>0, <1>a, <2>3 DEF AddsUp
  <2> QED
    BY <1>a, <1>t, <2>1, <2>2, <2>3 DEF TotalMatchesLines, Spoiled
<1>2. req'[r].held.total \in Int /\ pc'[r] # "write" /\ ~HalfSaved(r)
  BY <1>0, <1>a, <1>t DEF AmountTypes, HalfSaved
<1> QED
  BY <1>0, <1>1, <1>2, <1>a, <1>c, <1>t, RowsStay DEF AmountTypes

LEMMA CreateReadAddsUp ==
  ASSUME IInv, MoneyInv, NEW r \in Request, NEW o \in Order, NEW lines \in Lines,
         CreateRead(r, o, lines), \A i \in DOMAIN lines : OnSale(lines[i].product)
  PROVE  MoneyInv'
<1>t. AmountTypes /\ RowTypes /\ RequestTypes /\ CatalogTypeOK
  BY DEF MoneyInv, IInv, CatalogOK
<1> DEFINE new == DOMAIN lines
           qty == [i \in Item |-> IF i \in new THEN lines[i].quantity ELSE 0]
           now == [i \in Item |-> IF i \in new THEN cost[lines[i].product] ELSE price[i]]
           sum == Sum(qty, now)
           entity == [status |-> "PENDING", lines |-> qty, total |-> sum]
           w == [req[r] EXCEPT !.op = "create", !.ord = o, !.held = entity]
<1>a. /\ pc[r] = "new" /\ \A i \in new : product[i] = None
      /\ UNCHANGED <<orders, total, home, quantity, split, causes>> /\ price' = now
      /\ req' = [req EXCEPT ![r].op = "create", ![r].ord = o, ![r].held = entity]
      /\ Goto(r, "insert")
  BY DEF CreateRead, history
<1>b. qty \in [Item -> Quantity \cup {0}] /\ now \in [Item -> Price]
  BY <1>t DEF Lines, CatalogTypeOK, AmountTypes
<1>c. \A i \in Item : product[i] # None => now[i] = price[i]
  BY <1>a
<1>d. sum \in Int
  BY <1>b, Amounts
<1> HIDE DEF qty, now
<1>e. PICK old : req \in [Request -> WorkOf(old)]
  BY <1>t DEF RequestTypes
<1>f. w \in WorkOf(old \cup {sum}) /\ w.held = entity
  <2> HIDE DEF sum
  <2> QED
    BY <1>b, <1>e DEF WorkOf, Status
<1>g. req' = [req EXCEPT ![r] = w]
  BY <1>a, <1>e DEF WorkOf
<1>0. Only(r) /\ pc'[r] = "insert" /\ req'[r] = w
  <2> HIDE DEF w
  <2> QED
    BY <1>a, <1>f, <1>g, <1>t, Moves DEF Labels
<1>1. AddsUp(r)' /\ req'[r].held.total \in Int
  BY <1>0, <1>a, <1>d, <1>f DEF AddsUp
<1>2. ~HalfSaved(r)
  BY <1>a DEF HalfSaved
<1> HIDE DEF w
<1> QED
  BY <1>0, <1>1, <1>2, <1>a, <1>b, <1>c, <1>t, RowsStay DEF AmountTypes

LEMMA FindProductAddsUp ==
  ASSUME IInv, MoneyInv, NEW r \in Request, NEW i \in Item, NEW p \in Product,
         NEW n \in Quantity, FindProduct(r, i, p, n), OnSale(p)
  PROVE  MoneyInv'
<1>t. AmountTypes /\ RowTypes /\ RequestTypes /\ CatalogTypeOK /\ AddsUp(r)
  BY DEF MoneyInv, IInv, CatalogOK
<1> DEFINE lines == req[r].held.lines
           sum == req[r].held.total + n * cost[p]
           w == [req[r] EXCEPT !.line = i, !.held.lines[i] = n, !.held.total = sum]
<1>a. /\ pc[r] = "product" /\ req[r].op = "add" /\ product[i] = None
      /\ UNCHANGED <<orders, total, home, quantity, split, causes>>
      /\ price' = [price EXCEPT ![i] = cost[p]]
      /\ req' = [req EXCEPT ![r].line = i, ![r].held.lines[i] = n,
                            ![r].held.total = @ + n * cost[p]]
      /\ Goto(r, "save")
  BY DEF FindProduct, history, IInv, Phases
<1>b. /\ lines \in [Item -> Quantity \cup {0}] /\ lines[i] = 0
      /\ \A x \in Item : lines[x] > 0 => product[x] # None
  <2>1. lines \in [Item -> Quantity \cup {0}] /\ \A x \in Held(r) : product[x] # None
    BY LinesHaveProducts
  <2>2. \A x \in Item : lines[x] = 0 \/ lines[x] > 0
    BY <2>1, NamesDiffer
  <2> QED
    BY <1>a, <2>1, <2>2 DEF Held
<1>c. /\ price' \in [Item -> Price] /\ price'[i] = cost[p] /\ cost[p] \in Int /\ n \in Int
      /\ \A x \in Item : product[x] # None => price'[x] = price[x]
  BY <1>a, <1>t, Numbers DEF CatalogTypeOK, AmountTypes
<1>d. sum \in Int
  BY <1>c, <1>t DEF AmountTypes
<1>e. PICK old : req \in [Request -> WorkOf(old)]
  BY <1>t DEF RequestTypes
<1>f. /\ w \in WorkOf(old \cup {sum}) /\ w.op = "add" /\ w.ord = req[r].ord
      /\ w.held.lines = [lines EXCEPT ![i] = n] /\ w.held.total = sum
  <2> HIDE DEF sum
  <2>1. /\ req[r] \in WorkOf(old) /\ req[r].op = "add"
        /\ [lines EXCEPT ![i] = n] \in [Item -> Quantity \cup {0}]
    BY <1>a, <1>b, <1>e
  <2> QED
    BY <2>1 DEF WorkOf
<1>g. req' = [req EXCEPT ![r] = w]
  BY <1>a, <1>e DEF WorkOf
<1>0. Only(r) /\ pc'[r] = "save" /\ req'[r] = w
  <2> HIDE DEF w
  <2> QED
    BY <1>a, <1>f, <1>g, <1>t, Moves DEF Labels
<1> HIDE DEF w
<1>1. AddsUp(r)'
  <2>1. CASE Spoiled(req[r].ord)
    BY <1>0, <1>a, <1>f, <2>1 DEF AddsUp, Spoiled
  <2>2. CASE req[r].held.total = Sum(lines, price)
    <3>1. Sum(lines, price') = Sum(lines, price)
      BY <1>b, <1>c, <1>t, SamePrices DEF AmountTypes
    <3>2. Sum([lines EXCEPT ![i] = n], price') = Sum(lines, price') + (n - lines[i]) * price'[i]
      BY <1>b, <1>c, OneLineChanges
    <3>3. (n - lines[i]) * price'[i] = n * cost[p]
      BY <1>b, <1>c
    <3>4. req'[r].held.total = Sum(req'[r].held.lines, price')
      BY <1>0, <1>f, <2>2, <3>1, <3>2, <3>3
    <3> QED
      BY <3>4 DEF AddsUp
  <2> QED
    BY <1>a, <1>t, <2>1, <2>2 DEF AddsUp
<1>2. ~HalfSaved(r) /\ req'[r].held.total \in Int
  BY <1>0, <1>a, <1>d, <1>f DEF HalfSaved
<1> QED
  BY <1>0, <1>1, <1>2, <1>a, <1>c, <1>t, RowsStay DEF AmountTypes

LEMMA ReloadItemAddsUp ==
  ASSUME IInv, MoneyInv, NEW r \in Request, NEW n \in Quantity, ReloadItem(r, n)
  PROVE  MoneyInv'
<1>t. AmountTypes /\ RowTypes /\ RequestTypes /\ AddsUp(r) /\ NewOK
  BY DEF MoneyInv, IInv
<1>p. PICK i \in Item : i = req[r].line
  BY <1>t, Typed, NamesDiffer DEF ReloadItem, IInv, Phases, NewOK, Held
<1>q. PICK to \in Labels : Goto(r, to) /\ to # "write"
  BY DEF ReloadItem, Labels
<1> DEFINE lines == req[r].held.lines
           sum == req[r].held.total + (n - lines[i]) * price[i]
<1>a. /\ pc[r] = "item" /\ req[r].op = "change"
      /\ UNCHANGED <<orders, total, home, quantity, price, split, causes>>
      /\ req' = [req EXCEPT ![r].held.lines[i] = n, ![r].held.total = sum]
  BY <1>p DEF ReloadItem, rows, history, IInv, Phases
<1>b. /\ lines \in [Item -> Quantity \cup {0}] /\ n \in Int /\ lines[i] \in Int
      /\ price[i] \in Int /\ req[r].held.total \in Int
  BY <1>t, LinesHaveProducts, Numbers DEF AmountTypes
<1>0. /\ Only(r) /\ pc'[r] = to /\ req'[r].op = "change" /\ req'[r].ord = req[r].ord
      /\ req'[r].held.lines = [lines EXCEPT ![i] = n] /\ req'[r].held.total = sum
  <2> DEFINE w == [req[r] EXCEPT !.held.lines[i] = n, !.held.total = sum]
  <2>1. PICK old : req \in [Request -> WorkOf(old)]
    BY <1>t DEF RequestTypes
  <2>2. /\ w \in WorkOf(old \cup {sum}) /\ w.op = "change" /\ w.ord = req[r].ord
        /\ w.held.lines = [lines EXCEPT ![i] = n] /\ w.held.total = sum
    <3> HIDE DEF sum
    <3>1. /\ req[r] \in WorkOf(old) /\ req[r].op = "change"
          /\ [lines EXCEPT ![i] = n] \in [Item -> Quantity \cup {0}]
      BY <1>a, <1>b, <2>1
    <3> QED
      BY <3>1 DEF WorkOf
  <2>3. req' = [req EXCEPT ![r] = w]
    BY <1>a, <2>1 DEF WorkOf
  <2> HIDE DEF w
  <2>4. Only(r) /\ pc'[r] = to /\ req'[r] = w
    BY <1>q, <1>t, <2>2, <2>3, Moves
  <2> QED
    BY <2>2, <2>4
<1>1. AddsUp(r)'
  <2>1. CASE Spoiled(req[r].ord)
    BY <1>0, <1>a, <2>1 DEF AddsUp, Spoiled
  <2>2. CASE req[r].held.total = Sum(lines, price)
    <3>1. Sum([lines EXCEPT ![i] = n], price) = Sum(lines, price) + (n - lines[i]) * price[i]
      BY <1>b, <1>t, OneLineChanges DEF AmountTypes
    <3> QED
      BY <1>0, <1>a, <2>2, <3>1 DEF AddsUp
  <2> QED
    BY <1>a, <1>t, <2>1, <2>2 DEF AddsUp
<1>2. ~HalfSaved(r) /\ req'[r].held.total \in Int /\ pc'[r] # "write"
  BY <1>0, <1>a, <1>b, <1>q DEF HalfSaved
<1> QED
  BY <1>0, <1>1, <1>2, <1>a, <1>t, RowsStay DEF AmountTypes

LEMMA ReloadAddsUp ==
  ASSUME IInv, MoneyInv, NEW r \in Request, Reload(r)
  PROVE  MoneyInv'
<1>t. AmountTypes /\ RowTypes /\ RequestTypes /\ AddsUp(r)
  BY DEF MoneyInv, IInv
<1>d. PICK o \in Order : o = req[r].ord
  BY DEF Reload, IInv, Phases
<1> DEFINE found == o \in orders
           d == [found   |-> found,
                 columns |-> {c \in {"status", "total"} :
                                \/ c = "status" /\ req[r].held.status # status[o]
                                \/ c = "total" /\ req[r].held.total # total[o]},
                 insert  |-> {i \in Held(r) : home[i] = Gone},
                 change  |-> {i \in Held(r) : home[i] # Gone
                                              /\ quantity[i] # req[r].held.lines[i]},
                 link    |-> {i \in Held(r) : home[i] # Gone /\ (~found \/ home[i] # o)},
                 cut     |-> IF found THEN LinesOf(o) \ Held(r) ELSE {}]
           w == [req[r] EXCEPT !.diff = d]
<1>a. /\ pc[r] = "save" /\ req[r].op \in {"update", "move", "add", "change", "drop"}
      /\ UNCHANGED <<orders, total, home, quantity, price, split, causes>>
  BY DEF Reload, IInv, Phases, rows, history
<1>e. IF d = NoDiff THEN Finish(r) ELSE req' = [req EXCEPT ![r] = w] /\ Goto(r, "write")
  BY <1>d DEF Reload, Held
<1>l. req[r].held.lines \in [Item -> Quantity \cup {0}]
  BY LinesHaveProducts
<1>1. CASE d = NoDiff
  <2>1. /\ o \in orders /\ req[r].held.total = total[o]
        /\ \A i \in Held(r) : home[i] = o /\ quantity[i] = req[r].held.lines[i]
        /\ LinesOf(o) \subseteq Held(r)
    <3>1. /\ d.found /\ d.columns = {} /\ d.insert = {} /\ d.change = {} /\ d.link = {}
          /\ d.cut = {}
      BY <1>1 DEF NoDiff
    <3> QED
      BY <3>1
  <2> HIDE DEF d
  <2>2. Stored(o) = req[r].held.lines
    <3>1. \A i \in Item : i \notin Held(r) => home[i] # o /\ req[r].held.lines[i] = 0
      BY <1>l, <2>1, NamesDiffer DEF Held, LinesOf
    <3>2. \A i \in Item : Stored(o)[i] = req[r].held.lines[i]
      BY <2>1, <3>1 DEF Stored
    <3> QED
      BY <1>l, <3>2 DEF Stored
  <2>3. Spoiled(o)' \/ total[o] = Sum(Stored(o), price)
    BY <1>a, <1>d, <1>t, <2>1, <2>2 DEF AddsUp, Spoiled
  <2> QED
    BY <1>1, <1>a, <1>d, <1>e, <2>3, QuitsAddUp
<1>2. CASE d # NoDiff
  <2>0. PICK old : req \in [Request -> WorkOf(old)]
    BY <1>t DEF RequestTypes
  <2>1. /\ d \in Diff /\ w \in WorkOf(old) /\ w.op = req[r].op /\ w.ord = o
        /\ w.held = req[r].held /\ w.diff = d
    <3>1. d \in Diff
      BY DEF Diff, Held, LinesOf
    <3> HIDE DEF d
    <3> QED
      BY <1>d, <2>0, <3>1 DEF WorkOf
  <2>2. Only(r) /\ pc'[r] = "write" /\ req'[r] = w
    <3> HIDE DEF w, d
    <3> QED
      BY <1>2, <1>e, <1>t, <2>1, Moves DEF Labels
  <2>3. Held(r)' = Held(r)
    BY <2>1, <2>2 DEF Held
  <2>4. Compared(r)'
    <3>1. /\ d.found <=> o \in orders
          /\ d.found => /\ "total" \notin d.columns => req[r].held.total = total[o]
                        /\ LinesOf(o) \subseteq Held(r) \cup d.cut
          /\ d.cut \cap Held(r) = {}
      OBVIOUS
    <3>2. \A i \in Held(r) \ d.insert :
            /\ home[i] # Gone
            /\ i \in d.change \/ quantity[i] = req[r].held.lines[i]
            /\ i \in d.link \/ (d.found /\ home[i] = o)
      OBVIOUS
    <3>3. LinesOf(req[r].ord)' = LinesOf(o)
      BY <1>a, <2>1, <2>2 DEF LinesOf
    <3> HIDE DEF d, w
    <3> QED
      BY <1>a, <2>1, <2>2, <2>3, <3>1, <3>2, <3>3 DEF Compared
  <2>5. AddsUp(r)' /\ req'[r].held.total \in Int
    <3> HIDE DEF d, w
    <3> QED
      BY <1>a, <1>d, <1>t, <2>1, <2>2 DEF AddsUp, Spoiled, AmountTypes
  <2>6. HalfSaved(r) => HalfSaved(r)' /\ req'[r].ord = req[r].ord
    <3> HIDE DEF d, w
    <3> QED
      BY <1>d, <2>1, <2>2 DEF HalfSaved
  <2> HIDE DEF d, w
  <2> QED
    BY <1>a, <1>t, <2>2, <2>4, <2>5, <2>6, RowsStay DEF AmountTypes
<1> QED
  BY <1>1, <1>2

LEMMA CreateInsertAddsUp ==
  ASSUME IInv, MoneyInv, NEW r \in Request, CreateInsert(r),
         \A i \in Held(r) : OnSale(product[i])
  PROVE  MoneyInv'
<1>t. AmountTypes /\ RowTypes /\ RequestTypes /\ AddsUp(r) /\ OrdersOK /\ Referring
  BY DEF MoneyInv, IInv
<1>d. PICK o \in Order : o = req[r].ord
  BY DEF CreateInsert, IInv, Phases
<1>a. /\ pc[r] = "insert" /\ req[r].op = "create" /\ Finish(r) /\ o \notin orders
      /\ \A q \in Request : q # r => req[q].ord # o
      /\ UNCHANGED <<price, split, causes>>
      /\ orders' = orders \cup {o}
      /\ total' = [total EXCEPT ![o] = req[r].held.total]
      /\ home' = [i \in Item |-> IF i \in Held(r) THEN o ELSE home[i]]
      /\ quantity' = [i \in Item |-> IF i \in Held(r) THEN req[r].held.lines[i]
                                      ELSE quantity[i]]
  BY <1>d, <1>t DEF CreateInsert, IInv, Phases, OrdersOK, Held
<1>0. Only(r) /\ pc'[r] = "done" /\ req'[r] = Idle
  BY <1>a, <1>t, Finishes
<1>1. req'[r].held.total \in Int /\ AddsUp(r)'
  BY <1>0 DEF AddsUp, Idle
<1>2. Stored(o)' = req[r].held.lines
  <2>1. \A i \in Item : i \notin Held(r) => home[i] # o /\ req[r].held.lines[i] = 0
    BY <1>a, <1>t, LinesHaveProducts, NamesDiffer DEF Held, Referring
  <2>2. \A i \in Item : Stored(o)'[i] = req[r].held.lines[i]
    BY <1>a, <2>1 DEF Stored
  <2> QED
    BY <2>2, LinesHaveProducts DEF Stored
<1>3. Accounted(o)'
  <2>1. total'[o] = req[r].held.total
    BY <1>a, <1>t DEF AmountTypes
  <2> QED
    BY <1>2, <1>a, <1>d, <1>t, <2>1 DEF AddsUp, Spoiled, Accounted
<1>4. \A i \in Item : home'[i] # home[i] \/ quantity'[i] # quantity[i] =>
        Knows(r, i) /\ home'[i] = o
  BY <1>a DEF Knows
<1>5. /\ total' \in [Order -> Int] /\ orders' \in SUBSET Order
      /\ \A x \in Order : x # o => total'[x] = total[x] /\ (x \in orders' <=> x \in orders)
  BY <1>a, <1>t DEF AmountTypes, RowTypes
<1>6. /\ UNCHANGED price /\ split' \in SUBSET Request /\ split \subseteq split'
      /\ \A x \in Order : causes[x] \subseteq causes'[x]
      /\ \A q \in Request : q # r /\ req[q].ord = o /\ pc[q] = "write" => q \in split'
      /\ pc'[r] # "write"
  BY <1>0, <1>a, <1>t DEF AmountTypes
<1> QED
  BY <1>0, <1>1, <1>3, <1>4, <1>5, <1>6, <1>d, RowsChange

LEMMA WriteItemAddsUp ==
  ASSUME IInv, MoneyInv, NEW r \in Request, WriteItem(r)
  PROVE  MoneyInv'
<1>t. AmountTypes /\ RowTypes /\ RequestTypes /\ AddsUp(r) /\ NewOK
  BY DEF MoneyInv, IInv
<1>d. PICK i \in Item, o \in Order : i = req[r].line /\ i \in Held(r) /\ o = req[r].ord
  BY <1>t, Typed, NamesDiffer DEF WriteItem, IInv, Phases, NewOK, Held
<1>a. /\ pc[r] = "writeItem" /\ req[r].op = "change" /\ Goto(r, "save") /\ "save" \in Labels
      /\ UNCHANGED <<orders, total, home, price, req, causes>>
      /\ Touch(r, o, {"lines"})
  BY <1>d DEF WriteItem, IInv, Phases, Labels
<1>b. \A x \in Item : x # i => quantity'[x] = quantity[x]
  BY <1>d, <1>t DEF WriteItem, RowTypes
<1>0. Only(r) /\ pc'[r] = "save" /\ req'[r] = req[r]
  BY <1>a, <1>t, Passes
<1>1. AddsUp(r)' /\ req'[r].held.total \in Int
  BY <1>0, <1>a, <1>t DEF AddsUp, Spoiled, AmountTypes
<1>2. Accounted(o)'
  BY <1>0, <1>a, <1>d DEF HalfSaved, Accounted
<1>3. /\ split' \in SUBSET Request /\ split \subseteq split'
      /\ \A q \in Request : q # r /\ req[q].ord = o /\ pc[q] = "write" => q \in split'
  BY <1>a, <1>t DEF Touch, AmountTypes
<1>4. \A x \in Item : home'[x] # home[x] \/ quantity'[x] # quantity[x] =>
        Knows(r, x) /\ home'[x] = home[x]
  BY <1>a, <1>b, <1>d DEF Knows
<1> QED
  BY <1>0, <1>1, <1>2, <1>3, <1>4, <1>a, <1>d, <1>t, RowsChange DEF AmountTypes, RowTypes

LEMMA InsertItemAddsUp ==
  ASSUME IInv, MoneyInv, NEW r \in Request, InsertItem(r),
         home[req[r].line] = Gone, OnSale(product[req[r].line])
  PROVE  MoneyInv'
<1>t. AmountTypes /\ RowTypes /\ RequestTypes /\ AddsUp(r) /\ NewOK
  BY DEF MoneyInv, IInv
<1>d. PICK i \in Item, o \in Order : i = req[r].line /\ i \in Held(r) /\ o = req[r].ord
  BY <1>t, Typed, NamesDiffer DEF InsertItem, IInv, Phases, NewOK, Held
<1>a. /\ pc[r] = "insertItem" /\ req[r].op = "change" /\ Goto(r, "save") /\ "save" \in Labels
      /\ UNCHANGED <<orders, total, price, req, causes, split>>
      /\ home' = [home EXCEPT ![i] = Loose]
      /\ quantity' = [quantity EXCEPT ![i] = req[r].held.lines[i]]
  BY <1>d DEF InsertItem, IInv, Phases, Labels, history
<1>0. Only(r) /\ pc'[r] = "save" /\ req'[r] = req[r]
  BY <1>a, <1>t, Passes
<1>1. AddsUp(r)' /\ req'[r].held.total \in Int
  BY <1>0, <1>a, <1>t DEF AddsUp, Spoiled, AmountTypes
<1>2. Accounted(o)'
  BY <1>0, <1>a, <1>d DEF HalfSaved, Accounted
<1>4. \A x \in Item : home'[x] # home[x] \/ quantity'[x] # quantity[x] =>
        Knows(r, x) /\ home[x] = Gone /\ home'[x] = Loose
  BY <1>a, <1>d, <1>t DEF Knows, RowTypes
<1> QED
  BY <1>0, <1>1, <1>2, <1>4, <1>a, <1>d, <1>t, RowsChange DEF AmountTypes, RowTypes

LEMMA DeleteItemAddsUp ==
  ASSUME IInv, MoneyInv, NEW r \in Request, DeleteItem(r)
  PROVE  MoneyInv'
<1>t. AmountTypes /\ RowTypes /\ RequestTypes /\ AddsUp(r) /\ NewOK
  BY DEF MoneyInv, IInv
<1>d. PICK i \in Item, o \in Order : i = req[r].line /\ i \in Held(r) /\ o = req[r].ord
  BY <1>t, Typed, NamesDiffer DEF DeleteItem, IInv, Phases, NewOK, Held
<1> DEFINE lines == req[r].held.lines
           sum == req[r].held.total - lines[i] * price[i]
<1>a. /\ pc[r] = "deleteItem" /\ req[r].op = "drop" /\ Goto(r, "save") /\ "save" \in Labels
      /\ UNCHANGED <<orders, total, quantity, price, causes>>
      /\ home' = [home EXCEPT ![i] = Gone]
      /\ req' = [req EXCEPT ![r].held.lines[i] = 0, ![r].held.total = sum]
      /\ Touch(r, o, {"lines"})
  BY <1>d DEF DeleteItem, IInv, Phases, Labels
<1>b. /\ lines \in [Item -> Quantity \cup {0}] /\ lines[i] \in Int
      /\ price[i] \in Int /\ req[r].held.total \in Int
  BY <1>t, LinesHaveProducts, Numbers DEF AmountTypes
<1>0. /\ Only(r) /\ pc'[r] = "save" /\ req'[r].op = "drop" /\ req'[r].ord = o
      /\ req'[r].held.lines = [lines EXCEPT ![i] = 0] /\ req'[r].held.total = sum
  <2> HIDE DEF sum
  <2>1. /\ Only(r) /\ pc'[r] = "save" /\ req'[r].op = req[r].op /\ req'[r].ord = req[r].ord
        /\ req'[r].held.lines = [req[r].held.lines EXCEPT ![i] = 0]
        /\ req'[r].held.total = sum
    BY <1>a, <1>t, Recounts
  <2> QED
    BY <1>a, <1>d, <2>1
<1>1. AddsUp(r)'
  <2>1. CASE Spoiled(o)
    BY <1>0, <1>a, <2>1 DEF AddsUp, Spoiled
  <2>2. CASE req[r].held.total = Sum(lines, price)
    <3>1. Sum([lines EXCEPT ![i] = 0], price) = Sum(lines, price) + (0 - lines[i]) * price[i]
      BY <1>b, <1>t, OneLineChanges DEF AmountTypes
    <3>2. (0 - lines[i]) * price[i] = -(lines[i] * price[i])
      BY <1>b
    <3> QED
      BY <1>0, <1>a, <1>b, <2>2, <3>1, <3>2 DEF AddsUp
  <2> QED
    BY <1>a, <1>d, <1>t, <2>1, <2>2 DEF AddsUp
<1>5. sum \in Int
  BY <1>b
<1>2. Accounted(o)' /\ req'[r].held.total \in Int
  <2> HIDE DEF sum
  <2> QED
    BY <1>0, <1>5 DEF HalfSaved, Accounted
<1>3. /\ split' \in SUBSET Request /\ split \subseteq split'
      /\ \A q \in Request : q # r /\ req[q].ord = o /\ pc[q] = "write" => q \in split'
  BY <1>a, <1>t DEF Touch, AmountTypes
<1>4. \A x \in Item : home'[x] # home[x] \/ quantity'[x] # quantity[x] =>
        Knows(r, x) /\ home'[x] = Gone
  BY <1>a, <1>d, <1>t DEF Knows, RowTypes
<1> HIDE DEF sum
<1> QED
  BY <1>0, <1>1, <1>2, <1>3, <1>4, <1>a, <1>d, <1>t, RowsChange DEF AmountTypes, RowTypes

LEMMA DeleteOrderAddsUp ==
  ASSUME IInv, MoneyInv, NEW r \in Request, DeleteOrder(r)
  PROVE  MoneyInv'
<1>t. AmountTypes /\ RowTypes /\ RequestTypes
  BY DEF MoneyInv, IInv
<1>d. PICK o \in Order : o = req[r].ord
  BY DEF DeleteOrder, IInv, Phases
<1>a. /\ Finish(r) /\ UNCHANGED <<total, quantity, price, causes>>
      /\ orders' = orders \ {o} /\ Touch(r, o, {"lines", "status"})
      /\ home' = [x \in Item |-> IF home[x] = o \/ x \in Held(r) THEN Gone ELSE home[x]]
  BY <1>d DEF DeleteOrder, Held
<1>0. Only(r) /\ pc'[r] = "done" /\ req'[r] = Idle
  BY <1>a, <1>t, Finishes
<1>1. AddsUp(r)' /\ req'[r].held.total \in Int
  BY <1>0 DEF AddsUp, Idle
<1>3. /\ split' \in SUBSET Request /\ split \subseteq split'
      /\ \A q \in Request : q # r /\ req[q].ord = o /\ pc[q] = "write" => q \in split'
  BY <1>a, <1>t DEF Touch, AmountTypes
<1>4. \A x \in Item : home'[x] # home[x] \/ quantity'[x] # quantity[x] =>
        (Knows(r, x) \/ home[x] = o) /\ home'[x] = Gone
  BY <1>a DEF Knows
<1>5. /\ total' \in [Order -> Int] /\ orders' \in SUBSET Order /\ o \notin orders'
      /\ \A x \in Order : x # o => total'[x] = total[x] /\ (x \in orders' <=> x \in orders)
  BY <1>a, <1>t DEF AmountTypes, RowTypes
<1> QED
  BY <1>0, <1>1, <1>3, <1>4, <1>5, <1>a, <1>d, RowsChange

LEMMA WriteAddsUp ==
  ASSUME IInv, MoneyInv, NEW r \in Request, Write(r), Accepted(r)
  PROVE  MoneyInv'
<1>t. AmountTypes /\ RowTypes /\ RequestTypes /\ AddsUp(r) /\ LinesOK /\ Referring
  BY DEF MoneyInv, IInv
<1>d. PICK o \in Order, d \in Diff : o = req[r].ord /\ d = req[r].diff
  BY <1>t, Typed DEF Write, IInv, Phases
<1> DEFINE there == {x \in Item : home[x] # Gone}
           moved == d.insert \cup (d.link \cap there)
<1>a. /\ pc[r] = "write" /\ req[r].op # "none" /\ Finish(r) /\ UNCHANGED price
      /\ Touch(r, o, {"lines"} \cup (d.columns \ {"total"}))
      /\ Blame(o, missed[r] \cup (IF r \in split THEN {"split"} ELSE {}))
  BY <1>d DEF Write, IInv, Phases
<1>e. /\ orders' = IF d.found THEN orders ELSE orders \cup {o}
      /\ total' = [total EXCEPT ![o] =
           IF ~d.found \/ "total" \in d.columns THEN req[r].held.total ELSE @]
      /\ home' = [x \in Item |-> IF x \in moved THEN o
                                 ELSE IF x \in d.cut \cap there THEN Loose ELSE home[x]]
      /\ quantity' = [x \in Item |-> IF x \in d.insert \cup (d.change \cap there)
                                       THEN req[r].held.lines[x] ELSE quantity[x]]
  BY <1>d DEF Write, WriteRows
<1>i. \A x \in d.insert \cup d.change \cup d.link : x \in Held(r)
  BY <1>d, <1>t DEF LinesOK, Diff
<1>0. Only(r) /\ pc'[r] = "done" /\ req'[r] = Idle
  BY <1>a, <1>t, Finishes
<1>1. AddsUp(r)' /\ req'[r].held.total \in Int
  BY <1>0 DEF AddsUp, Idle
<1>2. /\ split' \in SUBSET Request /\ split \subseteq split'
      /\ \A q \in Request : q # r /\ req[q].ord = o /\ pc[q] = "write" => q \in split'
      /\ \A x \in Order : causes[x] \subseteq causes'[x]
      /\ r \in split => "split" \in causes'[o]
  BY <1>a, <1>t DEF Touch, Blame, AmountTypes, RowTypes
<1>3. \A x \in Item : home'[x] # home[x] \/ quantity'[x] # quantity[x] =>
        Knows(r, x) /\ home'[x] \in {home[x], o, Loose, Gone}
  BY <1>d, <1>e, <1>i DEF Knows
<1>4. /\ total' \in [Order -> Int] /\ orders' \in SUBSET Order
      /\ \A x \in Order : x # o => total'[x] = total[x] /\ (x \in orders' <=> x \in orders)
  BY <1>e, <1>t DEF AmountTypes, RowTypes
<1>9. UNCHANGED price /\ pc'[r] # "write"
  BY <1>0, <1>a
<1>5. CASE r \in split
  <2>1. Accounted(o)'
    BY <1>2, <1>5 DEF Spoiled, Accounted
  <2> QED
    BY <1>0, <1>1, <1>2, <1>3, <1>4, <1>9, <1>d, <2>1, RowsChange
<1>6. CASE r \notin split
  <2>1. Compared(r)
    BY <1>6, <1>a DEF MoneyInv
  <2>2. /\ d.found <=> o \in orders
        /\ d.found => /\ "total" \notin d.columns => req[r].held.total = total[o]
                      /\ LinesOf(o) \subseteq Held(r) \cup d.cut
        /\ d.cut \cap Held(r) = {}
        /\ \A x \in Held(r) \ d.insert :
             /\ home[x] # Gone
             /\ x \in d.change \/ quantity[x] = req[r].held.lines[x]
             /\ x \in d.link \/ (d.found /\ home[x] = o)
    BY <1>d, <2>1 DEF Compared
  <2>3. req[r].held.lines \in [Item -> Quantity \cup {0}]
    BY LinesHaveProducts
  <2>4. ASSUME NEW x \in Held(r) PROVE x \in Item /\ home'[x] = o /\ quantity'[x] = req[r].held.lines[x]
    <3>1. x \in Item
      BY DEF Held
    <3>2. CASE x \in d.insert
      BY <1>e, <3>1, <3>2
    <3>3. CASE x \notin d.insert
      BY <1>e, <2>2, <3>1, <3>3
    <3> QED
      BY <3>1, <3>2, <3>3
  <2>5. ASSUME NEW x \in Item, x \notin Held(r) PROVE home'[x] # o /\ req[r].held.lines[x] = 0
    <3>1. req[r].held.lines[x] = 0
      BY <2>3, <2>5, NamesDiffer DEF Held
    <3>2. x \notin moved
      BY <1>i, <2>5
    <3>3. home[x] = o => d.found
      BY <1>t, <2>2, NamesDiffer DEF Referring
    <3>4. home[x] = o => x \in d.cut /\ x \in there
      BY <2>2, <2>5, <3>3, NamesDiffer DEF LinesOf
    <3> HIDE DEF moved, there
    <3> QED
      BY <1>e, <3>1, <3>2, <3>4, NamesDiffer
  <2>6. Stored(o)' = req[r].held.lines
    <3>1. \A x \in Item : Stored(o)'[x] = req[r].held.lines[x]
      BY <2>4, <2>5 DEF Stored
    <3> QED
      BY <2>3, <3>1 DEF Stored
  <2>7. total'[o] = req[r].held.total
    BY <1>e, <1>t, <2>2 DEF AmountTypes
  <2>8. Accounted(o)'
    BY <1>2, <1>a, <1>d, <1>t, <2>6, <2>7 DEF AddsUp, Spoiled, Accounted
  <2> QED
    BY <1>0, <1>1, <1>2, <1>3, <1>4, <1>9, <1>d, <2>8, RowsChange
<1> QED
  BY <1>5, <1>6

\* Statuses and products are nothing to amounts.
LEMMA UnaffectedAddsUp ==
  ASSUME MoneyInv, UNCHANGED <<orders, total, home, quantity, price, pc, req, split, causes>>
  PROVE  MoneyInv'
<1>1. \A x : LinesOf(x)' = LinesOf(x) /\ Stored(x)' = Stored(x) /\ (Spoiled(x)' <=> Spoiled(x))
  BY DEF LinesOf, Stored, Spoiled
<1>2. \A r \in Request : /\ Held(r)' = Held(r) /\ (HalfSaved(r)' <=> HalfSaved(r))
                         /\ LinesOf(req[r].ord)' = LinesOf(req[r].ord)
                         /\ (Spoiled(req[r].ord)' <=> Spoiled(req[r].ord))
  BY DEF Held, HalfSaved, LinesOf, Spoiled
<1>3. AmountTypes'
  BY DEF MoneyInv, AmountTypes
<1>4. \A r \in Request : (AddsUp(r)' <=> AddsUp(r)) /\ (Compared(r)' <=> Compared(r))
  BY <1>2 DEF AddsUp, Compared
<1>5. TotalMatchesLines'
  BY <1>1, <1>2 DEF MoneyInv, TotalMatchesLines
<1> QED
  BY <1>3, <1>4, <1>5 DEF MoneyInv

LEMMA ArrivalAddsUp ==
  ASSUME IInv, MoneyInv, NEW r \in Request, Arrivals(r)
  PROVE  MoneyInv'
<1>1. PICK o \in Order :
        \/ \E lines \in Lines : CreateRead(r, o, lines)
        \/ \E s \in PatchInput : Update(r, o, s)
        \/ Move(r, o) \/ Remove(r, o) \/ AddItem(r, o)
        \/ \E i \in Item : UpdateItem(r, o, i) \/ RemoveItem(r, o, i)
  BY DEF Arrivals
<1>2. status[o] \in Status /\ PatchInput \subseteq Status
  BY InputAssumption DEF IInv, RowTypes
<1>3. ASSUME NEW lines \in Lines, CreateRead(r, o, lines) PROVE MoneyInv'
  <2>1. CASE \A i \in DOMAIN lines : OnSale(lines[i].product)
    BY <1>3, <2>1, CreateReadAddsUp
  <2>2. CASE ~(\A i \in DOMAIN lines : OnSale(lines[i].product))
    <3>1. /\ pc[r] = "new" /\ Finish(r)
          /\ UNCHANGED <<orders, total, home, quantity, price, split, causes>>
      BY <1>3, <2>2 DEF CreateRead, history
    <3> QED
      BY <3>1, QuitsAddUp DEF HalfSaved
  <2> QED
    BY <2>1, <2>2
<1>4. ASSUME NEW s \in PatchInput, Update(r, o, s) PROVE MoneyInv'
  BY <1>2, <1>4, LoadAddsUp DEF Update
<1>5. CASE AddItem(r, o)
  BY <1>2, <1>5, LoadAddsUp DEF AddItem
<1>6. CASE Remove(r, o)
  BY <1>2, <1>6, LoadAddsUp DEF Remove
<1>7. ASSUME NEW i \in Item, UpdateItem(r, o, i) PROVE MoneyInv'
  BY <1>2, <1>7, LoadAddsUp DEF UpdateItem
<1>8. ASSUME NEW i \in Item, RemoveItem(r, o, i) PROVE MoneyInv'
  BY <1>2, <1>8, LoadAddsUp DEF RemoveItem
<1>9. CASE Move(r, o)
  BY <1>2, <1>9, LoadAddsUp DEF Move
<1> QED
  BY <1>1, <1>3, <1>4, <1>5, <1>6, <1>7, <1>8, <1>9

LEMMA ProceedAddsUp ==
  ASSUME IInv, MoneyInv, NEW r \in Request, Proceed(r)
  PROVE  MoneyInv'
<1>1. CASE CreateInsert(r)
  <2>1. CASE \A i \in Held(r) : OnSale(product[i])
    BY <1>1, <2>1, CreateInsertAddsUp
  <2>2. CASE ~(\A i \in Held(r) : OnSale(product[i]))
    <3>1. /\ pc[r] = "insert" /\ Finish(r)
          /\ UNCHANGED <<orders, total, home, quantity, price, split, causes>>
      BY <1>1, <2>2 DEF CreateInsert, Held
    <3> QED
      BY <3>1, QuitsAddUp DEF HalfSaved
  <2> QED
    BY <2>1, <2>2
<1>2. ASSUME NEW i \in Item, NEW p \in Product, NEW q \in Quantity, FindProduct(r, i, p, q)
      PROVE  MoneyInv'
  <2>1. CASE OnSale(p)
    BY <1>2, <2>1, FindProductAddsUp
  <2>2. CASE ~OnSale(p)
    <3>1. /\ pc[r] = "product" /\ Finish(r)
          /\ UNCHANGED <<orders, total, home, quantity, price, split, causes>>
      BY <1>2, <2>2 DEF FindProduct, history
    <3> QED
      BY <3>1, QuitsAddUp DEF HalfSaved
  <2> QED
    BY <2>1, <2>2
<1>3. CASE InsertItem(r)
  <2>1. CASE home[req[r].line] = Gone /\ OnSale(product[req[r].line])
    BY <1>3, <2>1, InsertItemAddsUp
  <2>2. CASE ~(home[req[r].line] = Gone /\ OnSale(product[req[r].line]))
    <3>1. /\ pc[r] = "insertItem" /\ Finish(r)
          /\ UNCHANGED <<orders, total, home, quantity, price, split, causes>>
      BY <1>3, <2>2 DEF InsertItem, history
    <3> QED
      BY <3>1, QuitsAddUp DEF HalfSaved
  <2> QED
    BY <2>1, <2>2
<1>5. CASE Write(r)
  <2>1. CASE Accepted(r)
    BY <1>5, <2>1, WriteAddsUp
  <2>2. CASE ~Accepted(r)
    <3>1. /\ Finish(r) /\ Blame(req[r].ord, IF HalfSaved(r) THEN {"half"} ELSE {})
          /\ UNCHANGED <<orders, total, home, quantity, price, split>>
      BY <1>5, <2>2 DEF Write
    <3> QED
      BY <3>1, BlamedIsSpoiled, QuitsAddUp
  <2> QED
    BY <2>1, <2>2
<1> QED
  BY <1>1, <1>2, <1>3, <1>5, ReloadAddsUp, ReloadItemAddsUp, WriteItemAddsUp, DeleteItemAddsUp,
     DeleteOrderAddsUp DEF Proceed

LEMMA StopAddsUp ==
  ASSUME IInv, MoneyInv, NEW r \in Request, Stop(r)
  PROVE  MoneyInv'
<1>1. /\ Finish(r) /\ Blame(req[r].ord, IF HalfSaved(r) THEN {"half"} ELSE {})
      /\ UNCHANGED <<orders, total, home, quantity, price, split>>
  BY DEF Stop, rows
<1> QED
  BY <1>1, BlamedIsSpoiled, QuitsAddUp

LEMMA BeginsAddedUp == Init => MoneyInv
<1> SUFFICES ASSUME Init PROVE MoneyInv
  OBVIOUS
<1>p. PICK o \in Order \cup {None}, i \in Item, p \in Product, q \in Quantity :
        /\ o # None => OnSale(p)
        /\ orders = Order \cap {o} /\ everOrder = orders
        /\ home = [j \in Item |-> IF j = i /\ o # None THEN o ELSE Gone]
        /\ quantity = [j \in Item |-> IF home[j] # Gone THEN q ELSE 0]
        /\ product = [j \in Item |-> IF home[j] # Gone THEN p ELSE None]
        /\ price = [j \in Item |-> cost[p]]
        /\ total = [x \in Order |-> IF x = o THEN q * cost[p] ELSE 0]
        /\ wanted = [x \in Order |-> IF x = o THEN {i} ELSE {}]
  BY Zenon DEF Init
<1>i. /\ pc = [r \in Request |-> "new"] /\ req = [r \in Request |-> Idle] /\ split = {}
  BY DEF Init
<1>c. cost[p] \in Price /\ cost[p] \in Int /\ q \in Int
  BY Numbers DEF Init, CatalogInit
<1>1. AmountTypes
  <2>1. total \in [Order -> Int]
    BY <1>c, <1>p
  <2>2. price \in [Item -> Price]
    BY <1>c, <1>p
  <2> QED
    BY <1>i, <2>1, <2>2 DEF AmountTypes, Idle
<1>2. \A r \in Request : AddsUp(r) /\ pc[r] # "write"
  BY <1>i DEF AddsUp, Idle
<1>3. TotalMatchesLines
  <2>1. ASSUME NEW x \in orders PROVE total[x] = Sum(Stored(x), price)
    <3>1. x = o /\ o \in Order
      BY <1>p
    <3>2. Stored(x) = [NoLines EXCEPT ![i] = q]
      BY <1>p, <3>1, NamesDiffer DEF Stored, NoLines
    <3>3. NoLines \in [Item -> Quantity \cup {0}] /\ NoLines[i] = 0
      BY DEF NoLines
    <3>4. Sum(NoLines, price) = 0
      <4> DEFINE f == [j \in Item |-> NoLines[j] * price[j]]
      <4>1. f \in [Item -> Int] /\ Sum(NoLines, price) = SumFunctionOnSet(f, Item)
        BY <1>1, <3>3, Amounts DEF AmountTypes
      <4>2. \A j \in Item : f[j] = 0
        <5>1. \A j \in Item : NoLines[j] = 0 /\ price[j] \in Int
          BY <1>c, <1>p DEF NoLines
        <5> QED
          BY <5>1
      <4> HIDE DEF f
      <4> QED
        BY <4>1, <4>2, ItemAssumption, SumOfZeros
    <3>5. Sum([NoLines EXCEPT ![i] = q], price) = Sum(NoLines, price) + (q - NoLines[i]) * price[i]
      BY <1>1, <3>3, OneLineChanges DEF AmountTypes
    <3>6. (q - NoLines[i]) * price[i] = q * cost[p] /\ q * cost[p] \in Int
      BY <1>c, <1>p, <3>3
    <3> QED
      BY <1>p, <3>1, <3>2, <3>4, <3>5, <3>6
  <2> QED
    BY <2>1 DEF TotalMatchesLines
<1> QED
  BY <1>1, <1>2, <1>3 DEF MoneyInv

LEMMA AmountsInductive == Spec => []MoneyInv
<1>1. IInv /\ MoneyInv /\ [Next]_vars => MoneyInv'
  <2> SUFFICES ASSUME IInv, MoneyInv, [Next]_vars PROVE MoneyInv'
    OBVIOUS
  <2>1. ASSUME NEW r \in Request, Arrivals(r) \/ Proceed(r) \/ Stop(r) PROVE MoneyInv'
    BY <2>1, ArrivalAddsUp, ProceedAddsUp, StopAddsUp
  <2>2. ASSUME NEW o \in Order, Settle(o) PROVE MoneyInv'
    BY <2>2, UnaffectedAddsUp DEF Settle, requests
  <2>3. CASE UNCHANGED itemVars
    BY <2>3, UnaffectedAddsUp DEF itemVars, rows, requests, history
  <2>4. CASE UNCHANGED vars
    BY <2>3, <2>4 DEF vars
  <2> QED
    BY <2>1, <2>2, <2>3, <2>4 DEF Next
<1> QED
  BY <1>1, BeginsAddedUp, Inductive, PTL DEF Spec

\* The total of an order is the sum of its lines, whatever edits, payments and
\* changes of the menu interleave, unless a save overwrote a change since its
\* SELECT, read between two saves of another, or stopped between its own two.
THEOREM TotalsMatch == Spec => []TotalMatchesLines
<1>1. MoneyInv => TotalMatchesLines
  BY DEF MoneyInv
<1> QED
  BY <1>1, AmountsInductive, PTL

\* Rows, entities, differences and what is on record keep their types.
THEOREM TypesAreKept == Spec => []TypeOK
<1>1. IInv /\ MoneyInv => TypeOK
  <2> SUFFICES ASSUME IInv, MoneyInv PROVE TypeOK
    OBVIOUS
  <2>t. CatalogTypeOK /\ RowTypes /\ RequestTypes /\ AmountTypes
    BY DEF IInv, CatalogOK, MoneyInv
  <2>1. req \in [Request -> Work]
    <3>1. PICK old : req \in [Request -> WorkOf(old)]
      BY <2>t DEF RequestTypes
    <3>2. \A r \in Request : req[r] \in Work
      BY <2>t, <3>1 DEF WorkOf, Work, Entity, AmountTypes
    <3> QED
      BY <3>1, <3>2
  <2> QED
    BY <2>t, <2>1 DEF TypeOK, RowTypes, RequestTypes, AmountTypes
<1> QED
  BY <1>1, Inductive, AmountsInductive, PTL
==============================================================================
