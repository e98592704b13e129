------------------------------ MODULE Catalog -------------------------------
(***************************************************************************)
(* Categories and products: MenuService and MenuItemService                *)
(* (src/backend/src/menus, src/backend/src/menu-items). An edit is one     *)
(* request of the staff, used once; at[e] is the call it awaits. Names,    *)
(* descriptions and availability are left out, so saving a category only   *)
(* matters for whether its row exists.                                     *)
(***************************************************************************)
EXTENDS Naturals

CONSTANTS Category, Product, Edit, Price, None

ASSUME CatalogAssumption == None \notin Category /\ Price \subseteq Nat /\ Price # {}

VARIABLES
  category,  \* the rows of categories
  shelf,     \* products.category_id, or None: no such row
  cost,      \* products.price
  issued,    \* the ids ever given to categories and products
  at,        \* the call an edit awaits
  edit       \* the id it is about, the product entity it holds, and what its
             \* save found different

goods       == <<category, shelf, cost, issued>>
catalogVars == <<goods, at, edit>>

Draft == [id : Category \cup Product \cup {None}, category : Category \cup {None},
          price : Price, plan : SUBSET {"category", "price"}]
Blank == [id |-> None, category |-> None, price |-> CHOOSE n \in Price : TRUE, plan |-> {}]

CatalogTypeOK ==
  /\ category \in SUBSET Category
  /\ shelf \in [Product -> Category \cup {None}]
  /\ cost \in [Product -> Price]
  /\ issued \in SUBSET (Category \cup Product)
  /\ at \in [Edit -> {"new", "saveCategory", "insertCategory", "findCategory",
                      "saveProduct", "writeProduct", "insertProduct", "done"}]
  /\ edit \in [Edit -> Draft]

\* A shop that has set up some categories and put products on them.
CatalogInit ==
  /\ category \in SUBSET Category
  /\ shelf \in [Product -> category \cup {None}]
  /\ cost \in [Product -> Price]
  /\ issued = category \cup {p \in Product : shelf[p] # None}
  /\ at = [e \in Edit |-> "new"]
  /\ edit = [e \in Edit |-> Blank]

OnSale(p) == shelf[p] # None

EditGoes(e, to) == at' = [at EXCEPT ![e] = to]
EditEnds(e)     == EditGoes(e, "done") /\ edit' = [edit EXCEPT ![e] = Blank]

-----------------------------------------------------------------------------
(***************************************************************************)
(* Categories                                                              *)
(***************************************************************************)

CreateCategory(c) ==
  /\ c \notin issued
  /\ category' = category \cup {c}
  /\ issued' = issued \cup {c}
  /\ UNCHANGED <<shelf, cost, at, edit>>

\* update: findOne, then save, whose SELECT decides between UPDATE and INSERT.
LoadCategory(e, c) ==
  /\ at[e] = "new" /\ c \in category
  /\ edit' = [edit EXCEPT ![e].id = c]
  /\ EditGoes(e, "saveCategory")
  /\ UNCHANGED goods

ReloadCategory(e) ==
  /\ at[e] = "saveCategory"
  /\ IF edit[e].id \in category THEN EditEnds(e)
     ELSE EditGoes(e, "insertCategory") /\ UNCHANGED edit
  /\ UNCHANGED goods

\* The category was deleted meanwhile: save brings it back, without products.
\* A second INSERT of the id fails.
InsertCategory(e) ==
  /\ at[e] = "insertCategory"
  /\ category' = category \cup {edit[e].id}
  /\ EditEnds(e)
  /\ UNCHANGED <<shelf, cost, issued>>

\* DELETE cascades to the category's products and fails when order lines
\* refer to one of them. What findOne read does not matter to it.
DeleteCategory(c, inUse) ==
  /\ c \in category
  /\ \A p \in inUse : shelf[p] # c
  /\ category' = category \ {c}
  /\ shelf' = [p \in Product |-> IF shelf[p] = c THEN None ELSE shelf[p]]
  /\ UNCHANGED <<cost, issued, at, edit>>

-----------------------------------------------------------------------------
(***************************************************************************)
(* Products                                                                *)
(***************************************************************************)

\* The category is looked up, then the row is inserted.
CreateProduct(e, p, c, n) ==
  /\ at[e] = "new" /\ p \notin issued /\ c \in category
  /\ issued' = issued \cup {p}
  /\ edit' = [edit EXCEPT ![e] = [Blank EXCEPT !.id = p, !.category = c, !.price = n]]
  /\ EditGoes(e, "insertProduct")
  /\ UNCHANGED <<category, shelf, cost>>

\* A PATCH with price n (or the one that was read) and perhaps a category.
LoadProduct(e, p, n) ==
  /\ at[e] = "new" /\ OnSale(p)
  /\ edit' = [edit EXCEPT ![e] = [Blank EXCEPT !.id = p, !.category = shelf[p], !.price = n]]
  /\ \E to \in {"findCategory", "saveProduct"} : EditGoes(e, to)
  /\ UNCHANGED goods

FindCategory(e, c) ==
  /\ at[e] = "findCategory"
  /\ IF c \in category
       THEN edit' = [edit EXCEPT ![e].category = c] /\ EditGoes(e, "saveProduct")
       ELSE EditEnds(e)
  /\ UNCHANGED goods

ReloadProduct(e) ==
  LET p    == edit[e].id
      diff == {x \in {"category", "price"} :
                 \/ x = "category" /\ edit[e].category # shelf[p]
                 \/ x = "price" /\ edit[e].price # cost[p]}
  IN  /\ at[e] = "saveProduct"
      /\ IF ~OnSale(p) THEN EditGoes(e, "insertProduct") /\ UNCHANGED edit
         ELSE IF diff = {} THEN EditEnds(e)
         ELSE edit' = [edit EXCEPT ![e].plan = diff] /\ EditGoes(e, "writeProduct")
      /\ UNCHANGED goods

\* UPDATE of the columns that differed. The foreign key refuses a category
\* that is gone; a row that is gone is not brought back.
UpdateProduct(e) ==
  LET p == edit[e].id
      c == IF "category" \in edit[e].plan THEN edit[e].category ELSE shelf[p]
  IN  /\ at[e] = "writeProduct"
      /\ IF OnSale(p) /\ c \in category
           THEN /\ shelf' = [shelf EXCEPT ![p] = c]
                /\ cost' = [cost EXCEPT ![p] =
                              IF "price" \in edit[e].plan THEN edit[e].price ELSE @]
           ELSE UNCHANGED <<shelf, cost>>
      /\ EditEnds(e)
      /\ UNCHANGED <<category, issued>>

InsertProduct(e) ==
  LET p == edit[e].id
  IN  /\ at[e] = "insertProduct"
      /\ IF ~OnSale(p) /\ edit[e].category \in category
           THEN /\ shelf' = [shelf EXCEPT ![p] = edit[e].category]
                /\ cost' = [cost EXCEPT ![p] = edit[e].price]
           ELSE UNCHANGED <<shelf, cost>>
      /\ EditEnds(e)
      /\ UNCHANGED <<category, issued>>

DeleteProduct(p, inUse) ==
  /\ OnSale(p) /\ p \notin inUse
  /\ shelf' = [shelf EXCEPT ![p] = None]
  /\ UNCHANGED <<category, cost, issued, at, edit>>

-----------------------------------------------------------------------------

\* The routes of the two controllers; inUse are the products of order lines.
CategoryRoutes(inUse) ==
  \/ \E c \in Category : CreateCategory(c) \/ DeleteCategory(c, inUse)
  \/ \E e \in Edit, c \in Category : LoadCategory(e, c)
  \/ \E e \in Edit : ReloadCategory(e) \/ InsertCategory(e)

ProductRoutes(inUse) ==
  \/ \E e \in Edit, p \in Product, n \in Price :
       \/ \E c \in Category : CreateProduct(e, p, c, n)
       \/ LoadProduct(e, p, n)
  \/ \E e \in Edit, c \in Category : FindCategory(e, c)
  \/ \E e \in Edit : ReloadProduct(e) \/ UpdateProduct(e) \/ InsertProduct(e)
  \/ \E p \in Product : DeleteProduct(p, inUse)

CatalogNext(inUse) == CategoryRoutes(inUse) \/ ProductRoutes(inUse)
=============================================================================
